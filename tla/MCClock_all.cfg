CONSTANTS
  Instants <- MCInstants
  Zones <- MCZones
  Skews <- MCSkews
  Errors <- MCErrors
  TimeStyle <- MCTimeStyle
  DateStyle <- MCDateStyle
SPECIFICATION ClockSpec
PROPERTIES
  SetFromCar
  GpsAdjusts
