CONSTANTS
  Instants <- MCInstants
  Zones <- MCZones
  Skews <- MCSkews
  Errors <- MCErrors
  TimeStyle <- MCTimeStyle
  DateStyle <- MonthFirst
SPECIFICATION ClockSpec
PROPERTIES
  DateAsDisplayed
