SPECIFICATION FairSpec
CONSTANTS
  TIMERS_MAX_CANT = 3
  TIMER_INVALID_ID = 255
  I2C_FIFO_SIZE = 16
  I2C_PERIOD = 10
  DOOR_PERIOD = 7
  TICK_STEPS = 2
INVARIANTS
  FiresOnTime
  WireCarriesTable
  ReadyMeansConfigured
PROPERTIES
  CameraBecomesReady
