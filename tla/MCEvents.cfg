SPECIFICATION EVSpec
CONSTANTS
  d1 = d1
  d2 = d2
  t1 = t1
  t2 = t2
  t3 = t3
  Devices = {d1, d2}
  Topics = {t1, t2, t3}
  DeviceOf <- MCDeviceOf
  MaxMessages = 4
  MaxSent = 2
  None = none
CHECK_DEADLOCK FALSE
PROPERTIES
  Numbered
  Served
