SPECIFICATION Spec
CONSTANTS
  Client = {c1, c2}
  Char = {outlet, power}
  Sensor = {outlet}
  Writable = {power, outlet}
  Echo = {power}
  Plugin = {{outlet}, {power}}
  Other = other
  QueueSize = 3
  MessageRoom = 1
INVARIANTS
  TypeOK
  StaleIsQueued
PROPERTIES
  SubscriberCatchesUp
