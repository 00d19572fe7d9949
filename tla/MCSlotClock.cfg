SPECIFICATION Spec
\* Microseconds; the values of fhss_audio_adapter_init.
CONSTANTS
  SlotDuration = 300000
  Guard = 5000
  Offset = 0
  Margin = 20000
  Deadband = 500
  Fast = 2000
  SlowDivisor = 8
  FastDivisor = 2
  MaxStep = 500
  Window = 80000
  RecoveryEntry = 2
  SlotMax = 7
  TimeMax = 4000000
  Drift = 30
  Delays = {0, 300, 2500}
  Airtime = 4000
  Late = 1000
\* Behaviours end where the slot counter does.
CHECK_DEADLOCK FALSE
INVARIANTS
  TypeOK
  NoOvershoot
PROPERTIES
  NeverDeaf
  OnlyMissesEndIt
