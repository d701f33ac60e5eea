SPECIFICATION Spec
CONSTANTS
  Confirmations = {3600, 57600, 61199, 61200, 79201, 86399, 147599}
  Waits = {0, 1, 1800, 3599, 3600, 3601}
  Stays = {1, 59, 60, 61, 119, 120, 1800, 3599, 3600, 3601, 3659, 3660, 3661, 7200, 7260,
           25200, 43200, 61199, 61200, 82800, 86399, 86400, 172800, 2588400, 2588460,
           2591999, 2592000, 2592060, 2595600, 2595660}
  Delays = {0, 2, 61}
INVARIANTS HoursBilled NightBilledOnce ParkedTimeBilled
CHECK_DEADLOCK FALSE
