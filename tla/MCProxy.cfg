SPECIFICATION PxSpec
CONSTANTS
  Session = {s1, s2}
  Admin = {a1, a2}
  Casts = {{s1, s2}, {s1, a1}, {a1, a2}}
  Pins = {"restored"}
  Kinds = {"command", "kube", "noop"}
  Ops = {"start", "stop", "pin", "unpin", "keepwarm", "nokeepwarm", "register", "deregister"}
  MaxStates = 2
  MaxFaults = 1
INVARIANT GaugeExact
 
 

 
PROPERTY IdleScaledDown
