CONSTANTS
    Users = {u1, u2}
    Versions = {v1, v2}
    Found = {v2}
    Sessions = {s1}
    Switches = {w1}
    Checks = {c1}
    MaxOps = 1
    Faults = {"mint", "start", "stop", "die", "quit"}
    NoUser = NoUser
    NoCli = NoCli
    Unresolved = Unresolved
    NoDaemon = NoDaemon
    Nobody = Nobody
SPECIFICATION FairSpec
INVARIANTS TypeOK GuardHeld
PROPERTIES GuardFreed SwitchRestarts DeferredRestart StatusSettles
