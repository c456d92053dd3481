---------------------------- MODULE MCLifecycle ----------------------------
EXTENDS Lifecycle
Real(path) == [mock |-> FALSE, restore_auto |-> FALSE, tcp |-> "none", socket |-> path]
Mock(path) == [Real(path) EXCEPT !.mock = TRUE]
RestoreAuto(path) == [Real(path) EXCEPT !.restore_auto = TRUE]
MockTcp == [Mock("run") EXCEPT !.tcp = "loopback"]
RealTcp == [Real("run") EXCEPT !.tcp = "loopback"]
SeparatePaths == {Real("run"), RestoreAuto("alt"), Mock("dev"), MockTcp, RealTcp}
SharedPath == {Real("run"), Mock("run")}
=============================================================================
