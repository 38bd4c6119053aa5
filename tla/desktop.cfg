SPECIFICATION FairDesktop
CONSTANTS
    Procs = {p1, p2}
    NoProc = NoProc
    Overlap = FALSE
    Faults = {"open", "accept"}
    Hidden = {p2}
    Others = {r1}
    NoWindow = NoWindow
    WindowFaults = {"spawn"}
INVARIANTS OneSupervisor ChildIsTheWindow QuitClosesWindow
PROPERTIES RequestIsServed StartShowsWindow
CHECK_DEADLOCK FALSE
