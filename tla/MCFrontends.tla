---------------------------- MODULE MCFrontends ----------------------------
(* A small instance of the parts of the two frontends, which share no      *)
(* state.  They are explored side by side: a behaviour is one of one part, *)
(* and the others stay in one of their initial states.                     *)
EXTENDS WebTestSession, SpeedSession, TestForm, WebSession,
        ManagerPages, TestReports

VARIABLE part    \* the part whose behaviour this is

web == <<vars, speedVars, formVars, sessionVars>>
manager == <<pagesVars, reportVars>>
all == <<part, web, manager>>

InTests(A) == /\ part = "tests" /\ A
              /\ UNCHANGED <<part, speedVars, formVars, sessionVars, manager>>
InSpeed(A) == /\ part = "speed" /\ A
              /\ UNCHANGED <<part, vars, formVars, sessionVars, manager>>
InForm(A) == /\ part = "form" /\ A
             /\ UNCHANGED <<part, vars, speedVars, sessionVars, manager>>
InSession(A) == /\ part = "session" /\ A
                /\ UNCHANGED <<part, vars, speedVars, formVars, manager>>
InPages(A) == /\ part = "pages" /\ A
              /\ UNCHANGED <<part, web, reportVars>>
InReports(A) == /\ part = "reports" /\ A
                /\ UNCHANGED <<part, web, pagesVars>>

FrontendsInit ==
    /\ part \in {"tests", "speed", "form", "session", "pages", "reports"}
    /\ Init /\ SpeedInit /\ FormInit /\ SessionInit
    /\ PagesInit /\ ReportsInit
    /\ part # "tests" => ~config.authEnabled /\ ~config.sessionStored
    /\ part # "pages" => canManage
    /\ part # "reports" => recorded = <<>>

FrontendsNext ==
    \/ InTests(Next) \/ InSpeed(SpeedNext) \/ InForm(FormNext) \/ InSession(SessionNext)
    \/ InPages(PagesNext) \/ InReports(ReportsNext)

FrontendsFairness ==
    /\ \A s \in Sockets : WF_all(InTests(Connect(s))) /\ WF_all(InTests(Deliver(s)))
    /\ \A t \in Tests : WF_all(InTests(Handler(t)))
    /\ \A i \in Mounts : WF_all(InSpeed(GapEnds(i)))

FrontendsSpec == FrontendsInit /\ [][FrontendsNext]_all /\ FrontendsFairness
=============================================================================
