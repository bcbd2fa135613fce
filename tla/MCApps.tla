-------------------------------- MODULE MCApps --------------------------------
(* The two applications around the client, which run on different devices:    *)
(* the desktop client and the Android binding.  A behaviour looks at one of   *)
(* them; the other one stays as it was at the start.                          *)
EXTENDS Desktop, Android

VARIABLE app

appsVars == <<vars, androidVars, app>>

AppsInit ==
    /\ Init /\ AndroidInit
    /\ app \in {"desktop", "android"}
    /\ app = "desktop" => part = "logs"
    /\ app = "android" => focus = "tests"

OnDesktop(step) == app = "desktop" /\ step /\ UNCHANGED <<androidVars, app>>
OnAndroid(step) == app = "android" /\ step /\ UNCHANGED <<vars, app>>

AppsNext == OnDesktop(Next) \/ OnAndroid(AndroidNext)

InPlane(s, step) == s \in Sessions /\ OnAndroid(Step(step))

(* The fairness of Desktop and of Android, each on its device.                *)
AppsSpec ==
    /\ AppsInit /\ [][AppsNext]_appsVars
    /\ WF_appsVars(OnDesktop(InSession(UiThread)))
    /\ WF_appsVars(OnDesktop(InSession(ProxyThread)))
    /\ WF_appsVars(OnDesktop(InSession(WatcherReports)))
    /\ WF_appsVars(OnDesktop(BackgroundStep))
    /\ \A s \in 1..MaxVpnStarts :
         /\ WF_appsVars(InPlane(s, StartRefused(s) \/ StartAccepted(s) \/ StartReturns(s)))
         /\ WF_appsVars(InPlane(s, RuntimeDrops(s) \/ StopReturns(s)))
         /\ WF_appsVars(InPlane(s, OpenerFails(s) \/ StackEnds(s) \/ Joined(s) \/ Reports(s)))
         /\ WF_appsVars(InPlane(s, StackTakes(s)))
         /\ WF_appsVars(InPlane(s, ReaderSends(s)))
         /\ WF_appsVars(InPlane(s, ReaderStops(s)))
         /\ WF_appsVars(InPlane(s, WriterStops(s)))
=============================================================================
