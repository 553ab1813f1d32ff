------------------------ MODULE InterviewSessionMC ------------------------
(***************************************************************************)
(* Small instances of InterviewSession.                                    *)
(***************************************************************************)
EXTENDS InterviewSession, TLC

Devices(camera) ==
  {[kind |-> "camera", status |-> camera], [kind |-> "microphone", status |-> "ok"],
   [kind |-> "speaker", status |-> "ok"]}

Report(suite, devices, connection, bandwidth) ==
  [suite |-> suite, devices |-> devices, connection |-> connection,
   bandwidth |-> bandwidth]

GoodReport == Report("2026.08", Devices("ok"), "good", 300)
BadReport  == Report("2026.08", Devices("degraded"), "fair", 300)

\* One report for each rule of evaluate_precheck, at its boundary.
AllReports ==
  {GoodReport, BadReport,
   Report("2026.07", Devices("ok"), "good", 300),
   Report("2026.08", Devices("ok") \ {[kind |-> "camera", status |-> "ok"]}, "good", 300),
   Report("2026.08", Devices("ok") \union Devices("missing"), "good", 300),
   Report("2026.08", Devices("ok"), "unknown", 300),
   Report("2026.08", Devices("ok"), "fair", 299)}

TwoReports == {GoodReport, BadReport}

\* Every shape build_plan can give a plan.
AllPlans ==
  {BuildPlan(missing, verified, years) :
     missing \in 0 .. 4, verified \in 0 .. 3, years \in 0 .. 1}

\* One technical topic and the candidate's own questions.
ShortPlan == {BuildPlan(1, 0, 0)}

Symmetry == Permutations(Requests)

=============================================================================
