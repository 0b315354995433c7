------------------------------ MODULE Parts_proofs ------------------------------
(***************************************************************************)
(* What the runs of the joined parts check of each of them holds in        *)
(* every behaviour: a behaviour of a part is one of the component the part *)
(* is an instance of, whose theorems the instance has once its constants   *)
(* are shown to be what they ask for.                                      *)
(***************************************************************************)
EXTENDS MCOrders, MCApplications, MCPages, MCPostings, FiniteSets, FiniteSetTheorems, TLAPS

-----------------------------------------------------------------------------
(* MCOrders: every part is an instance of ControlPlane. *)

(* The part a behaviour is of. *)
Order(name) == order = name

LEMMA OrderStays ==
    ASSUME NEW CONSTANT name, [OrdersNext]_orderVars
    PROVE  Order(name)' <=> Order(name)
BY DEF OrdersNext, orderVars, Order

-----------------------------------------------------------------------------
\* The constants of the parts

LEMMA PolicyValues ==
    /\ \A body \in SelectPolicies \union AgainPolicy \union OnePolicy \union {NoPolicy} :
         /\ body = [select |-> body.select, form |-> body.form,
                    reapply |-> body.reapply, actions |-> body.actions]
         /\ body.reapply \in BOOLEAN
         /\ body.actions \subseteq {"read_jobs", "submit"}
    /\ NoPolicy \notin SelectPolicies \union AgainPolicy \union OnePolicy
BY DEF SelectPolicies, AgainPolicy, OnePolicy, NoPolicy, Body

LEMMA ReportValues ==
    \A report \in StraightReports :
        /\ report = [from |-> report.from, state |-> report.state,
                     reason |-> report.reason, evidence |-> report.evidence]
        /\ report.from \in {"screening", "tailoring", "filling", "submitting"}
        /\ report.state \in {"tailoring", "filling", "needs_policy_decision",
                             "submission_unknown"}
        /\ report.reason \in {"worker", "submit_approval"}
        /\ report.evidence \subseteq {"artifactVerified"}
        /\ report.reason = "submit_approval" => report.from = "filling"
BY DEF StraightReports, Event

LEMMA SelectionValues == Selection!ControlAssumption
<1>1. Selection!PolicyAssumption
  BY PolicyValues DEF Selection!PolicyAssumption
<1>2. Selection!ReportAssumption
  BY ReportValues
  DEF Selection!ReportAssumption, Selection!States, Selection!SafeStages,
      Selection!Ambiguous, Selection!Terminal, Selection!Waiting, Selection!Reasons,
      Selection!Evidence
<1> QED BY <1>1, <1>2 DEF Selection!ControlAssumption

LEMMA AttemptsValues == Attempts!ControlAssumption
<1>1. Attempts!PolicyAssumption
  BY PolicyValues DEF Attempts!PolicyAssumption
<1>2. Attempts!ReportAssumption
  BY ReportValues
  DEF Attempts!ReportAssumption, Attempts!States, Attempts!SafeStages,
      Attempts!Ambiguous, Attempts!Terminal, Attempts!Waiting, Attempts!Reasons,
      Attempts!Evidence
<1> QED BY <1>1, <1>2 DEF Attempts!ControlAssumption

LEMMA BoardValues == Board!ControlAssumption
<1>1. Board!PolicyAssumption
  BY PolicyValues DEF Board!PolicyAssumption
<1>2. Board!ReportAssumption
  BY ReportValues
  DEF Board!ReportAssumption, Board!States, Board!SafeStages, Board!Ambiguous,
      Board!Terminal, Board!Waiting, Board!Reasons, Board!Evidence
<1> QED BY WorkerNames, <1>1, <1>2 DEF Board!ControlAssumption

LEMMA BoardsValues == Boards!ControlAssumption
<1>1. Boards!PolicyAssumption
  BY PolicyValues DEF Boards!PolicyAssumption
<1>2. Boards!ReportAssumption
  BY ReportValues
  DEF Boards!ReportAssumption, Boards!States, Boards!SafeStages, Boards!Ambiguous,
      Boards!Terminal, Boards!Waiting, Boards!Reasons, Boards!Evidence
<1> QED BY <1>1, <1>2 DEF Boards!ControlAssumption

-----------------------------------------------------------------------------
\* A behaviour of a part is a behaviour of ControlPlane

LEMMA SelectionRuns == OrdersSpec => (Order("selection") => Selection!Spec)
<1>1. OrdersInit /\ Order("selection") => Selection!Init
  BY DEF OrdersInit, Order
<1>2. Selection!NextPolicy => Selection!Next
  BY DEF Selection!NextPolicy, Selection!Next, Selection!Step, Selection!ClockStep
<1>3. Order("selection") /\ [OrdersNext]_orderVars => Order("selection")' /\ [Selection!Next]_Selection!vars
  BY <1>2, OrderStays DEF OrdersNext, orderVars, Selection!vars, Order
<1> QED BY <1>1, <1>3, PTL DEF OrdersSpec, Selection!Spec

LEMMA AttemptsRuns == OrdersSpec => (Order("attempts") => Attempts!Spec)
<1>1. OrdersInit /\ Order("attempts") => Attempts!Init
  BY DEF OrdersInit, Order
<1>2. Attempts!NextAttempts => Attempts!Next
  BY DEF Attempts!NextAttempts, Attempts!Next, Attempts!Step, Attempts!WorkerStep,
         Attempts!LeaseStep, Attempts!RunStep, Attempts!RemoveStep, Attempts!DecideStep,
         Attempts!SaveAndEnable, Attempts!PolicyStep, Attempts!ClockStep
<1>3. Order("attempts") /\ [OrdersNext]_orderVars => Order("attempts")' /\ [Attempts!Next]_Attempts!vars
  BY <1>2, OrderStays DEF OrdersNext, orderVars, Attempts!vars, Order
<1> QED BY <1>1, <1>3, PTL DEF OrdersSpec, Attempts!Spec

LEMMA BoardRuns == OrdersSpec => (Order("board") => Board!Spec)
<1>1. OrdersInit /\ Order("board") => Board!Init
  BY DEF OrdersInit, Order
<1>2. Board!NextLeases => Board!Next
  BY DEF Board!NextLeases, Board!Next, Board!Step, Board!RunStep, Board!DecideStep,
         Board!FirstPolicy, Board!PolicyStep, Board!ClockStep
<1>3. Order("board") /\ [OrdersNext]_orderVars => Order("board")' /\ [Board!Next]_Board!vars
  BY <1>2, OrderStays DEF OrdersNext, orderVars, Board!vars, Order
<1> QED BY <1>1, <1>3, PTL DEF OrdersSpec, Board!Spec

LEMMA BoardsRuns == OrdersSpec => (Order("boards") => Boards!Spec)
<1>1. OrdersInit /\ Order("boards") => Boards!Init
  BY DEF OrdersInit, Order
<1>2. Boards!NextLeases => Boards!Next
  BY DEF Boards!NextLeases, Boards!Next, Boards!Step, Boards!RunStep, Boards!DecideStep,
         Boards!FirstPolicy, Boards!PolicyStep, Boards!ClockStep
<1>3. Order("boards") /\ [OrdersNext]_orderVars => Order("boards")' /\ [Boards!Next]_Boards!vars
  BY <1>2, OrderStays DEF OrdersNext, orderVars, Boards!vars, Order
<1> QED BY <1>1, <1>3, PTL DEF OrdersSpec, Boards!Spec

-----------------------------------------------------------------------------
(* A worker's runs and a role's attempts go on one at a time, also while the
   policy selects other roles and a second run tries the role again (runs.ts,
   stores.ts, discovery.ts). *)
THEOREM WorkIsOneAtATime == OrdersSpec => []OneAtATime
<1>1. Selection!Spec => [](Selection!OneRunningRun /\ Selection!EndedWorkIsOver)
  <2>1. Selection!WorkIsBound => Selection!EndedWorkIsOver
    BY DEF Selection!WorkIsBound
  <2> QED BY <2>1, SelectionValues, Selection!OneOfEach, Selection!WorkBound, PTL
<1>2. Attempts!Spec => [](Attempts!OneLiveAttempt /\ Attempts!TargetsFollowWork)
  BY AttemptsValues, Attempts!OneOfEach, PTL
<1>3. [OrdersNext]_orderVars => /\ (Order("selection")' <=> Order("selection"))
                     /\ (Order("attempts")' <=> Order("attempts"))
  BY OrderStays
<1>4. /\ Order("selection") => Selection!OneRunningRun /\ Selection!EndedWorkIsOver
      /\ Order("attempts") => Attempts!OneLiveAttempt /\ Attempts!TargetsFollowWork
      => OneAtATime
  BY DEF Order, OneAtATime
<1> QED BY <1>1, <1>2, <1>3, <1>4, SelectionRuns, AttemptsRuns, PTL DEF OrdersSpec

(* A board and a worker have one lease each and only where work can go on,
   with two workers at one board and with one worker at two (leases.ts,
   0002_worker_control.sql). *)
THEOREM LeasesKeepRules == OrdersSpec => []LeaseRules
<1>1. Board!Spec => []Board!LeaseRules
  BY BoardValues, Board!LeasesObeyRules, PTL
<1>2. Boards!Spec => []Boards!LeaseRules
  BY BoardsValues, Boards!LeasesObeyRules, PTL
<1>3. [OrdersNext]_orderVars => /\ (Order("board")' <=> Order("board"))
                     /\ (Order("boards")' <=> Order("boards"))
  BY OrderStays
<1>4. /\ Order("board") => Board!LeaseRules
      /\ Order("boards") => Boards!LeaseRules
      => LeaseRules
  BY DEF Order, LeaseRules
<1> QED BY <1>1, <1>2, <1>3, <1>4, BoardRuns, BoardsRuns, PTL DEF OrdersSpec

(* The two attempts at a role are to the employer what SubmissionLedger says:
   one submission open at a time, refuted only after its window
   (submissions.ts). *)
THEOREM AttemptsKeepLedger == OrdersSpec => KeepsLedger
<1>1. Attempts!Spec =>
        /\ Attempts!Ledger!LedgerInit
        /\ [][Attempts!Ledger!LedgerNext]_(Attempts!Ledger!ledgerVars)
  BY AttemptsValues, Attempts!LedgerKept, PTL DEF Attempts!KeepsLedger, Attempts!Ledger!LedgerSpec
<1>2. [OrdersNext]_orderVars => (Order("attempts")' <=> Order("attempts"))
  BY OrderStays
<1>3. [Attempts!Ledger!LedgerNext]_(Attempts!Ledger!ledgerVars) => LedgerStep
  BY DEF LedgerStep
<1>4. (Order("attempts") => LedgerStep) => [order = "attempts" => LedgerStep]_orderVars
  BY DEF Order
<1>5. order = "attempts" => Order("attempts")
  BY DEF Order
<1> QED BY <1>1, <1>2, <1>3, <1>4, <1>5, AttemptsRuns, PTL DEF OrdersSpec, KeepsLedger

-----------------------------------------------------------------------------
(* MCApplications: every part is an instance of one of its components. *)

(* The part a behaviour is of. *)
In(name) == part = name

LEMMA PartStays ==
    ASSUME NEW CONSTANT name, [Next]_vars
    PROVE  In(name)' <=> In(name)
BY DEF Next, vars, In

LEMMA OverlapValues == Overlap!StagingAssumption
BY CallerNames DEF Overlap!StagingAssumption

LEMMA OverlapRuns == Spec => (In("overlap") => Overlap!Spec)
<1>1. Init /\ In("overlap") => Overlap!Init
  BY DEF Init, In
<1>2. In("overlap") /\ [Next]_vars => In("overlap")' /\ [Overlap!Next]_Overlap!vars
  BY PartStays DEF Next, vars, Overlap!vars, In
<1> QED BY <1>1, <1>2, PTL DEF Spec, Overlap!Spec

LEMMA RivalsValues == Rivals!StagingAssumption
BY DEF Rivals!StagingAssumption, Rivals!NoPoll

LEMMA RivalsRuns == Spec => (In("rivals") => Rivals!Spec)
<1>1. Init /\ In("rivals") => Rivals!Init
  BY DEF Init, In
<1>2. In("rivals") /\ [Next]_vars => In("rivals")' /\ [Rivals!Next]_Rivals!vars
  BY PartStays DEF Next, vars, Rivals!vars, In
<1> QED BY <1>1, <1>2, PTL DEF Spec, Rivals!Spec

-----------------------------------------------------------------------------
(* In both instances a snapshot that may still be staged from has its rows, and
   a live attempt its snapshot (prunableDiscoveryManifests, discovery.ts). *)
THEOREM SnapshotsKeepServing == Spec => []SnapshotsServe
<1>1. Overlap!Spec => []Overlap!SnapshotsServe
  BY OverlapValues, Overlap!SnapshotsAlwaysServe
<1>2. Rivals!Spec => []Rivals!SnapshotsServe
  BY RivalsValues, Rivals!SnapshotsAlwaysServe
<1>3. [Next]_vars => /\ (In("overlap")' <=> In("overlap"))
                     /\ (In("rivals")' <=> In("rivals"))
  BY PartStays
<1>4. /\ In("overlap") => Overlap!SnapshotsServe
      /\ In("rivals") => Rivals!SnapshotsServe
      => SnapshotsServe
  BY DEF In, SnapshotsServe
<1> QED BY <1>1, <1>2, <1>3, <1>4, OverlapRuns, RivalsRuns, PTL DEF Spec

(* In both instances no step queues a role the applicant reported as applied
   (stageDiscoveryManifest, discovery.ts). *)
THEOREM ReportedStaysOut == Spec => QueuesNoReported
<1>1. Overlap!Spec => [][Overlap!QueuesNoReported]_Overlap!vars
  BY OverlapValues, Overlap!NothingReportedIsQueued
<1>2. Rivals!Spec => [][Rivals!QueuesNoReported]_Rivals!vars
  BY RivalsValues, Rivals!NothingReportedIsQueued
<1>3. [Next]_vars => /\ (In("overlap")' <=> In("overlap"))
                     /\ (In("rivals")' <=> In("rivals"))
  BY PartStays
<1>4. /\ UNCHANGED Overlap!vars => Overlap!QueuesNoReported
      /\ UNCHANGED Rivals!vars => Rivals!QueuesNoReported
  BY DEF Overlap!vars, Overlap!QueuesNoReported, Rivals!vars, Rivals!QueuesNoReported
<1>5. /\ In("overlap") => Overlap!QueuesNoReported
      /\ In("rivals") => Rivals!QueuesNoReported
      => [/\ part = "overlap" => Overlap!QueuesNoReported
          /\ part = "rivals" => Rivals!QueuesNoReported]_vars
  BY DEF In
<1> QED
  BY <1>1, <1>2, <1>3, <1>4, <1>5, OverlapRuns, RivalsRuns, PTL DEF Spec, QueuesNoReported

-----------------------------------------------------------------------------
LEMMA DocumentsRun == Spec => (In("documents") => Stores!Docs!Spec)
<1>1. Init /\ In("documents") => Stores!Docs!Init
  BY DEF Init, In
<1>2. In("documents") /\ [Next]_vars => In("documents")' /\ [Stores!Docs!Next]_Stores!Docs!vars
  BY PartStays DEF Next, vars, Stores!Docs!vars, In
<1> QED BY <1>1, <1>2, PTL DEF Spec, Stores!Docs!Spec

LEMMA BudgetValues == Stores!BudgetAssumption
<1>1. IsFiniteSet({1, 2})
  <2>1. IsFiniteSet({1}) /\ {1} \cup {2} = {1, 2}
    BY FS_Singleton
  <2> QED BY <2>1, FS_AddElement, Zenon
<1>2. Stores!IsFiniteSet({1, 2}) = IsFiniteSet({1, 2})
  BY Zenon DEF Stores!IsFiniteSet, IsFiniteSet
<1> QED BY <1>1, <1>2, CallerNames DEF Stores!BudgetAssumption

LEMMA BudgetRuns == Spec => (In("budget") => Stores!Budget!Spec)
<1>1. Init /\ In("budget") => Stores!Budget!Init
  BY DEF Init, In
<1>2. In("budget") /\ [Next]_vars => In("budget")' /\ [Stores!Budget!Next]_Stores!Budget!vars
  BY PartStays DEF Next, vars, Stores!Budget!vars, In
<1> QED BY <1>1, <1>2, PTL DEF Spec, Stores!Budget!Spec

LEMMA PairingValues == Stores!PairingAssumption
BY DEF Stores!PairingAssumption, Stores!Pairs!NoGrant

LEMMA PairingRuns == Spec => (In("pairing") => Stores!Pairs!Spec)
<1>1. Init /\ In("pairing") => Stores!Pairs!Init
  BY DEF Init, In
<1>2. In("pairing") /\ [Next]_vars => In("pairing")' /\ [Stores!Pairs!Next]_Stores!Pairs!vars
  BY PartStays DEF Next, vars, Stores!Pairs!vars, In
<1> QED BY <1>1, <1>2, PTL DEF Spec, Stores!Pairs!Spec

LEMMA CapsValues == Stores!CapsAssumption
<1>1. IsFiniteSet({1, 2, 3})
  <2>1. IsFiniteSet({1}) /\ {1} \cup {2} = {1, 2}
    BY FS_Singleton
  <2>2. IsFiniteSet({1, 2})
    BY <2>1, FS_AddElement, Zenon
  <2>3. IsFiniteSet({1, 2} \cup {3})
    BY <2>2, FS_AddElement
  <2>4. {1, 2} \cup {3} = {1, 2, 3}
    OBVIOUS
  <2> QED BY <2>3, <2>4, Zenon
<1>2. Stores!IsFiniteSet({1, 2, 3}) = IsFiniteSet({1, 2, 3})
  BY Zenon DEF Stores!IsFiniteSet, IsFiniteSet
<1> QED BY <1>1, <1>2 DEF Stores!CapsAssumption

LEMMA CapsRun == Spec => (In("caps") => Stores!Caps!Spec)
<1>1. Init /\ In("caps") => Stores!Caps!Init
  BY DEF Init, In
<1>2. In("caps") /\ [Next]_vars => In("caps")' /\ [Stores!Caps!Next]_Stores!Caps!vars
  BY PartStays DEF Next, vars, Stores!Caps!vars, In
<1> QED BY <1>1, <1>2, PTL DEF Spec, Stores!Caps!Spec

(* What the document store, the ledger of calls, the pairing and the counts of
   a poll say stays true in the instances the run checks. *)
THEOREM StoresAlwaysAgree == Spec => []StoresAgree
<1>1. Stores!Docs!Spec => []Stores!Docs!RowsMatchBytes
  BY Stores!RowsAlwaysMatch, PTL
<1>2. Stores!Budget!Spec => []Stores!Budget!BudgetKept
  BY BudgetValues, Stores!BudgetAlwaysKept, PTL
<1>3. Stores!Pairs!Spec => []Stores!Pairs!PairingIsSound
  BY PairingValues, Stores!PairingAlwaysSound, PTL
<1>4. Stores!Caps!Spec => []Stores!Caps!CapsKept
  BY CapsValues, Stores!CapsHold, PTL
<1>5. [Next]_vars => /\ (In("documents")' <=> In("documents"))
                     /\ (In("budget")' <=> In("budget"))
                     /\ (In("pairing")' <=> In("pairing"))
                     /\ (In("caps")' <=> In("caps"))
  BY PartStays
<1>6. /\ In("documents") => Stores!Docs!RowsMatchBytes
      /\ In("budget") => Stores!Budget!BudgetKept
      /\ In("pairing") => Stores!Pairs!PairingIsSound
      /\ In("caps") => Stores!Caps!CapsKept
      => StoresAgree
  BY DEF In, StoresAgree
<1> QED
  BY <1>1, <1>2, <1>3, <1>4, <1>5, <1>6, DocumentsRun, BudgetRuns, PairingRuns, CapsRun, PTL
     DEF Spec

-----------------------------------------------------------------------------
LEMMA AnswersValues == Forms!AnswersAssumption
BY DEF Forms!AnswersAssumption

LEMMA MaterialsValues == Forms!MaterialsAssumption
BY DEF Forms!MaterialsAssumption

LEMMA AnswersRun == Spec => (In("answers") => Forms!Answers!Spec)
<1>1. Init /\ In("answers") => Forms!Answers!Init
  BY DEF Init, In
<1>2. In("answers") /\ [Next]_vars =>
        In("answers")' /\ [Forms!Answers!Next]_Forms!Answers!vars
  BY PartStays DEF Next, vars, Forms!Answers!vars, In
<1> QED BY <1>1, <1>2, PTL DEF Spec, Forms!Answers!Spec

LEMMA FormRun == Spec => (In("form") => Forms!Fill!Spec)
<1>1. Init /\ In("form") => Forms!Fill!Init
  BY DEF Init, In
<1>2. In("form") /\ [Next]_vars =>
        In("form")' /\ [Forms!Fill!Next]_Forms!Fill!vars
  BY PartStays DEF Next, vars, Forms!Fill!vars, In
<1> QED BY <1>1, <1>2, PTL DEF Spec, Forms!Fill!Spec

LEMMA MaterialsRun == Spec => (In("materials") => Forms!Material!Spec)
<1>1. Init /\ In("materials") => Forms!Material!Init
  BY DEF Init, In
<1>2. In("materials") /\ [Next]_vars =>
        In("materials")' /\ [Forms!Material!Next]_Forms!Material!vars
  BY PartStays DEF Next, vars, Forms!Material!vars, In
<1> QED BY <1>1, <1>2, PTL DEF Spec, Forms!Material!Spec

(* No form of the instances is filled over and over, none is left behind, and
   what goes out, answers, fields, resume and letter, is what the applicant
   reviewed and meant (questions.ts, worker/ats/, form-materials.ts). *)
THEOREM FormsAlwaysMeant == Spec => []FormsAreMeant
<1>1. Forms!Answers!Spec =>
        [](/\ Forms!Answers!NoFillLoop /\ Forms!Answers!NoStrandedApplication
           /\ Forms!Answers!OpenQuestionHolds /\ Forms!Answers!SentAsReviewed)
  BY AnswersValues, Forms!AnswersAlwaysHold, PTL
<1>2. Forms!Fill!Spec => []Forms!Fill!FormIsMeant
  BY Forms!FormAlwaysMeant, PTL
<1>3. Forms!Material!Spec => []Forms!Material!MaterialsStand
  BY MaterialsValues, Forms!MaterialsAlwaysStand, PTL
<1>4. [Next]_vars => /\ (In("answers")' <=> In("answers"))
                               /\ (In("form")' <=> In("form"))
                               /\ (In("materials")' <=> In("materials"))
  BY PartStays
<1>5. /\ In("answers") =>
            /\ Forms!Answers!NoFillLoop /\ Forms!Answers!NoStrandedApplication
            /\ Forms!Answers!OpenQuestionHolds /\ Forms!Answers!SentAsReviewed
      /\ In("form") => Forms!Fill!FormIsMeant
      /\ In("materials") => Forms!Material!MaterialsStand
      => FormsAreMeant
  BY DEF In, FormsAreMeant
<1> QED
  BY <1>1, <1>2, <1>3, <1>4, <1>5, AnswersRun, FormRun, MaterialsRun, PTL DEF Spec

(* Every part of MCApplications keeps its types: each component does, whatever
   its constants. *)
THEOREM AppsTyped == Spec => []TypeOK
<1>1. Forms!Answers!Spec => []Forms!Answers!TypeOK
  BY AnswersValues, Forms!AnswersAlwaysHold, PTL
<1>2. Forms!Fill!Spec => []Forms!Fill!TypeOK
  BY Forms!FormAlwaysMeant, PTL
<1>3. Forms!Material!Spec => []Forms!Material!TypeOK
  BY MaterialsValues, Forms!MaterialsAlwaysStand, PTL
<1>4. Overlap!Spec => []Overlap!TypeOK
  BY OverlapValues, Overlap!TypeCorrect
<1>5. Rivals!Spec => []Rivals!TypeOK
  BY RivalsValues, Rivals!TypeCorrect
<1>6. Stores!Docs!Spec => []Stores!Docs!TypeOK
  BY Stores!RowsAlwaysMatch, PTL
<1>7. Stores!Budget!Spec => []Stores!Budget!TypeOK
  BY BudgetValues, Stores!BudgetAlwaysKept, PTL
<1>8. Stores!Pairs!Spec => []Stores!Pairs!TypeOK
  BY PairingValues, Stores!PairingAlwaysSound, PTL
<1>9. Stores!Caps!Spec => []Stores!Caps!TypeOK
  BY CapsValues, Stores!CapsHold, PTL
<1>10. [Next]_vars =>
         /\ (In("answers")' <=> In("answers")) /\ (In("form")' <=> In("form"))
         /\ (In("materials")' <=> In("materials")) /\ (In("overlap")' <=> In("overlap"))
         /\ (In("rivals")' <=> In("rivals")) /\ (In("documents")' <=> In("documents"))
         /\ (In("budget")' <=> In("budget")) /\ (In("pairing")' <=> In("pairing"))
         /\ (In("caps")' <=> In("caps"))
  BY PartStays
<1>11. /\ In("answers") => Forms!Answers!TypeOK
       /\ In("form") => Forms!Fill!TypeOK
       /\ In("materials") => Forms!Material!TypeOK
       /\ In("overlap") => Overlap!TypeOK
       /\ In("rivals") => Rivals!TypeOK
       /\ In("documents") => Stores!Docs!TypeOK
       /\ In("budget") => Stores!Budget!TypeOK
       /\ In("pairing") => Stores!Pairs!TypeOK
       /\ In("caps") => Stores!Caps!TypeOK
       => TypeOK
  BY SMTT(60) DEF In, TypeOK
<1> QED
  BY <1>1, <1>2, <1>3, <1>4, <1>5, <1>6, <1>7, <1>8, <1>9, <1>10, <1>11, AnswersRun, FormRun,
     MaterialsRun, OverlapRuns, RivalsRuns, DocumentsRun, BudgetRuns, PairingRuns, CapsRun, PTL
     DEF Spec

-----------------------------------------------------------------------------
(* MCPages: every part is an instance of a page. *)

(* The part a behaviour is of. *)
Screen(name) == screen = name

LEMMA ScreenStays ==
    ASSUME NEW CONSTANT name, [PagesNext]_pageVars
    PROVE  Screen(name)' <=> Screen(name)
BY DEF PagesNext, pageVars, Screen

LEMMA TwoPagesRun == PagesSpec => (Screen("checks") => Checks(TwoPages)!Spec)
<1>1. PagesInit /\ Screen("checks") => Checks(TwoPages)!Init
  BY SMTT(60) DEF PagesInit, Screen
<1>2. Screen("checks") /\ [PagesNext]_pageVars
        => Screen("checks")' /\ [Checks(TwoPages)!Next]_(Checks(TwoPages)!vars)
  BY ScreenStays DEF PagesNext, pageVars, Checks!vars, Screen
<1> QED BY <1>1, <1>2, PTL DEF PagesSpec, Checks!Spec

LEMMA TwoPostsRun == PagesSpec => (Screen("two checks") => Checks(TwoPosts)!Spec)
<1>1. PagesInit /\ Screen("two checks") => Checks(TwoPosts)!Init
  BY ZenonT(60) DEF PagesInit, Screen
<1>2. Screen("two checks") /\ [PagesNext]_pageVars
        => Screen("two checks")' /\ [Checks(TwoPosts)!Next]_(Checks(TwoPosts)!vars)
  BY ScreenStays DEF PagesNext, pageVars, Checks!vars, Screen
<1> QED BY <1>1, <1>2, PTL DEF PagesSpec, Checks!Spec

LEMMA RowsRun == PagesSpec => (Screen("import") => Import(Rows)!Spec)
<1>1. PagesInit /\ Screen("import") => Import(Rows)!Init
  BY DEF PagesInit, Screen
<1>2. Screen("import") /\ [PagesNext]_pageVars
        => Screen("import")' /\ [Import(Rows)!Next]_(Import(Rows)!vars)
  BY ScreenStays DEF PagesNext, pageVars, Import!vars, Screen
<1> QED BY <1>1, <1>2, PTL DEF PagesSpec, Import!Spec

(* Both instances of the board's checks and the instance of the import keep   *)
(* what the server holds as applied to what the applicant ticked or vouched   *)
(* for, in every behaviour of MCPages (applied-sync.tsx, import/control.ts).  *)
THEOREM MarksAlwaysMeant == PagesSpec => []MarksAreMeant
<1>1. Checks(TwoPages)!Spec => []Checks(TwoPages)!ChecksAreSound
  <2>1. Checks(TwoPages)!Init => Checks(TwoPages)!ChecksInv
    BY ChecksStart
  <2>2. Checks(TwoPages)!ChecksInv /\ [Checks(TwoPages)!Next]_(Checks(TwoPages)!vars)
          => Checks(TwoPages)!ChecksInv'
    BY ChecksStep DEF TwoPages
  <2>3. Checks(TwoPages)!ChecksInv => Checks(TwoPages)!ChecksAreSound
    BY DEF Checks!ChecksInv
  <2> QED BY <2>1, <2>2, <2>3, PTL DEF Checks!Spec
<1>2. Checks(TwoPosts)!Spec => []Checks(TwoPosts)!ChecksAreSound
  <2>1. Checks(TwoPosts)!Init => Checks(TwoPosts)!ChecksInv
    BY ChecksStart
  <2>2. Checks(TwoPosts)!ChecksInv /\ [Checks(TwoPosts)!Next]_(Checks(TwoPosts)!vars)
          => Checks(TwoPosts)!ChecksInv'
    BY ChecksStep DEF TwoPosts
  <2>3. Checks(TwoPosts)!ChecksInv => Checks(TwoPosts)!ChecksAreSound
    BY DEF Checks!ChecksInv
  <2> QED BY <2>1, <2>2, <2>3, PTL DEF Checks!Spec
<1>3. Import(Rows)!Spec => []Import(Rows)!ImportIsMeant
  <2>1. Import(Rows)!Init => Import(Rows)!ImportInv
    BY ImportStart
  <2>2. Import(Rows)!ImportInv /\ [Import(Rows)!Next]_(Import(Rows)!vars)
          => Import(Rows)!ImportInv'
    BY ImportStep DEF Rows
  <2>3. Import(Rows)!ImportInv => Import(Rows)!ImportIsMeant
    BY ImportInvSuffices
  <2> QED BY <2>1, <2>2, <2>3, PTL DEF Import!Spec
<1>4. [PagesNext]_pageVars => /\ (Screen("checks")' <=> Screen("checks"))
                     /\ (Screen("two checks")' <=> Screen("two checks"))
                     /\ (Screen("import")' <=> Screen("import"))
  BY ZenonT(60), ScreenStays
<1>5. /\ Screen("checks") => Checks(TwoPages)!ChecksAreSound
      /\ Screen("two checks") => Checks(TwoPosts)!ChecksAreSound
      /\ Screen("import") => Import(Rows)!ImportIsMeant
      => MarksAreMeant
  BY DEF Screen, MarksAreMeant
<1> QED
  BY <1>1, <1>2, <1>3, <1>4, <1>5, TwoPagesRun, TwoPostsRun, RowsRun, PTL DEF PagesSpec

-----------------------------------------------------------------------------
(* MCPostings: every part is an instance of a part of the refresh cycle. *)

LEMMA MirrorRuns == PostingsSpec => (stage = "mirror" => Copy(Hosted)!Spec)
<1>1. PostingsInit /\ stage = "mirror" => Copy(Hosted)!Init
  BY DEF PostingsInit
<1>2. stage = "mirror" /\ [PostingsNext]_postingVars
        => (stage = "mirror")' /\ [Copy(Hosted)!Next]_(Copy(Hosted)!vars)
  BY DEF PostingsNext, postingVars, Copy!vars
<1> QED BY <1>1, <1>2, PTL DEF PostingsSpec, Copy!Spec

(* In every behaviour of MCPostings a push sends no source before its posting *)
(* and, when it ends well, leaves the mirror with every posting and without   *)
(* strays, whatever failed before and whatever cache it began from; and with  *)
(* every row as it is here when no answer was lost and no runner disappeared  *)
(* (push-remote.ts, pull-remote.ts).                                          *)
THEOREM MirrorAlwaysWhole == PostingsSpec => []MirrorIsComplete
<1>1. Copy(Hosted)!MirrorAssumption
  BY DEF Copy!MirrorAssumption, Copy!None, Hosted
<1>2. Copy(Hosted)!Spec => []Copy(Hosted)!MirrorIsComplete
  <2>1. Copy(Hosted)!Init => Copy(Hosted)!MirrorInv /\ Copy(Hosted)!AsSent
    BY <1>1, CopyStart, AsSentStart
  <2>2. Copy(Hosted)!MirrorInv /\ Copy(Hosted)!AsSent /\ [Copy(Hosted)!Next]_(Copy(Hosted)!vars)
          => Copy(Hosted)!MirrorInv' /\ Copy(Hosted)!AsSent'
    BY <1>1, CopyStep, AsSentStep
  <2>3. Copy(Hosted)!MirrorInv /\ Copy(Hosted)!AsSent => Copy(Hosted)!MirrorIsComplete
    BY <1>1, MirrorInvSuffices
  <2> QED BY <2>1, <2>2, <2>3, PTL DEF Copy!Spec
<1>3. [PostingsNext]_postingVars => ((stage = "mirror")' <=> stage = "mirror")
  BY DEF PostingsNext, postingVars
<1>4. (stage = "mirror" => Copy(Hosted)!MirrorIsComplete) => MirrorIsComplete
  BY DEF MirrorIsComplete
<1> QED BY <1>2, <1>3, <1>4, MirrorRuns, PTL DEF PostingsSpec

LEMMA OffsetsRun == PostingsSpec => (stage = "offsets" => Paged(Offsets)!Spec)
<1>1. PostingsInit /\ stage = "offsets" => Paged(Offsets)!Init
  BY DEF PostingsInit
<1>2. stage = "offsets" /\ [PostingsNext]_postingVars
        => (stage = "offsets")' /\ [Paged(Offsets)!Next]_(Paged(Offsets)!vars)
  BY DEF PostingsNext, postingVars, Paged!vars
<1> QED BY <1>1, <1>2, PTL DEF PostingsSpec, Paged!Spec

LEMMA CatalogRun == PostingsSpec => (stage = "catalog" => Muse(Catalog)!Spec)
<1>1. PostingsInit /\ stage = "catalog" => Muse(Catalog)!Init
  BY DEF PostingsInit
<1>2. stage = "catalog" /\ [PostingsNext]_postingVars
        => (stage = "catalog")' /\ [Muse(Catalog)!Next]_(Muse(Catalog)!vars)
  BY DEF PostingsNext, postingVars, Muse!vars
<1> QED BY <1>1, <1>2, PTL DEF PostingsSpec, Muse!Spec

LEMMA FetchesRun == PostingsSpec => (stage = "fetches" => Net(Fetches)!Spec)
<1>1. PostingsInit /\ stage = "fetches" => Net(Fetches)!Init
  BY DEF PostingsInit
<1>2. stage = "fetches" /\ [PostingsNext]_postingVars
        => (stage = "fetches")' /\ [Net(Fetches)!Next]_(Net(Fetches)!vars)
  BY DEF PostingsNext, postingVars, Net!vars
<1> QED BY <1>1, <1>2, PTL DEF PostingsSpec, Net!Spec

LEMMA RegisteredRun == PostingsSpec => (stage = "registry" => Roster(Registered)!Spec)
<1>1. PostingsInit /\ stage = "registry" => Roster(Registered)!Init
  BY DEF PostingsInit
<1>2. stage = "registry" /\ [PostingsNext]_postingVars
        => (stage = "registry")' /\ [Roster(Registered)!Next]_(Roster(Registered)!vars)
  BY DEF PostingsNext, postingVars, Roster!vars
<1> QED BY <1>1, <1>2, PTL DEF PostingsSpec, Roster!Spec

(* The constants of the four are what their invariants ask. *)
LEMMA FetchesValues ==
    /\ Paged(Offsets)!OffsetAssumption /\ Muse(Catalog)!CatalogAssumption
    /\ Net(Fetches)!PoliteAssumption /\ Roster(Registered)!RegistryAssumption
<1>1. Paged(Offsets)!OffsetAssumption
  BY DEF Paged!OffsetAssumption, Offsets
<1>2. Muse(Catalog)!CatalogAssumption
  <2>1. {1, 2} = 1..2
    OBVIOUS
  <2> QED BY <2>1 DEF Muse!CatalogAssumption, Catalog
<1>3. Net(Fetches)!PoliteAssumption
  BY DEF Net!PoliteAssumption, Fetches
<1>4. Roster(Registered)!RegistryAssumption
  <2>1. <<1>> \in Seq({1, 2}) /\ <<2>> \in Seq({1, 2})
    OBVIOUS
  <2>2. <<>> \in Seq(STRING \ {Roster(Registered)!None})
    OBVIOUS
  <2> QED BY <2>1, <2>2 DEF Roster!RegistryAssumption, Registered
<1> QED BY <1>1, <1>2, <1>3, <1>4

(* In every behaviour of MCPostings an answer over a board that did not change is    *)
(* whole when it passes for whole (ats.ts, amazon.ts), the cursor that is kept is     *)
(* never past a page whose rows are not in the corpus (agg.ts, ingest.ts), no request *)
(* is sent that the rules of its host do not allow or closer to another than it asked *)
(* (runtime.ts, whose fetch follows what is not guarded by itself), and the registry  *)
(* has no board that was not confirmed and loses none it had (resolve-companies.ts).  *)
THEOREM FetchesAlwaysSound == PostingsSpec => []FetchesAreSound
<1>1. Paged(Offsets)!Spec => []Paged(Offsets)!WholeIfSteady
  <2>1. Paged(Offsets)!Init => Paged(Offsets)!OffsetInv
    BY FetchesValues, PagedStart
  <2>2. Paged(Offsets)!OffsetInv /\ [Paged(Offsets)!Next]_(Paged(Offsets)!vars) => Paged(Offsets)!OffsetInv'
    BY FetchesValues, PagedStep, PagedSame
  <2>3. Paged(Offsets)!OffsetInv => Paged(Offsets)!WholeIfSteady
    BY OffsetInvSuffices
  <2> QED BY <2>1, <2>2, <2>3, PTL DEF Paged!Spec
<1>2. Muse(Catalog)!Spec => []Muse(Catalog)!CursorBehindRows
  <2>1. Muse(Catalog)!Init => Muse(Catalog)!CatalogInv
    BY FetchesValues, MuseStart
  <2>2. Muse(Catalog)!CatalogInv /\ [Muse(Catalog)!Next]_(Muse(Catalog)!vars) => Muse(Catalog)!CatalogInv'
    BY FetchesValues, MuseStep, MuseSame
  <2>3. Muse(Catalog)!CatalogInv => Muse(Catalog)!CursorBehindRows
    BY CatalogInvSuffices
  <2> QED BY <2>1, <2>2, <2>3, PTL DEF Muse!Spec
<1>3. Net(Fetches)!Spec => []Net(Fetches)!Polite
  <2>1. Net(Fetches)!Init => Net(Fetches)!PoliteInv
    BY FetchesValues, NetStart
  <2>2. Net(Fetches)!PoliteInv /\ [Net(Fetches)!Next]_(Net(Fetches)!vars) => Net(Fetches)!PoliteInv'
    BY FetchesValues, NetStep, NetSame
  <2>3. Net(Fetches)!PoliteInv => Net(Fetches)!Polite
    BY FetchesValues, PoliteInvSuffices
  <2> QED BY <2>1, <2>2, <2>3, PTL DEF Net!Spec
<1>4. Roster(Registered)!Spec => []Roster(Registered)!RegistryIsSound
  <2>1. Roster(Registered)!Init => Roster(Registered)!RegistryInv
    BY FetchesValues, RosterStart
  <2>2. Roster(Registered)!RegistryInv /\ [Roster(Registered)!Next]_(Roster(Registered)!vars) => Roster(Registered)!RegistryInv'
    BY FetchesValues, RosterStep, RosterSame
  <2>3. Roster(Registered)!RegistryInv => Roster(Registered)!RegistryIsSound
    BY DEF Roster!RegistryInv
  <2> QED BY <2>1, <2>2, <2>3, PTL DEF Roster!Spec
<1>5. [PostingsNext]_postingVars =>
        /\ (stage = "offsets")' <=> stage = "offsets"
        /\ (stage = "catalog")' <=> stage = "catalog"
        /\ (stage = "fetches")' <=> stage = "fetches"
        /\ (stage = "registry")' <=> stage = "registry"
  BY DEF PostingsNext, postingVars
<1>6. /\ stage = "offsets" => Paged(Offsets)!WholeIfSteady
      /\ stage = "catalog" => Muse(Catalog)!CursorBehindRows
      /\ stage = "fetches" => Net(Fetches)!Polite
      /\ stage = "registry" => Roster(Registered)!RegistryIsSound
      => FetchesAreSound
  BY DEF FetchesAreSound
<1> QED
  BY <1>1, <1>2, <1>3, <1>4, <1>5, <1>6, OffsetsRun, CatalogRun, FetchesRun, RegisteredRun,
     PTL DEF PostingsSpec
=================================================================================
