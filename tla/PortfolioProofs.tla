-------------------------- MODULE PortfolioProofs --------------------------
(***************************************************************************)
(* The portfolio and the append-only files under it, for every value of    *)
(* the constants.  Portfolio: every file and registry a decision names     *)
(* only grows, so what has to be carried along is what the running round   *)
(* trip has established when it arrives at a place; a replay of a decided  *)
(* trip finds all of it again, so that only the Claims and the bundle,     *)
(* which the portfolio does not own, and a file that a kill cut short can  *)
(* stand in its way.  Files: inside the lease what a                       *)
(* process has read goes on being true, and only a line of the file can    *)
(* take an acknowledged record with it.                                    *)
(***************************************************************************)
EXTENDS PortfolioStores, Sequences, TLAPS

Places == {"down", "replay", "compile", "validate", "capability", "compose", "freezing",
           "program", "fight", "decide"}

\* What the round trip has behind it at each of its places.
RunInv ==
    /\ run = [pc |-> run.pc, trip |-> run.trip, gap |-> run.gap, skill |-> run.skill,
              claims |-> run.claims]
    /\ run.pc \in Places
    /\ run.pc # "down" => run.gap \in gaps
    /\ run.pc \notin {"down", "replay"} => ~Decided(run.trip)
    /\ run.pc \in {"capability", "compose", "freezing", "program", "fight", "decide"} =>
          run.skill \in candidates
    /\ run.pc \in {"compose", "freezing", "program", "fight", "decide"} =>
          /\ \E capability \in capabilities : capability.skill = run.skill
          /\ run.skill.revision \notin Capabilities(run.gap.parent)
    /\ run.pc \in {"program", "fight", "decide"} => Composed \in frozen
    /\ run.pc \in {"fight", "decide"} => Composed \in programs
    /\ run.pc = "decide" => Fought

\* A tournament was fought by both sides, and a decided one is on record.
JudgedInv ==
    /\ \A p \in DOMAIN judged : {judged[p].parent, judged[p].candidate} \subseteq Outcomes
    /\ \A d \in decisions : d.program \in DOMAIN judged

Inv == RunInv /\ JudgedInv /\ DecisionIsSound

-----------------------------------------------------------------------------
\* A candidate replaces its parent only when its Claim weighs more.
LEMMA AdvanceIsBetter ==
    ASSUME NEW program, Outcome(program) = "advance-search-parent",
           {judged[program].parent, judged[program].candidate} \subseteq Classifications
    PROVE  Weight(judged[program].candidate) > Weight(judged[program].parent)
<1> DEFINE score == Scores(program)
<1>1. /\ DOMAIN score = {0, 1}
      /\ score[0] = Weight(judged[program].parent)
      /\ score[1] = Weight(judged[program].candidate)
    BY DEF Scores
<1>2. score[0] \in Int /\ score[1] \in Int
    BY <1>1 DEF Weight, Classifications
<1>3. 0 \notin Tied(score)
    BY DEF Outcome, Advances, Winner
<1>4. PICK other \in {0, 1} : ~(score[other] <= score[0])
    BY <1>1, <1>3 DEF Tied
<1> QED
    BY <1>1, <1>2, <1>4

LEMMA InitInv == Init => Inv
BY DEF Init, Idle, Inv, RunInv, JudgedInv, DecisionIsSound, Places

\* What a step leaves alone a decision keeps, and what grows it keeps too.
LEMMA Grows ==
    ASSUME Inv, decisions' = decisions, gaps \subseteq gaps', frozen \subseteq frozen',
           programs \subseteq programs', candidates \subseteq candidates',
           capabilities \subseteq capabilities', DOMAIN judged \subseteq DOMAIN judged',
           \A p \in DOMAIN judged : judged'[p] = judged[p],
           \A p \in DOMAIN judged' \ DOMAIN judged :
               {judged'[p].parent, judged'[p].candidate} \subseteq Outcomes
    PROVE  JudgedInv' /\ DecisionIsSound' /\ \A t : Decided(t)' = Decided(t)
<1>1. JudgedInv'
    BY DEF Inv, JudgedInv
<1>2. DecisionIsSound'
    BY DEF Inv, JudgedInv, DecisionIsSound, Capabilities
<1> QED
    BY <1>1, <1>2 DEF Decided

LEMMA LaunchStep == ASSUME PortfolioAssumption, Inv, NEW t \in Trips, Launch(t) PROVE Inv'
<1>1. PICK gap : /\ gaps' = gaps \cup {gap}
                 /\ run' = [pc |-> IF Decided(t) THEN "replay" ELSE "compile", trip |-> t,
                            gap |-> gap, skill |-> None, claims |-> First]
    BY DEF Launch
<1>2. UNCHANGED <<bundle, decisions, candidates, capabilities, partial, frozen, programs, judged>>
    BY DEF Launch
<1>3. JudgedInv' /\ DecisionIsSound' /\ Decided(t)' = Decided(t)
    BY <1>1, <1>2, Grows
<1>4. RunInv'
    <2>1. CASE Decided(t)
        BY <1>1, <1>3, <2>1 DEF RunInv, Places
    <2>2. CASE ~Decided(t)
        BY <1>1, <1>3, <2>2 DEF RunInv, Places
    <2> QED
        BY <2>1, <2>2
<1> QED
    BY <1>3, <1>4 DEF Inv

\* A request that is refused may have left its gap.
LEMMA LaunchRefusedStep == ASSUME Inv, NEW t \in Trips, LaunchRefused(t) PROVE Inv'
<1>1. UNCHANGED <<decisions, candidates, capabilities, frozen, programs, judged, run>>
    BY DEF LaunchRefused
<1>2. gaps \subseteq gaps'
    BY DEF LaunchRefused
<1>3. run.pc = "down"
    BY DEF LaunchRefused, Idle
<1>4. JudgedInv' /\ DecisionIsSound'
    BY <1>1, <1>2, Grows
<1> QED
    BY <1>1, <1>3, <1>4 DEF Inv, RunInv

\* A command that ends, whatever it left, establishes nothing.
LEMMA LeaveStep ==
    ASSUME Inv, NEW how, Leave(how), JudgedInv', DecisionIsSound'
    PROVE  Inv'
BY DEF Inv, Leave, Idle, RunInv, Places

LEMMA RefuseStep == ASSUME Inv, NEW why, Refuse(why) PROVE Inv'
<1>1. JudgedInv' /\ DecisionIsSound'
    BY DEF Refuse, disk, Inv, JudgedInv, DecisionIsSound, Capabilities
<1> QED
    BY <1>1, LeaveStep DEF Refuse

\* The next place of the same round trip.
Goes(place) ==
    /\ run' = [pc |-> place, trip |-> run.trip, gap |-> run.gap, skill |-> run.skill,
               claims |-> run'.claims]
    /\ UNCHANGED <<parentOf, reported>>

LEMMA GoMeaning ==
    ASSUME Inv, NEW place
    PROVE  /\ Go(place) => Goes(place)
           /\ \A by : Supported(by, place) => Goes(place)
           /\ Goes(place) => Composed' = Composed
<1>1. Go(place) => Goes(place)
    BY DEF Inv, RunInv, Go, Goes
<1>2. ASSUME NEW by, Supported(by, place) PROVE Goes(place)
    <2>1. PICK v : run' = [run EXCEPT !.pc = place, !.claims = v]
        BY <1>2 DEF Supported
    <2> QED
        BY <1>2, <2>1 DEF Inv, RunInv, Supported, Goes
<1>3. Goes(place) => Composed' = Composed
    BY DEF Goes, Composed
<1> QED
    BY <1>1, <1>2, <1>3

LEMMA CompileStep == ASSUME Inv, Compile PROVE Inv'
<1>1. ASSUME NEW r \in Revisions, NEW c \in Contents,
             run' = [run EXCEPT !.pc = "validate", !.skill = [revision |-> r, content |-> c]],
             UNCHANGED <<gaps, decisions, candidates, capabilities, partial, frozen, programs,
                         judged>>
      PROVE  Inv'
    <2>1. run' = [pc |-> "validate", trip |-> run.trip, gap |-> run.gap,
                  skill |-> [revision |-> r, content |-> c], claims |-> run.claims]
        BY <1>1 DEF Inv, RunInv
    <2>2. JudgedInv' /\ DecisionIsSound' /\ \A t : Decided(t)' = Decided(t)
        BY <1>1, Grows
    <2>3. run.gap \in gaps /\ ~Decided(run.trip)
        BY DEF Compile, Inv, RunInv
    <2>4. RunInv'
        BY <1>1, <2>1, <2>2, <2>3 DEF RunInv, Places
    <2> QED
        BY <2>2, <2>4 DEF Inv
<1> QED
    BY <1>1, RefuseStep DEF Compile

LEMMA ValidateStep == ASSUME Inv, Validate PROVE Inv'
<1>1. CASE Goes("capability") /\ candidates' = candidates \cup {run.skill}
           /\ UNCHANGED <<bundle, gaps, decisions, capabilities, partial, frozen, programs, judged>>
    <2>1. JudgedInv' /\ DecisionIsSound' /\ \A t : Decided(t)' = Decided(t)
        BY <1>1, Grows
    <2>3. run.gap \in gaps /\ ~Decided(run.trip)
        BY DEF Validate, Inv, RunInv
    <2>4. RunInv'
        BY <1>1, <2>1, <2>3 DEF RunInv, Places, Goes
    <2> QED
        BY <2>1, <2>4 DEF Inv
<1> QED
    BY <1>1, RefuseStep, GoMeaning DEF Validate

LEMMA RegisterCapabilityStep == ASSUME Inv, RegisterCapability PROVE Inv'
<1>1. PICK a \in Approvals :
        \/ Refuse("not registered")
        \/ /\ capabilities' = capabilities \cup {[skill |-> run.skill, approval |-> a]}
           /\ IF run.skill.revision \in Capabilities(run.gap.parent)
              THEN Leave("has the capability") ELSE Go("compose")
           /\ UNCHANGED <<bundle, gaps, decisions, candidates, partial, frozen, programs, judged>>
    BY DEF RegisterCapability
<1>2. CASE ~Refuse("not registered")
    <2>1. /\ JudgedInv' /\ DecisionIsSound' /\ \A t : Decided(t)' = Decided(t)
          /\ [skill |-> run.skill, approval |-> a] \in capabilities'
        BY <1>1, <1>2, Grows
    <2>2. CASE Go("compose") /\ run.skill.revision \notin Capabilities(run.gap.parent)
        <3>1. Capabilities(run.gap.parent)' = Capabilities(run'.gap.parent)
            BY DEF Capabilities
        <3>2. \E capability \in capabilities' : capability.skill = run.skill
            BY <2>1
        <3>3. Goes("compose")
            BY <2>2, GoMeaning
        <3>4. run.gap \in gaps /\ ~Decided(run.trip) /\ run.skill \in candidates
            BY DEF RegisterCapability, Inv, RunInv
        <3>5. gaps' = gaps /\ candidates' = candidates
            BY <1>1, <1>2
        <3>6. RunInv'
            BY <2>1, <2>2, <3>1, <3>2, <3>3, <3>4, <3>5 DEF RunInv, Places, Capabilities, Goes
        <3> QED
            BY <2>1, <3>6 DEF Inv
    <2> QED
        BY <1>1, <1>2, <2>1, <2>2, LeaveStep
<1> QED
    BY <1>1, <1>2, RefuseStep

\* A program that is frozen, registered or judged on the way to the decision.
LEMMA BuildStep ==
    ASSUME Inv, run.pc \in {"compose", "freezing", "program", "fight"},
           NEW place \in {"freezing", "program", "fight", "decide"}, Goes(place),
           UNCHANGED <<gaps, decisions, candidates, capabilities>>,
           frozen \subseteq frozen', programs \subseteq programs',
           DOMAIN judged \subseteq DOMAIN judged',
           \A p \in DOMAIN judged : judged'[p] = judged[p],
           \A p \in DOMAIN judged' \ DOMAIN judged :
               {judged'[p].parent, judged'[p].candidate} \subseteq Outcomes,
           place # "freezing" => Composed \in frozen',
           place \in {"fight", "decide"} => Composed \in programs',
           place = "decide" => Composed \in DOMAIN judged'
    PROVE  Inv'
<1>1. JudgedInv' /\ DecisionIsSound' /\ \A t : Decided(t)' = Decided(t)
    BY Grows
<1>2. Composed' = Composed
    BY GoMeaning
<1>3. RunInv'
    BY <1>1, <1>2 DEF Inv, RunInv, Places, Capabilities, Fought, Goes
<1> QED
    BY <1>1, <1>3 DEF Inv

LEMMA ComposeStep == ASSUME Inv, Compose \/ FinishFreeze \/ RegisterProgram PROVE Inv'
<1>1. CASE Compose
    <2>1. CASE Composed \in frozen
        <3>1. run.pc = "compose" /\ Go("program") /\ UNCHANGED disk
            BY <1>1, <2>1 DEF Compose
        <3>2. UNCHANGED <<gaps, decisions, candidates, capabilities, frozen, programs, judged>>
            BY <3>1 DEF disk
        <3> QED
            BY <2>1, <3>1, <3>2, BuildStep, GoMeaning
    <2>2. CASE Composed \notin frozen
        BY <1>1, <2>2, BuildStep, RefuseStep, GoMeaning DEF Compose
    <2> QED
        BY <2>1, <2>2
<1>2. CASE FinishFreeze
    BY <1>2, BuildStep, GoMeaning DEF FinishFreeze
<1>3. CASE RegisterProgram
    <2>1. Composed \in frozen
        BY <1>3 DEF RegisterProgram, Inv, RunInv
    <2> QED
        BY <1>3, <2>1, BuildStep, RefuseStep, GoMeaning DEF RegisterProgram
<1> QED
    BY <1>1, <1>2, <1>3

LEMMA FightStep == ASSUME Inv, Fight PROVE Inv'
<1>0. run.pc = "fight" /\ Composed \in frozen /\ Composed \in programs
    BY DEF Fight, Inv, RunInv
<1>1. CASE Fought /\ Goes("decide") /\ UNCHANGED disk
    BY <1>0, <1>1, BuildStep DEF Fought, disk
<1>2. ASSUME ~Fought, NEW parent \in Outcomes, NEW candidate \in Outcomes, Goes("decide"),
             judged' = [p \in DOMAIN judged \cup {Composed} |->
                            IF p = Composed
                            THEN [parent |-> parent, candidate |-> candidate]
                            ELSE judged[p]],
             UNCHANGED <<gaps, decisions, candidates, capabilities, frozen, programs>>
      PROVE  Inv'
    <2>1. /\ DOMAIN judged' = DOMAIN judged \cup {Composed} /\ Composed \notin DOMAIN judged
          /\ \A p \in DOMAIN judged : judged'[p] = judged[p]
          /\ judged'[Composed] = [parent |-> parent, candidate |-> candidate]
        BY <1>2 DEF Fought
    <2> QED
        BY <1>0, <1>2, <2>1, BuildStep
<1> QED
    BY <1>1, <1>2, RefuseStep, GoMeaning DEF Fight

LEMMA DecideStep == ASSUME PortfolioAssumption, Inv, Decide PROVE Inv'
<1>1. CASE decisions' = decisions \cup {Decision} /\ Leave("returned")
           /\ UNCHANGED <<bundle, gaps, candidates, capabilities, partial, frozen, programs, judged>>
    <2>0. run.pc = "decide"
        BY DEF Decide
    <2>1. /\ run.gap \in gaps /\ ~Decided(run.trip) /\ run.skill \in candidates
          /\ \E capability \in capabilities : capability.skill = run.skill
          /\ run.skill.revision \notin Capabilities(run.gap.parent)
          /\ Composed \in frozen \cap programs /\ Composed \in DOMAIN judged
        BY <2>0 DEF Inv, RunInv, Fought
    <2>2. /\ Decision.trip = run.trip /\ Decision.gap = run.gap /\ Decision.skill = run.skill
          /\ Decision.program = Composed /\ Decision.action = Outcome(Composed)
        BY DEF Decision
    <2>3. {judged[Composed].parent, judged[Composed].candidate} \subseteq Classifications
        BY <2>1, PortfolioAssumption DEF Inv, JudgedInv
    <2>4. Decision.action = "advance-search-parent" =>
              Weight(judged[Composed].candidate) > Weight(judged[Composed].parent)
        BY <2>2, <2>3, AdvanceIsBetter
    <2>5. JudgedInv'
        BY <1>1, <2>1, <2>2 DEF Inv, JudgedInv
    <2>6. (\A d, e \in decisions : d.trip = e.trip => d = e)'
        BY <1>1, <2>1, <2>2 DEF Inv, DecisionIsSound, Decided
    <2>7. ASSUME NEW d \in decisions'
          PROVE  /\ d.gap \in gaps' /\ d.program \in frozen' \cap programs'
                 /\ d.program = Append(d.gap.parent, [gap |-> d.gap, skill |-> d.skill])
                 /\ d.skill.revision \notin Capabilities(d.gap.parent)
                 /\ d.skill \in candidates'
                 /\ \E capability \in capabilities' : capability.skill = d.skill
                 /\ d.action = "advance-search-parent" =>
                      Weight(judged'[d.program].candidate) > Weight(judged'[d.program].parent)
        <3>1. CASE d \in decisions
            BY <1>1, <3>1 DEF Inv, DecisionIsSound
        <3>2. CASE d = Decision
            BY <1>1, <2>1, <2>2, <2>4, <3>2 DEF Composed
        <3> QED
            BY <1>1, <3>1, <3>2
    <2>8. DecisionIsSound'
        BY <2>6, <2>7 DEF DecisionIsSound, Capabilities
    <2> QED
        BY <1>1, <2>5, <2>8, LeaveStep
<1> QED
    BY <1>1, RefuseStep DEF Decide

LEMMA NextInv == ASSUME PortfolioAssumption, Inv, [Next]_vars PROVE Inv'
<1>1. ASSUME Step PROVE Inv'
    <2>1. CASE Replay
        <3>1. Refuse("replayed") \/ Refuse("drift")
            BY <2>1 DEF Replay, Refuse
        <3> QED
            BY <3>1, RefuseStep
    <2> QED
        BY <1>1, <2>1, CompileStep, ValidateStep, RegisterCapabilityStep, ComposeStep,
           FightStep, DecideStep DEF Step
<1>2. CASE Kill \/ CutShort
    <2>1. /\ run' = Idle
          /\ UNCHANGED <<gaps, decisions, candidates, capabilities, frozen, programs, judged>>
        BY <1>2 DEF Kill, CutShort, disk
    <2> QED
        BY <2>1 DEF Idle, Inv, RunInv, Places, JudgedInv, DecisionIsSound, Capabilities
<1>3. CASE Alter \/ Supersede \/ UNCHANGED vars
    <2>1. UNCHANGED <<gaps, decisions, candidates, capabilities, frozen, programs, judged, run>>
        BY <1>3 DEF Alter, Supersede, disk, vars
    <2> QED
        BY <2>1 DEF Inv, RunInv, JudgedInv, DecisionIsSound, Capabilities, Decided, Composed,
                    Fought
<1> QED
    BY <1>1, <1>2, <1>3, LaunchStep, LaunchRefusedStep DEF Next

-----------------------------------------------------------------------------
\* However often a request is repeated and wherever its runs are killed, a round trip
\* has one decision, backed by every record it names, and earned by its candidate.
THEOREM DecisionsAreSound == Spec => []DecisionIsSound
<1>1. Init => Inv
    BY InitInv
<1>2. Inv /\ [Next]_vars => Inv'
    BY NextInv, PortfolioAssumption
<1>3. Inv => DecisionIsSound
    BY DEF Inv
<1> QED
    BY <1>1, <1>2, <1>3, PTL DEF Spec

-----------------------------------------------------------------------------
(* A decided trip is replayed.                                             *)

\* A trip asks for one parent, and its gaps differ in their claim alone.
GapInv ==
    /\ parentOf = [t \in Trips |-> parentOf[t]]
    /\ \A g \in gaps :
          /\ g = [trip |-> g.trip, parent |-> g.parent, claim |-> g.claim]
          /\ g.trip \in Trips /\ parentOf[g.trip] = {g.parent}

\* A decision is about the gap of its trip, and says what its tournament shows.
ActionInv == \A d \in decisions : d.gap.trip = d.trip /\ d.action = Outcome(d.program)

\* The running trip is that of its gap, and a replay is of a decided trip.
TripInv ==
    /\ run.pc # "down" => run.gap.trip = run.trip /\ run.trip \in Trips
    /\ run.pc = "replay" => Decided(run.trip)

\* A decided trip ends in none of the refusals of a new one.
ReportInv ==
    (reported.trip \in Trips /\ Decided(reported.trip)) =>
        reported.how \in {"returned", "replayed", "killed", "drift", "cut short"}

ReplayInv == GapInv /\ ActionInv /\ TripInv /\ ReportInv

LEMMA DecisionOfIs ==
    ASSUME NEW t, Decided(t)
    PROVE  DecisionOf(t) \in decisions /\ DecisionOf(t).trip = t
BY DEF Decided, DecisionOf

LEMMA ReplayInit == Init => ReplayInv
BY DEF Init, Idle, ReplayInv, GapInv, ActionInv, TripInv, ReportInv, Decided

\* Nothing but the Claims, the bundle and a cut file can keep a decision from verifying.
LEMMA ReplayVerifies == Inv /\ ReplayInv => DecidedIsReplayed
<1> SUFFICES ASSUME Inv, ReplayInv PROVE DecidedIsReplayed
    OBVIOUS
<1>1. ASSUME run.pc = "replay",
             DecisionOf(run.trip).gap.claim = run.gap.claim, Stands(DecisionOf(run.trip)),
             Unaltered(DecisionOf(run.trip).trip, DecisionOf(run.trip).skill),
             Readable({"candidates", "capabilities", "programs"})
      PROVE  Verifies(DecisionOf(run.trip))
    <2> DEFINE d == DecisionOf(run.trip)
    <2>1. d \in decisions /\ d.trip = run.trip
        BY <1>1, DecisionOfIs DEF ReplayInv, TripInv
    <2>2. /\ d.gap \in gaps /\ run.gap \in gaps
          /\ d.gap.trip = run.trip /\ run.gap.trip = run.trip
        BY <1>1, <2>1 DEF Inv, DecisionIsSound, RunInv, ReplayInv, ActionInv, TripInv
    <2>3. \A g \in gaps : /\ g = [trip |-> g.trip, parent |-> g.parent, claim |-> g.claim]
                          /\ parentOf[g.trip] = {g.parent}
        BY DEF ReplayInv, GapInv
    <2>4. {d.gap.parent} = {run.gap.parent}
        <3>1. parentOf[d.gap.trip] = {d.gap.parent} /\ parentOf[run.gap.trip] = {run.gap.parent}
            BY <2>2, <2>3
        <3> QED
            BY <2>2, <3>1, Zenon
    <2>5. d.gap = run.gap
        <3>1. d.gap.parent = run.gap.parent
            BY <2>4
        <3> QED
            BY <1>1, <2>2, <2>3, <3>1
    <2> QED
        BY <1>1, <2>1, <2>5 DEF Verifies, Inv, DecisionIsSound, ReplayInv, ActionInv
<1>2. ReportInv
    BY DEF ReplayInv
<1> QED
    BY <1>1, <1>2 DEF DecidedIsReplayed, ReportInv

\* The tournament of a decided program is on record, and so is what it shows.
LEMMA ActionKept ==
    ASSUME Inv, ReplayInv, decisions' = decisions,
           \A p \in DOMAIN judged : judged'[p] = judged[p]
    PROVE  ActionInv'
<1> SUFFICES ASSUME NEW d \in decisions
             PROVE  d.gap.trip = d.trip /\ d.action = Outcome(d.program)'
    BY DEF ActionInv
<1>1. judged'[d.program] = judged[d.program]
    BY DEF Inv, JudgedInv
<1>2. Outcome(d.program)' = Outcome(d.program)
    BY <1>1 DEF Outcome, Scores
<1> QED
    BY <1>2 DEF ReplayInv, ActionInv

\* A step of the round trip that leaves requests, decisions and reports alone.
LEMMA GoesOn ==
    ASSUME Inv, ReplayInv, NEW place, place # "replay", Goes(place), run.pc # "down",
           UNCHANGED <<gaps, decisions>>, \A p \in DOMAIN judged : judged'[p] = judged[p]
    PROVE  ReplayInv'
<1>2. UNCHANGED <<parentOf, reported>>
    BY DEF Goes
<1>3. TripInv'
    BY DEF Goes, ReplayInv, TripInv
<1>4. GapInv' /\ ReportInv'
    BY <1>2 DEF ReplayInv, GapInv, ReportInv, Decided
<1> QED
    BY <1>3, <1>4, ActionKept DEF ReplayInv

\* A round trip that ends without a decision of its own.
LEMMA EndsWithout ==
    ASSUME Inv, ReplayInv, NEW how, Leave(how), UNCHANGED <<gaps, decisions, judged>>,
           run.pc # "down",
           run.pc = "replay" => how \in {"replayed", "drift"}
    PROVE  ReplayInv'
<1>1. /\ run'.pc = "down" /\ reported'.trip = run.trip /\ reported'.how = how
      /\ UNCHANGED parentOf
    BY DEF Leave, Idle
<1>2. TripInv' /\ GapInv'
    BY <1>1 DEF ReplayInv, TripInv, GapInv
<1>3. ReportInv'
    BY <1>1 DEF Inv, RunInv, ReportInv, Decided
<1> QED
    BY <1>2, <1>3, ActionKept DEF ReplayInv

LEMMA RefusesWithout ==
    ASSUME Inv, ReplayInv, NEW why, Refuse(why), run.pc # "down",
           run.pc = "replay" => why \in {"replayed", "drift"}
    PROVE  ReplayInv'
<1>1. Leave(why) /\ UNCHANGED <<gaps, decisions, judged>>
    BY DEF Refuse, disk
<1> QED
    BY <1>1, EndsWithout

\* A request asks for the parent it asked for before.
LEMMA GapAsked ==
    ASSUME ReplayInv, NEW t \in Trips, NEW parent, parentOf[t] \subseteq {parent},
           parentOf' = [parentOf EXCEPT ![t] = {parent}], NEW v,
           gaps' \subseteq gaps \cup {[trip |-> t, parent |-> parent, claim |-> v]}
    PROVE  GapInv'
<1>1. parentOf' = [u \in Trips |-> parentOf'[u]] /\ parentOf'[t] = {parent}
      /\ \A u \in Trips : u # t => parentOf'[u] = parentOf[u]
    BY DEF ReplayInv, GapInv
<1>2. ASSUME NEW g \in gaps
      PROVE  /\ g = [trip |-> g.trip, parent |-> g.parent, claim |-> g.claim]
             /\ g.trip \in Trips /\ parentOf'[g.trip] = {g.parent}
    <2>1. /\ g = [trip |-> g.trip, parent |-> g.parent, claim |-> g.claim]
          /\ g.trip \in Trips /\ parentOf[g.trip] = {g.parent}
        BY DEF ReplayInv, GapInv
    <2>2. g.trip = t => parent = g.parent
        BY <2>1
    <2> QED
        BY <1>1, <2>1, <2>2
<1> QED
    BY <1>1, <1>2 DEF GapInv

LEMMA LaunchRefusedReplays ==
    ASSUME Inv, ReplayInv, NEW t \in Trips, LaunchRefused(t) PROVE ReplayInv'
<1>1. PICK parent :
        /\ parentOf[t] \subseteq {parent}
        /\ parentOf' = [parentOf EXCEPT ![t] = {parent}]
        /\ gaps' \subseteq gaps \cup {[trip |-> t, parent |-> parent, claim |-> claim[t].failure]}
    BY DEF LaunchRefused, Gap
<1>2. UNCHANGED <<decisions, judged, run>> /\ reported'.how = "cut short"
    BY DEF LaunchRefused
<1>3. GapInv'
    BY <1>1, GapAsked
<1>4. TripInv' /\ ReportInv'
    BY <1>2 DEF ReplayInv, TripInv, ReportInv, Decided
<1> QED
    BY <1>2, <1>3, <1>4, ActionKept DEF ReplayInv

LEMMA LaunchReplays == ASSUME Inv, ReplayInv, NEW t \in Trips, Launch(t) PROVE ReplayInv'
<1>1. PICK parent :
        /\ parentOf[t] \subseteq {parent}
        /\ parentOf' = [parentOf EXCEPT ![t] = {parent}]
        /\ gaps' = gaps \cup {[trip |-> t, parent |-> parent, claim |-> claim[t].failure]}
        /\ run' = [pc |-> IF Decided(t) THEN "replay" ELSE "compile", trip |-> t,
                   gap |-> [trip |-> t, parent |-> parent, claim |-> claim[t].failure],
                   skill |-> None, claims |-> First]
    BY DEF Launch, Gap
<1>2. UNCHANGED <<decisions, judged, reported>>
    BY DEF Launch
<1>3. GapInv'
    BY <1>1, GapAsked
<1>4. TripInv'
    BY <1>1, <1>2 DEF TripInv, Decided
<1>5. ReportInv'
    BY <1>2 DEF ReplayInv, ReportInv, Decided
<1> QED
    BY <1>2, <1>3, <1>4, <1>5, ActionKept DEF ReplayInv

LEMMA DecideReplays == ASSUME Inv, ReplayInv, Decide PROVE ReplayInv'
<1>1. CASE decisions' = decisions \cup {Decision} /\ Leave("returned")
           /\ UNCHANGED <<bundle, gaps, candidates, capabilities, partial, frozen, programs, judged>>
    <2>1. /\ run'.pc = "down" /\ reported'.trip = run.trip /\ reported'.how = "returned"
          /\ UNCHANGED parentOf
        BY <1>1 DEF Leave, Idle
    <2>2. Decision.gap.trip = Decision.trip
        BY DEF Decide, Decision, ReplayInv, TripInv
    <2>3. ActionInv'
        <3>1. \A p : Outcome(p)' = Outcome(p)
            BY <1>1 DEF Outcome, Scores
        <3>2. Decision.action = Outcome(Decision.program)
            BY DEF Decision
        <3> QED
            BY <1>1, <2>2, <3>1, <3>2 DEF ReplayInv, ActionInv
    <2>4. TripInv' /\ GapInv' /\ ReportInv'
        BY <1>1, <2>1 DEF ReplayInv, TripInv, GapInv, ReportInv
    <2> QED
        BY <2>3, <2>4 DEF ReplayInv
<1>2. run.pc = "decide"
    BY DEF Decide
<1> QED
    BY <1>1, <1>2, RefusesWithout DEF Decide

LEMMA StepReplays == ASSUME Inv, ReplayInv, Step PROVE ReplayInv'
<1>1. CASE Compile
    <2>1. ASSUME NEW r, NEW c,
                 run' = [run EXCEPT !.pc = "validate", !.skill = [revision |-> r, content |-> c]],
                 UNCHANGED <<parentOf, gaps, decisions, judged, reported>>
          PROVE  ReplayInv'
        <3>1. run'.pc = "validate" /\ run'.gap = run.gap /\ run'.trip = run.trip
            BY <2>1 DEF Inv, RunInv
        <3>2. TripInv' /\ GapInv' /\ ReportInv'
            BY <1>1, <2>1, <3>1 DEF Compile, ReplayInv, TripInv, GapInv, ReportInv, Decided
        <3> QED
            BY <2>1, <3>2, ActionKept DEF ReplayInv
    <2>2. run.pc = "compile"
        BY <1>1 DEF Compile
    <2> QED
        BY <1>1, <2>1, <2>2, RefusesWithout DEF Compile
<1>2. CASE Validate
    <2>1. run.pc = "validate"
        BY <1>2 DEF Validate
    <2> QED
        BY <1>2, <2>1, GoesOn, GoMeaning, RefusesWithout DEF Validate
<1>3. CASE RegisterCapability
    <2>1. run.pc = "capability"
        BY <1>3 DEF RegisterCapability
    <2>2. \/ Refuse("not registered")
          \/ /\ UNCHANGED <<gaps, decisions, judged>>
             /\ Leave("has the capability") \/ Go("compose")
        BY <1>3 DEF RegisterCapability
    <2> QED
        BY <2>1, <2>2, GoesOn, GoMeaning, EndsWithout, RefusesWithout
<1>4. CASE Compose
    <2>1. run.pc = "compose"
        BY <1>4 DEF Compose
    <2>2. \/ Refuse("corrupt program")
          \/ (Go("program") \/ Go("freezing")) /\ UNCHANGED <<gaps, decisions, judged>>
        BY <1>4 DEF Compose, disk
    <2> QED
        BY <2>1, <2>2, GoesOn, GoMeaning, RefusesWithout
<1>5. CASE FinishFreeze \/ RegisterProgram
    BY <1>5, GoesOn, GoMeaning, RefusesWithout DEF FinishFreeze, RegisterProgram
<1>6. CASE Fight
    <2>1. run.pc = "fight"
        BY <1>6 DEF Fight
    <2>2. \/ Refuse("incomplete tournament")
          \/ /\ Supported("fight", "decide") /\ UNCHANGED <<gaps, decisions>>
             /\ \A p \in DOMAIN judged : judged'[p] = judged[p]
        BY <1>6 DEF Fight, Fought, disk
    <2> QED
        BY <2>1, <2>2, GoesOn, GoMeaning, RefusesWithout
<1>7. CASE Replay
    <2>1. run.pc = "replay" /\ (Refuse("replayed") \/ Refuse("drift"))
        BY <1>7 DEF Replay, Refuse
    <2> QED
        BY <2>1, RefusesWithout
<1> QED
    BY <1>1, <1>2, <1>3, <1>4, <1>5, <1>6, <1>7, DecideReplays DEF Step

LEMMA ReplayNext == ASSUME Inv, ReplayInv, [Next]_vars PROVE ReplayInv'
<1>1. CASE Kill \/ CutShort
    <2>1. /\ run'.pc = "down" /\ reported'.how = "killed"
          /\ UNCHANGED <<parentOf, gaps, decisions, judged>>
        BY <1>1 DEF Kill, CutShort, Idle, disk
    <2>2. TripInv' /\ GapInv' /\ ReportInv'
        BY <2>1 DEF ReplayInv, TripInv, GapInv, ReportInv
    <2> QED
        BY <2>1, <2>2, ActionKept DEF ReplayInv
<1>2. CASE Alter \/ Supersede \/ UNCHANGED vars
    <2>1. UNCHANGED <<parentOf, gaps, decisions, judged, run, reported>>
        BY <1>2 DEF Alter, Supersede, disk, vars
    <2>2. TripInv' /\ GapInv' /\ ReportInv'
        BY <2>1 DEF ReplayInv, TripInv, GapInv, ReportInv, Decided
    <2> QED
        BY <2>1, <2>2, ActionKept DEF ReplayInv
<1> QED
    BY <1>1, <1>2, LaunchReplays, LaunchRefusedReplays, StepReplays DEF Next

\* A request whose trip was decided never redoes it, and its decision verifies while its
\* Claims are the latest, its bundle is the one that was judged and the registries can be
\* read: no other trip and no killed run takes from it what _replay looks for.
THEOREM DecidedTripsReplay == Spec => []DecidedIsReplayed
<1>1. Init => Inv /\ ReplayInv
    BY InitInv, ReplayInit
<1>2. Inv /\ ReplayInv /\ [Next]_vars => Inv' /\ ReplayInv'
    BY NextInv, ReplayNext, PortfolioAssumption
<1>3. Inv /\ ReplayInv => DecidedIsReplayed
    BY ReplayVerifies
<1> QED
    BY <1>1, <1>2, <1>3, PTL DEF Spec

-----------------------------------------------------------------------------
(* The append-only files.                                                  *)

\* Each process has a request while it is in a call, an unterminated file has a last
\* line and a fault behind it, and files that are created once have no log.
ShapeInv ==
    /\ Stores!TypeOK
    /\ view \in [Procs -> Seq(Stores!Records \cup {Torn, Garbage})]
    /\ ~terminated => log # <<>> /\ storeFaults # 0
    /\ \A p \in Procs : pc[p] # "idle" => request[p] \in Stores!Requests
    /\ Stores!Has("created once") => \A p \in Procs : pc[p] \in {"idle", "file", "fill"}

\* Between the read under the lease and the release.
Inside == {"locked", "file", "fill", "write"}
Ready == {"file", "fill", "write"}

\* No row has the identity of r.
IsNew(r) == \A i \in DOMAIN log : log[i].id # r.id

\* Whoever is inside owns the lease, and whoever has read there has read the very log
\* it appends to, found it readable, and found no row of its identity and no fork.
LeaseInv ==
    Stores!Has("leased") =>
        \A p \in Procs :
            /\ pc[p] \in Inside => lease = p
            /\ pc[p] \in Ready =>
                  /\ Stores!Readable /\ view[p] = log
                  /\ IsNew(request[p]) /\ ~Stores!Forks(request[p])

\* A file is partial while its only creator fills it.
FillInv ==
    \A p \in Procs : pc[p] = "fill" =>
        /\ files[Stores!Path(p)] = Partial
        /\ \A q \in Procs : pc[q] = "fill" /\ Stores!Path(q) = Stores!Path(p) => q = p

\* A receipt is written after its artifact.
ArtifactInv ==
    Stores!Has("artifacts") =>
        \A p \in Procs : pc[p] = "write" => files[request[p].value] = request[p].value

Logged(r) ==
    \E i \in DOMAIN log :
        Stores!IsRecord(log[i]) /\ log[i].id = r.id /\ Stores!SameContent(log[i], r)

\* No line is damaged.
Whole == \A i \in DOMAIN log : Stores!IsRecord(log[i])

\* What was acknowledged is there until a line of the file is damaged.
AckInv ==
    IF Stores!Has("created once") THEN \A r \in acked : files[r.id] = r.value
    ELSE Whole \/ Stores!Has("tail checked") => \A r \in acked : Logged(r)

StoreInv == /\ ShapeInv /\ LeaseInv /\ FillInv /\ ArtifactInv /\ AckInv
            /\ Stores!LeasedStoreIsSound /\ Stores!ArtifactBacksReceipt

-----------------------------------------------------------------------------
\* How the features of the thirteen kinds go together.
LEMMA Combinations ==
    ASSUME Stores!StoresAssumption, kind \in Kinds
    PROVE  /\ Stores!Has("created once") =>
                 ~Stores!Has("leased") /\ ~Stores!Has("artifacts") /\ ~Stores!Has("read first")
           /\ Stores!Has("artifacts") => Stores!Has("leased") /\ ~Stores!Has("read first")
           /\ Stores!Has("tail checked") => Stores!Has("leased") /\ Stores!Has("length checked")
           /\ Stores!Has("parents chained") => Stores!Has("parent")
           /\ Stores!Has("leased") \/ Stores!Has("read first") \/ Stores!Has("created once")
<1>1. Stores!Features[kind] \in {
          Stores!ReceiptStore, Stores!EvidenceGraph, Stores!Registry, Stores!TaskRegistry,
          Stores!PromotionDecisionLog, Stores!PortfolioLog, Stores!HashChainIndex,
          Stores!SearchParentLog, Stores!LiveSearchParent, Stores!freeze_json,
          Stores!RoundCopy, Stores!ReleaseCopy, Stores!CompiledArtifact}
    BY DEF Stores!StoresAssumption, Stores!Features
<1> QED
    BY <1>1 DEF Stores!Has, Stores!ReceiptStore, Stores!EvidenceGraph, Stores!Registry,
                Stores!PromotionDecisionLog, Stores!PortfolioLog, Stores!TaskRegistry,
                Stores!HashChainIndex, Stores!SearchParentLog, Stores!LiveSearchParent,
                Stores!freeze_json, Stores!RoundCopy, Stores!ReleaseCopy,
                Stores!CompiledArtifact

\* A line is a record unless it is damaged.
LEMMA LineType ==
    ASSUME ShapeInv, NEW i \in DOMAIN log
    PROVE  /\ log[i] \in Stores!Records \cup {Torn, Garbage}
           /\ Stores!IsRecord(log[i]) => log[i] \in Stores!Records
<1>1. log \in Seq(Stores!Records \cup {Torn, Garbage})
    BY DEF ShapeInv, Stores!TypeOK
<1> QED
    BY <1>1 DEF Stores!IsRecord

LEMMA FaultsType == ASSUME Stores!StoresAssumption, ShapeInv PROVE storeFaults \in Nat
<1>1. storeFaults \in 0 .. MaxStoreFaults /\ MaxStoreFaults \in Nat
    BY DEF Stores!StoresAssumption, ShapeInv, Stores!TypeOK
<1> QED
    BY <1>1

\* What O_APPEND leaves of the log.
LEMMA Appended ==
    ASSUME ShapeInv, NEW line, log' = Stores!Behind(line)
    PROVE  /\ terminated => /\ log' = Append(log, line)
                            /\ DOMAIN log' = 1 .. Len(log) + 1 /\ DOMAIN log = 1 .. Len(log)
                            /\ Len(log) \in Nat
                            /\ log'[Len(log) + 1] = line
                            /\ \A i \in DOMAIN log : log'[i] = log[i]
           /\ ~terminated => /\ DOMAIN log' = DOMAIN log /\ Len(log) \in DOMAIN log
                             /\ log'[Len(log)] = Garbage
                             /\ \A i \in DOMAIN log : i # Len(log) => log'[i] = log[i]
<1>1. log \in Seq(Stores!Records \cup {Torn, Garbage})
    BY DEF ShapeInv, Stores!TypeOK
<1>2. CASE terminated
    BY <1>1, <1>2 DEF Stores!Behind
<1>3. CASE ~terminated
    <2>1. log # <<>> /\ log' = [log EXCEPT ![Len(log)] = Garbage]
        BY <1>3 DEF Stores!Behind, ShapeInv
    <2>2. Len(log) \in DOMAIN log
        BY <1>1, <2>1
    <2> QED
        BY <1>1, <1>3, <2>1, <2>2
<1> QED
    BY <1>2, <1>3

LEMMA AppendedType ==
    ASSUME ShapeInv, NEW line \in Stores!Records \cup {Torn, Garbage},
           log' = Stores!Behind(line)
    PROVE  log' \in Seq(Stores!Records \cup {Torn, Garbage}) /\ log' # <<>>
<1>1. log \in Seq(Stores!Records \cup {Torn, Garbage})
    BY DEF ShapeInv, Stores!TypeOK
<1>2. CASE terminated
    BY <1>1, <1>2 DEF Stores!Behind
<1>3. CASE ~terminated
    <2>1. log # <<>> /\ log' = [log EXCEPT ![Len(log)] = Garbage]
        BY <1>3 DEF Stores!Behind, ShapeInv
    <2>2. Len(log) \in DOMAIN log
        BY <1>1, <2>1
    <2> QED
        BY <1>1, <1>3, <2>1, <2>2
<1> QED
    BY <1>2, <1>3

\* An artifact that is there stays there, and so a readable store stays readable.
LEMMA ReadableKept ==
    ASSUME ShapeInv, Stores!StoresAssumption, UNCHANGED <<kind, log, terminated>>,
           \A v \in Values : files[v] = v => files'[v] = v
    PROVE  /\ Stores!Readable => Stores!Readable'
           /\ Stores!ArtifactBacksReceipt => Stores!ArtifactBacksReceipt'
           /\ \A r : /\ Logged(r)' = Logged(r) /\ IsNew(r)' = IsNew(r)
                     /\ Stores!Forks(r)' = Stores!Forks(r)
           /\ Whole' = Whole /\ \A f : Stores!Has(f)' = Stores!Has(f)
<1>1. \A i \in DOMAIN log : Stores!IsRecord(log[i]) => log[i].value \in Values
    BY LineType DEF Stores!Records
<1>2. Stores!Readable => Stores!Readable'
    BY <1>1 DEF Stores!Readable, Stores!Has, Stores!Pairs, Stores!SameId, Stores!IsRecord
<1>3. Stores!ArtifactBacksReceipt => Stores!ArtifactBacksReceipt'
    BY <1>1 DEF Stores!ArtifactBacksReceipt, Stores!Lines, Stores!Has, Stores!IsRecord
<1> QED
    BY <1>2, <1>3 DEF Logged, IsNew, Stores!Forks, Whole, Stores!Has, Stores!IsRecord,
                      Stores!SameContent

-----------------------------------------------------------------------------
LEMMA StoreInit == ASSUME Stores!StoresAssumption, Stores!Init PROVE StoreInv
<1>1. ShapeInv
    BY DEF Stores!StoresAssumption, Stores!Init, ShapeInv, Stores!TypeOK, Stores!Places,
           Stores!NoRequest
<1>2. LeaseInv /\ FillInv /\ ArtifactInv
    BY DEF Stores!Init, LeaseInv, FillInv, ArtifactInv, Inside, Ready
<1>3. AckInv /\ Stores!ArtifactBacksReceipt
    BY DEF Stores!Init, AckInv, Stores!ArtifactBacksReceipt, Stores!Lines
<1>4. Stores!LeasedStoreIsSound
    BY DEF Stores!Init, Stores!LeasedStoreIsSound, Stores!Readable, Stores!Pairs
<1> QED
    BY <1>1, <1>2, <1>3, <1>4 DEF StoreInv

\* What holds of the log goes on holding while no line is written.
LEMMA LogKept ==
    ASSUME Stores!StoresAssumption, StoreInv, UNCHANGED <<kind, log, terminated>>,
           \A v \in Values : files[v] = v => files'[v] = v,
           storeFaults' = 0 => storeFaults = 0
    PROVE  Stores!LeasedStoreIsSound' /\ Stores!ArtifactBacksReceipt'
<1>1. Stores!Readable => Stores!Readable'
    BY ReadableKept DEF StoreInv
<1>2. Stores!LeasedStoreIsSound'
    BY <1>1 DEF StoreInv, Stores!LeasedStoreIsSound, Stores!Has, Stores!Pairs, Stores!SameId,
                Stores!IsRecord
<1> QED
    BY <1>2, ReadableKept DEF StoreInv

\* Nobody else comes to a file that is being filled.
LEMMA FillKept ==
    ASSUME FillInv, UNCHANGED <<kind, files>>,
           \A q \in Procs : pc'[q] = "fill" => pc[q] = "fill" /\ request'[q] = request[q]
    PROVE  FillInv'
<1>1. ASSUME NEW q, pc'[q] = "fill", q \in Procs
      PROVE  pc[q] = "fill" /\ Stores!Path(q)' = Stores!Path(q)
    BY <1>1 DEF Stores!Path, Stores!Has
<1> QED
    BY <1>1 DEF FillInv

\* The one who fills a file is no other's concern.
LEMMA FillOther ==
    ASSUME ShapeInv, FillInv, UNCHANGED kind, NEW p \in Procs,
           \A path \in Ids \cup Values :
               files'[path] # files[path] => pc[p] = "fill" /\ path = Stores!Path(p),
           \A q \in Procs : pc'[q] = "fill" =>
               q # p /\ pc[q] = "fill" /\ request'[q] = request[q]
    PROVE  FillInv'
<1>1. SUFFICES ASSUME NEW q \in Procs, pc'[q] = "fill"
               PROVE  /\ files'[Stores!Path(q)'] = Partial
                      /\ \A o \in Procs :
                            (pc'[o] = "fill" /\ Stores!Path(o)' = Stores!Path(q)') => o = q
    BY DEF FillInv
<1>2. \A o \in Procs : pc'[o] = "fill" => Stores!Path(o)' = Stores!Path(o)
    BY DEF Stores!Path, Stores!Has
<1>3. /\ q # p /\ pc[q] = "fill" /\ Stores!Path(q)' = Stores!Path(q)
      /\ files[Stores!Path(q)] = Partial
      /\ \A o \in Procs : pc[o] = "fill" /\ Stores!Path(o) = Stores!Path(q) => o = q
    BY <1>1, <1>2 DEF FillInv
<1>4. Stores!Path(q) \in Ids \cup Values
    BY <1>3 DEF ShapeInv, Stores!Path, Stores!Requests
<1>5. files'[Stores!Path(q)] = files[Stores!Path(q)]
    BY <1>3, <1>4
<1> QED
    BY <1>2, <1>3, <1>5

\* A process goes on without writing; whatever holds at its next place it has
\* established.
LEMMA MovesOn ==
    ASSUME Stores!StoresAssumption, StoreInv, NEW p \in Procs,
           NEW place \in Stores!Places \ {"idle", "fill"},
           UNCHANGED <<kind, log, terminated, files, acked, storeFaults>>,
           Stores!Goto(p, place), lease' = lease \/ (lease = Nobody /\ lease' = p),
           request' \in [Procs -> Stores!Requests \cup {Stores!NoRequest}],
           request'[p] \in Stores!Requests,
           view' \in [Procs -> Seq(Stores!Records \cup {Torn, Garbage})],
           \A q \in Procs \ {p} : request'[q] = request[q] /\ view'[q] = view[q],
           Stores!Has("leased") => /\ place \in Inside => lease' = p
                                   /\ place \in Ready => /\ Stores!Readable /\ view'[p] = log
                                                         /\ IsNew(request'[p])
                                                         /\ ~Stores!Forks(request'[p]),
           Stores!Has("artifacts") /\ place = "write" =>
               files[request'[p].value] = request'[p].value,
           Stores!Has("created once") => place = "file"
    PROVE  StoreInv'
<1> USE DEF Stores!Goto
<1>1. /\ pc \in [Procs -> Stores!Places] /\ pc'[p] = place
      /\ \A q \in Procs : q # p => pc'[q] = pc[q]
    BY DEF StoreInv, ShapeInv, Stores!TypeOK
<1>2. ShapeInv'
    BY <1>1 DEF StoreInv, ShapeInv, Stores!TypeOK, Stores!Has
<1>3. LeaseInv'
    <2>1. SUFFICES ASSUME Stores!Has("leased"), NEW q \in Procs
                   PROVE  /\ pc'[q] \in Inside => lease' = q
                          /\ pc'[q] \in Ready =>
                                /\ Stores!Readable /\ view'[q] = log
                                /\ IsNew(request'[q]) /\ ~Stores!Forks(request'[q])
        BY DEF LeaseInv, Stores!Has, Stores!Readable, Stores!Pairs, Stores!SameId, IsNew,
               Stores!Forks, Stores!IsRecord
    <2>2. /\ pc[q] \in Inside => lease = q
          /\ pc[q] \in Ready => /\ Stores!Readable /\ view[q] = log
                                /\ IsNew(request[q]) /\ ~Stores!Forks(request[q])
        BY <2>1 DEF StoreInv, LeaseInv
    <2>3. CASE q = p
        BY <1>1, <2>1, <2>3
    <2>4. CASE q # p
        BY <1>1, <2>2, <2>4 DEF Stores!StoresAssumption
    <2> QED
        BY <2>3, <2>4
<1>4. FillInv'
    <2>1. \A q \in Procs : pc'[q] = "fill" => pc[q] = "fill" /\ request'[q] = request[q]
        BY <1>1
    <2> QED
        BY <2>1, FillKept DEF StoreInv
<1>5. ArtifactInv'
    BY <1>1 DEF StoreInv, ArtifactInv, Stores!Has
<1>6. AckInv'
    BY DEF StoreInv, AckInv, Stores!Has, Whole, Logged, Stores!IsRecord, Stores!SameContent
<1>7. Stores!LeasedStoreIsSound' /\ Stores!ArtifactBacksReceipt'
    <2>1. UNCHANGED <<kind, log, terminated, files>> /\ storeFaults' = storeFaults
        OBVIOUS
    <2> QED
        BY <2>1, LogKept
<1> QED
    BY <1>2, <1>3, <1>4, <1>5, <1>6, <1>7 DEF StoreInv

\* Where p is and where the others are, once p has left.
LEMMA Left ==
    ASSUME ShapeInv, NEW p \in Procs, Stores!Leave(p)
    PROVE  /\ pc' \in [Procs -> Stores!Places]
           /\ request' \in [Procs -> Stores!Requests \cup {Stores!NoRequest}]
           /\ view' \in [Procs -> Seq(Stores!Records \cup {Torn, Garbage})]
           /\ pc'[p] = "idle"
           /\ \A q \in Procs \ {p} :
                 pc'[q] = pc[q] /\ request'[q] = request[q] /\ view'[q] = view[q]
<1>1. /\ pc \in [Procs -> Stores!Places]
      /\ request \in [Procs -> Stores!Requests \cup {Stores!NoRequest}]
      /\ view \in [Procs -> Seq(Stores!Records \cup {Torn, Garbage})]
    BY DEF ShapeInv, Stores!TypeOK
<1>2. "idle" \in Stores!Places /\ <<>> \in Seq(Stores!Records \cup {Torn, Garbage})
    BY DEF Stores!Places
<1> QED
    BY <1>1, <1>2 DEF Stores!Leave, Stores!Goto

\* A process ends its call, by any way but a write to the log: what it returns is
\* stored, and the file it fills is whole or stays partial.
LEMMA Ends ==
    ASSUME Stores!StoresAssumption, StoreInv, NEW p \in Procs, Stores!Leave(p), pc[p] # "idle",
           UNCHANGED <<kind, log, terminated>>,
           \/ files' = files
           \/ /\ Stores!At(p, "fill")
              /\ files' = [files EXCEPT ![Stores!Path(p)] = request[p].value],
           \/ lease' = lease
           \/ lease = p /\ lease' \in {Nobody, Dead},
           \/ acked' = acked
           \/ /\ acked' = acked \cup {request[p]}
              /\ IF Stores!Has("created once") THEN files'[request[p].id] = request[p].value
                 ELSE Logged(request[p]),
           storeFaults' \in 0 .. MaxStoreFaults, storeFaults' = 0 => storeFaults = 0
    PROVE  StoreInv'
<1>1. /\ pc' \in [Procs -> Stores!Places]
      /\ request' \in [Procs -> Stores!Requests \cup {Stores!NoRequest}]
      /\ view' \in [Procs -> Seq(Stores!Records \cup {Torn, Garbage})]
      /\ pc'[p] = "idle"
      /\ \A q \in Procs \ {p} :
            pc'[q] = pc[q] /\ request'[q] = request[q] /\ view'[q] = view[q]
    BY Left DEF StoreInv
<1>2. /\ request[p] \in Stores!Requests /\ request[p].id \in Ids /\ request[p].value \in Values
      /\ Stores!Path(p) \in Ids \cup Values
      /\ ~Stores!Has("created once") => Stores!Path(p) = request[p].value
      /\ (Stores!Has("created once") => Stores!Path(p) = request[p].id)
      /\ files \in [Ids \cup Values -> Values \cup {Absent, Partial}]
    BY DEF StoreInv, ShapeInv, Stores!TypeOK, Stores!Requests, Stores!Path
<1>3. /\ files' \in [Ids \cup Values -> Values \cup {Absent, Partial}]
      /\ \A path \in Ids \cup Values :
            files'[path] # files[path] => pc[p] = "fill" /\ path = Stores!Path(p)
    BY <1>2 DEF Stores!At
<1>4. pc[p] = "fill" => files[Stores!Path(p)] = Partial
    BY DEF StoreInv, FillInv
<1>5. \A v \in Values : files[v] = v => files'[v] = v
    BY <1>3, <1>4 DEF Stores!StoresAssumption
<1>6. ShapeInv'
    <2>1. Stores!TypeOK'
        BY <1>1, <1>2, <1>3 DEF StoreInv, ShapeInv, Stores!TypeOK, Stores!StoresAssumption
    <2> QED
        BY <1>1, <2>1 DEF StoreInv, ShapeInv, Stores!Has
<1>7. LeaseInv'
    <2>1. SUFFICES ASSUME Stores!Has("leased"), NEW q \in Procs
                   PROVE  /\ pc'[q] \in Inside => lease' = q
                          /\ pc'[q] \in Ready =>
                                /\ Stores!Readable' /\ view'[q] = log
                                /\ IsNew(request'[q]) /\ ~Stores!Forks(request'[q])
        BY DEF LeaseInv, Stores!Has, IsNew, Stores!Forks
    <2>2. CASE q = p
        BY <1>1, <2>2 DEF Inside, Ready
    <2>3. CASE q # p
        <3>1. /\ pc[q] \in Inside => lease = q
              /\ pc[q] \in Ready => /\ Stores!Readable /\ view[q] = log
                                    /\ IsNew(request[q]) /\ ~Stores!Forks(request[q])
            BY <2>1 DEF StoreInv, LeaseInv
        <3>2. Stores!Readable => Stores!Readable'
            BY <1>5, ReadableKept DEF StoreInv
        <3>3. pc[q] \in Inside => lease' = q
            BY <2>3, <3>1
        <3> QED
            BY <1>1, <2>3, <3>1, <3>2, <3>3
    <2> QED
        BY <2>2, <2>3
<1>8. FillInv'
    <2>1. \A q \in Procs : pc'[q] = "fill" =>
              q # p /\ pc[q] = "fill" /\ request'[q] = request[q]
        BY <1>1
    <2> QED
        BY <1>3, <2>1, FillOther DEF StoreInv
<1>9. ArtifactInv' /\ AckInv'
    <2>1. ArtifactInv'
        <3>1. SUFFICES ASSUME Stores!Has("artifacts"), NEW q \in Procs, pc'[q] = "write"
                       PROVE  files'[request'[q].value] = request'[q].value
            BY DEF ArtifactInv, Stores!Has
        <3>2. q # p /\ pc[q] = "write" /\ request'[q] = request[q]
            BY <1>1, <3>1
        <3>3. files[request[q].value] = request[q].value /\ request[q].value \in Values
            BY <3>1, <3>2 DEF StoreInv, ArtifactInv, ShapeInv, Stores!Requests
        <3> QED
            BY <1>5, <3>2, <3>3
    <2>2. CASE Stores!Has("created once")
        <3>1. \A r \in acked : files[r.id] = r.value /\ r.value \in Values /\ r.id \in Ids
            BY <2>2 DEF StoreInv, AckInv, ShapeInv, Stores!TypeOK, Stores!Requests
        <3>2. ASSUME NEW r \in acked PROVE files'[r.id] = r.value
            <4>1. files[r.id] # Partial
                BY <3>1 DEF Stores!StoresAssumption
            <4> QED
                BY <1>3, <1>4, <3>1, <4>1
        <3> QED
            BY <2>1, <2>2, <3>2 DEF AckInv, Stores!Has
    <2>3. CASE ~Stores!Has("created once")
        <3>1. \A r : Logged(r)' = Logged(r)
            BY <1>5, ReadableKept DEF StoreInv
        <3>2. Whole \/ Stores!Has("tail checked") => \A r \in acked' : Logged(r)
            BY <2>3 DEF StoreInv, AckInv
        <3> QED
            BY <2>1, <2>3, <3>2 DEF AckInv, Stores!Has, Whole, Stores!IsRecord, Logged,
                                    Stores!SameContent
    <2> QED
        BY <2>2, <2>3
<1>10. Stores!LeasedStoreIsSound' /\ Stores!ArtifactBacksReceipt'
    BY <1>5, LogKept
<1> QED
    BY <1>6, <1>7, <1>8, <1>9, <1>10 DEF StoreInv

-----------------------------------------------------------------------------
\* A file is created exclusively, and filled by its creator.
LEMMA OpenStep ==
    ASSUME Stores!StoresAssumption, StoreInv, NEW p \in Procs, Stores!OpenFile(p), kind' = kind
    PROVE  StoreInv'
<1>1. /\ pc[p] = "file" /\ request[p] \in Stores!Requests /\ storeFaults' = storeFaults
      /\ storeFaults \in 0 .. MaxStoreFaults
    BY DEF Stores!OpenFile, Stores!At, StoreInv, ShapeInv, Stores!TypeOK
<1>2. CASE Stores!Raise(p)
    BY <1>1, <1>2, Ends DEF Stores!Raise, Stores!Released
<1>3. CASE /\ Stores!Has("created once") /\ Stores!Return(p)
           /\ files[Stores!Path(p)] = request[p].value
    BY <1>1, <1>3, Ends DEF Stores!Return, Stores!Released, Stores!Acknowledge, Stores!Path
<1>4. CASE /\ ~Stores!Has("created once") /\ Stores!Goto(p, "write")
           /\ files[Stores!Path(p)] = request[p].value
           /\ UNCHANGED <<log, terminated, files, lease, acked, request, view>>
    <2>1. /\ request' \in [Procs -> Stores!Requests \cup {Stores!NoRequest}]
          /\ view' \in [Procs -> Seq(Stores!Records \cup {Torn, Garbage})]
        BY <1>4 DEF StoreInv, ShapeInv, Stores!TypeOK
    <2>2. Stores!Has("leased") => /\ lease = p
                                  /\ Stores!Readable /\ view[p] = log
                                  /\ IsNew(request[p]) /\ ~Stores!Forks(request[p])
        BY <1>1 DEF StoreInv, LeaseInv, Inside, Ready
    <2>3. files[request[p].value] = request[p].value
        BY <1>4 DEF Stores!Path
    <2>4. UNCHANGED <<kind, log, terminated, files, acked, storeFaults>>
        BY <1>1, <1>4
    <2>5. "write" \in Stores!Places \ {"idle", "fill"}
        BY DEF Stores!Places
    <2> QED
        BY <1>1, <1>4, <2>1, <2>2, <2>3, <2>4, <2>5, MovesOn
<1>5. CASE /\ files[Stores!Path(p)] = Absent
           /\ files' = [files EXCEPT ![Stores!Path(p)] = Partial]
           /\ Stores!Goto(p, "fill")
           /\ UNCHANGED <<log, terminated, lease, acked, request, view>>
    <2>1. /\ pc' \in [Procs -> Stores!Places] /\ pc'[p] = "fill"
          /\ \A q \in Procs : q # p => pc'[q] = pc[q]
        BY <1>5 DEF Stores!Goto, StoreInv, ShapeInv, Stores!TypeOK, Stores!Places
    <2>2. /\ Stores!Path(p) \in Ids \cup Values
          /\ files \in [Ids \cup Values -> Values \cup {Absent, Partial}]
          /\ \A r \in acked : r.id \in Ids /\ r.value \in Values
        BY <1>1 DEF StoreInv, ShapeInv, Stores!TypeOK, Stores!Requests, Stores!Path
    <2>3. /\ files' \in [Ids \cup Values -> Values \cup {Absent, Partial}]
          /\ \A path \in Ids \cup Values : path # Stores!Path(p) => files'[path] = files[path]
          /\ files'[Stores!Path(p)] = Partial
        BY <1>5, <2>2
    <2>4. \A v \in Values : files[v] = v => files'[v] = v
        BY <1>5, <2>2, <2>3 DEF Stores!StoresAssumption
    <2>5. ShapeInv'
        BY <1>1, <1>5, <2>1, <2>3 DEF StoreInv, ShapeInv, Stores!TypeOK, Stores!Has
    <2>6. LeaseInv'
        <3>1. SUFFICES ASSUME Stores!Has("leased"), NEW q \in Procs
                       PROVE  /\ pc'[q] \in Inside => lease = q
                              /\ pc'[q] \in Ready =>
                                    /\ Stores!Readable' /\ view[q] = log
                                    /\ IsNew(request[q]) /\ ~Stores!Forks(request[q])
            BY <1>5 DEF LeaseInv, Stores!Has, IsNew, Stores!Forks
        <3>2. /\ pc'[q] \in Inside => pc[q] \in Inside
              /\ pc'[q] \in Ready => pc[q] \in Ready
            BY <1>1, <2>1 DEF Inside, Ready
        <3>3. Stores!Readable => Stores!Readable'
            BY <1>5, <2>4, ReadableKept DEF StoreInv
        <3> QED
            BY <3>1, <3>2, <3>3 DEF StoreInv, LeaseInv
    <2>7. FillInv'
        <3>1. SUFFICES ASSUME NEW q \in Procs, pc'[q] = "fill"
                       PROVE  /\ files'[Stores!Path(q)'] = Partial
                              /\ \A o \in Procs :
                                    pc'[o] = "fill" /\ Stores!Path(o)' = Stores!Path(q)'
                                        => o = q
            BY DEF FillInv
        <3>2. \A o \in Procs : Stores!Path(o)' = Stores!Path(o)
            BY <1>5 DEF Stores!Path, Stores!Has
        <3>3. \A o \in Procs : pc'[o] = "fill" /\ o # p =>
                  files[Stores!Path(o)] = Partial /\ Stores!Path(o) # Stores!Path(p)
            BY <1>5, <2>1 DEF StoreInv, FillInv, Stores!StoresAssumption
        <3>4. \A o \in Procs : pc'[o] = "fill" => Stores!Path(o) \in Ids \cup Values
            BY <2>1, <2>2 DEF StoreInv, ShapeInv, Stores!Path, Stores!Requests
        <3>5. files'[Stores!Path(q)] = Partial
            BY <2>3, <3>1, <3>3, <3>4
        <3>6. \A o \in Procs : pc'[o] = "fill" /\ Stores!Path(o) = Stores!Path(q) => o = q
            BY <2>1, <3>1, <3>3 DEF StoreInv, FillInv
        <3> QED
            BY <3>2, <3>5, <3>6
    <2>8. ArtifactInv'
        <3>1. SUFFICES ASSUME Stores!Has("artifacts"), NEW q \in Procs, pc'[q] = "write"
                       PROVE  files'[request[q].value] = request[q].value
            BY <1>5 DEF ArtifactInv, Stores!Has
        <3>2. /\ files[request[q].value] = request[q].value /\ request[q].value \in Values
            BY <2>1, <3>1 DEF StoreInv, ArtifactInv, ShapeInv, Stores!Requests
        <3> QED
            BY <2>4, <3>2
    <2>9. AckInv'
        <3>1. CASE Stores!Has("created once")
            <4>1. \A r \in acked : files[r.id] = r.value /\ files[r.id] # Absent
                BY <2>2, <3>1 DEF StoreInv, AckInv, Stores!StoresAssumption
            <4>2. \A r \in acked : files'[r.id] = r.value
                BY <1>5, <2>2, <2>3, <4>1
            <4> QED
                BY <1>5, <3>1, <4>2 DEF AckInv, Stores!Has
        <3>2. CASE ~Stores!Has("created once")
            BY <1>5, <3>2 DEF StoreInv, AckInv, Stores!Has, Whole, Stores!IsRecord, Logged,
                              Stores!SameContent
        <3> QED
            BY <3>1, <3>2
    <2>10. Stores!LeasedStoreIsSound' /\ Stores!ArtifactBacksReceipt'
        BY <1>1, <1>5, <2>4, LogKept
    <2> QED
        BY <2>5, <2>6, <2>7, <2>8, <2>9, <2>10 DEF StoreInv
<1> QED
    BY <1>2, <1>3, <1>4, <1>5 DEF Stores!OpenFile

\* The artifact is written, and the receipt comes next.
LEMMA FillStep ==
    ASSUME Stores!StoresAssumption, StoreInv, NEW p \in Procs, Stores!FillFile(p), kind' = kind
    PROVE  StoreInv'
<1>1. /\ pc[p] = "fill" /\ request[p] \in Stores!Requests /\ storeFaults' = storeFaults
      /\ storeFaults \in 0 .. MaxStoreFaults
      /\ files' = [files EXCEPT ![Stores!Path(p)] = request[p].value]
      /\ UNCHANGED <<log, terminated, lease>>
    BY DEF Stores!FillFile, Stores!At, StoreInv, ShapeInv, Stores!TypeOK
<1>2. /\ request[p].value \in Values /\ Stores!Path(p) \in Ids \cup Values
      /\ files \in [Ids \cup Values -> Values \cup {Absent, Partial}]
      /\ files[Stores!Path(p)] = Partial
      /\ \A q \in Procs : pc[q] = "fill" /\ Stores!Path(q) = Stores!Path(p) => q = p
    BY <1>1 DEF StoreInv, ShapeInv, Stores!TypeOK, Stores!Requests, Stores!Path, FillInv
<1>3. CASE Stores!Has("created once") /\ Stores!Leave(p) /\ Stores!Acknowledge(p)
    <2>1. files'[request[p].id] = request[p].value
        BY <1>1, <1>2, <1>3 DEF Stores!Path
    <2> QED
        BY <1>1, <1>3, <2>1, Ends DEF Stores!Acknowledge, Stores!At
<1>4. CASE /\ ~Stores!Has("created once") /\ Stores!Goto(p, "write")
           /\ UNCHANGED <<acked, request, view>>
    <2>1. /\ pc' \in [Procs -> Stores!Places] /\ pc'[p] = "write"
          /\ \A q \in Procs : q # p => pc'[q] = pc[q]
        BY <1>4 DEF Stores!Goto, StoreInv, ShapeInv, Stores!TypeOK, Stores!Places
    <2>2. /\ files' \in [Ids \cup Values -> Values \cup {Absent, Partial}]
          /\ \A path \in Ids \cup Values : path # Stores!Path(p) => files'[path] = files[path]
          /\ files'[request[p].value] = request[p].value
        BY <1>1, <1>2, <1>4 DEF Stores!Path
    <2>3. \A v \in Values : files[v] = v => files'[v] = v
        BY <1>2, <2>2 DEF Stores!StoresAssumption
    <2>4. ShapeInv'
        BY <1>1, <1>4, <2>1, <2>2 DEF StoreInv, ShapeInv, Stores!TypeOK, Stores!Has
    <2>5. LeaseInv'
        <3>1. SUFFICES ASSUME Stores!Has("leased"), NEW q \in Procs
                       PROVE  /\ pc'[q] \in Inside => lease = q
                              /\ pc'[q] \in Ready =>
                                    /\ Stores!Readable' /\ view[q] = log
                                    /\ IsNew(request[q]) /\ ~Stores!Forks(request[q])
            BY <1>1, <1>4 DEF LeaseInv, Stores!Has, IsNew, Stores!Forks
        <3>2. /\ pc'[q] \in Inside => pc[q] \in Inside
              /\ pc'[q] \in Ready => pc[q] \in Ready
            BY <1>1, <2>1 DEF Inside, Ready
        <3>3. Stores!Readable => Stores!Readable'
            BY <1>1, <2>3, ReadableKept DEF StoreInv
        <3> QED
            BY <3>1, <3>2, <3>3 DEF StoreInv, LeaseInv
    <2>6. FillInv'
        <3>1. \A q \in Procs : pc'[q] = "fill" =>
                  q # p /\ pc[q] = "fill" /\ request'[q] = request[q]
            BY <1>4, <2>1
        <3>2. \A path \in Ids \cup Values :
                  files'[path] # files[path] => pc[p] = "fill" /\ path = Stores!Path(p)
            BY <1>1, <2>2
        <3> QED
            BY <3>1, <3>2, FillOther DEF StoreInv
    <2>7. ArtifactInv'
        <3>1. SUFFICES ASSUME Stores!Has("artifacts"), NEW q \in Procs, pc'[q] = "write"
                       PROVE  files'[request[q].value] = request[q].value
            BY <1>4 DEF ArtifactInv, Stores!Has
        <3>2. CASE q = p
            BY <2>2, <3>2
        <3>3. CASE q # p
            <4>1. /\ files[request[q].value] = request[q].value /\ request[q].value \in Values
                BY <2>1, <3>1, <3>3 DEF StoreInv, ArtifactInv, ShapeInv, Stores!Requests
            <4> QED
                BY <2>3, <4>1
        <3> QED
            BY <3>2, <3>3
    <2>8. AckInv'
        BY <1>1, <1>4 DEF StoreInv, AckInv, Stores!Has, Whole, Stores!IsRecord, Logged,
                          Stores!SameContent
    <2>9. Stores!LeasedStoreIsSound' /\ Stores!ArtifactBacksReceipt'
        BY <1>1, <2>3, LogKept
    <2> QED
        BY <2>4, <2>5, <2>6, <2>7, <2>8, <2>9 DEF StoreInv
<1> QED
    BY <1>3, <1>4 DEF Stores!FillFile

-----------------------------------------------------------------------------
\* Lines: what the process at its write appends.
LEMMA LineFits ==
    ASSUME Stores!StoresAssumption, ShapeInv, NEW p \in Procs, pc[p] # "idle"
    PROVE  /\ Stores!Line(p) \in Stores!Records /\ Stores!IsRecord(Stores!Line(p))
           /\ Stores!Line(p).id = request[p].id
           /\ Stores!SameContent(Stores!Line(p), request[p])
           /\ Stores!Line(p).value = request[p].value
           /\ Stores!Line(p).parent = request[p].parent
           /\ Stores!Line(p).sequence = Len(view[p]) + 1
<1>1. /\ request[p].id \in Ids /\ request[p].value \in Values /\ request[p].parent \in Values
      /\ view[p] \in Seq(Stores!Records \cup {Torn, Garbage})
    BY DEF ShapeInv, Stores!Requests
<1>2. Len(view[p]) + 1 \in Nat
    BY <1>1
<1> QED
    BY <1>1, <1>2 DEF Stores!Line, Stores!Records, Stores!IsRecord, Stores!SameContent,
                      Stores!StoresAssumption

LEMMA OneMore ==
    ASSUME NEW n \in Nat
    PROVE  /\ n + 1 \in 1 .. n + 1
           /\ \A i \in 1 .. n + 1 : i \in 1 .. n \/ i = n + 1
           /\ \A i \in 1 .. n : i \in 1 .. n + 1
OBVIOUS

LEMMA Predecessor == ASSUME NEW n \in Nat, NEW i \in 1 .. n + 1, i > 1 PROVE i - 1 \in 1 .. n
OBVIOUS

\* Under the lease the reading of the log goes on being true, so that a new record is
\* new and continues the chain.
LEMMA WritesSound ==
    ASSUME Stores!StoresAssumption, StoreInv, NEW p \in Procs, pc[p] = "write",
           NEW line \in {Stores!Line(p), Torn}, log' = Stores!Behind(line),
           terminated' \in BOOLEAN,
           UNCHANGED <<kind, files>>,
           storeFaults' = 0 => storeFaults = 0 /\ line = Stores!Line(p) /\ terminated'
    PROVE  Stores!LeasedStoreIsSound'
<1>1. SUFFICES ASSUME Stores!Has("leased")
               PROVE  /\ storeFaults' = 0 => Stores!Readable'
                      /\ \A pair \in Stores!Pairs' :
                           Stores!IsRecord(log'[pair[1]]) /\ Stores!IsRecord(log'[pair[2]])
                              => log'[pair[1]].id # log'[pair[2]].id
    BY DEF Stores!LeasedStoreIsSound, Stores!Has, Stores!SameId, Stores!IsRecord
<1>2. /\ Stores!Readable /\ view[p] = log /\ IsNew(request[p]) /\ ~Stores!Forks(request[p])
      /\ storeFaults = 0 => Stores!Readable
    BY <1>1 DEF StoreInv, LeaseInv, Ready
<1>3. \A i, j \in DOMAIN log : i < j => log[i].id # log[j].id
    <2>1. SUFFICES ASSUME NEW i \in DOMAIN log, NEW j \in DOMAIN log, i < j
                   PROVE  ~Stores!SameId(i, j)
        BY DEF Stores!SameId
    <2>2. <<i, j>> \in Stores!Pairs
        BY <2>1 DEF Stores!Pairs
    <2>3. Stores!IsRecord(log[i]) /\ Stores!IsRecord(log[j])
        BY <1>2 DEF Stores!Readable
    <2> QED
        BY <1>1, <2>2, <2>3 DEF StoreInv, Stores!LeasedStoreIsSound
<1>4. /\ Stores!IsRecord(Stores!Line(p)) /\ Stores!Line(p).id = request[p].id
      /\ Stores!Line(p).value = request[p].value /\ Stores!Line(p).parent = request[p].parent
      /\ Stores!Line(p).sequence = Len(log) + 1
    BY <1>2, LineFits DEF StoreInv
<1>5. line = Torn => ~Stores!IsRecord(line)
    BY DEF Stores!IsRecord
<1>6. ASSUME NEW i \in DOMAIN log', NEW j \in DOMAIN log', i < j,
             Stores!IsRecord(log'[i]), Stores!IsRecord(log'[j])
      PROVE  log'[i].id # log'[j].id
    <2>1. CASE terminated
        <3>1. /\ i \in DOMAIN log /\ log'[i] = log[i]
              /\ j \notin DOMAIN log => j = Len(log) + 1 /\ log'[j] = line
              /\ j \in DOMAIN log => log'[j] = log[j]
            BY <1>6, <2>1, Appended DEF StoreInv
        <3>2. CASE j \in DOMAIN log
            BY <1>3, <1>6, <3>1, <3>2
        <3>3. CASE j \notin DOMAIN log
            <4>1. log'[j].id = request[p].id
                BY <1>4, <1>5, <1>6, <3>1, <3>3
            <4> QED
                BY <1>2, <3>1, <4>1 DEF IsNew
        <3> QED
            BY <3>2, <3>3
    <2>2. CASE ~terminated
        <3>1. /\ i \in DOMAIN log /\ j \in DOMAIN log
              /\ i # Len(log) /\ j # Len(log)
            BY <1>6, <2>2, Appended DEF StoreInv, Stores!IsRecord
        <3>2. log'[i] = log[i] /\ log'[j] = log[j]
            BY <2>2, <3>1, Appended DEF StoreInv
        <3> QED
            BY <1>3, <1>6, <3>1, <3>2
    <2> QED
        BY <2>1, <2>2
<1>7. ASSUME storeFaults' = 0 PROVE Stores!Readable'
    <2>1. storeFaults = 0 /\ line = Stores!Line(p) /\ terminated' = TRUE
        BY <1>7
    <2>2. terminated /\ Stores!Readable
        BY <1>2, <2>1 DEF StoreInv, ShapeInv
    <2>3. /\ DOMAIN log' = 1 .. Len(log) + 1 /\ DOMAIN log = 1 .. Len(log) /\ Len(log) \in Nat
          /\ log'[Len(log) + 1] = Stores!Line(p)
          /\ \A i \in DOMAIN log : log'[i] = log[i]
        BY <2>1, <2>2, Appended DEF StoreInv
    <2>4. \A i \in DOMAIN log' : i \in DOMAIN log \/ i = Len(log) + 1
        BY <2>3
    <2>5. \A i \in DOMAIN log' : Stores!IsRecord(log'[i])
        BY <1>4, <2>2, <2>3, <2>4 DEF Stores!Readable, Stores!IsRecord
    <2>6. Stores!Has("chained") => \A i \in DOMAIN log' : log'[i].sequence = i
        BY <1>4, <2>2, <2>3, <2>4 DEF Stores!Readable
    <2>7. Stores!Has("parents chained") =>
              \A i \in DOMAIN log' : i > 1 => log'[i].parent = log'[i - 1].value
        <3>1. SUFFICES ASSUME Stores!Has("parents chained"), NEW i \in DOMAIN log', i > 1
                       PROVE  log'[i].parent = log'[i - 1].value
            OBVIOUS
        <3>2. i - 1 \in DOMAIN log /\ log'[i - 1] = log[i - 1]
            <4>1. i \in 1 .. Len(log) + 1 /\ Len(log) \in Nat
                BY <2>3, <3>1
            <4>2. i - 1 \in 1 .. Len(log)
                BY <3>1, <4>1, Predecessor
            <4> QED
                BY <2>3, <4>2
        <3>3. CASE i \in DOMAIN log
            BY <2>2, <2>3, <3>1, <3>2, <3>3 DEF Stores!Readable
        <3>4. CASE i = Len(log) + 1
            <4>0. kind \in Kinds
                BY DEF StoreInv, ShapeInv, Stores!TypeOK
            <4>1. Stores!Has("parent")
                BY <3>1, <4>0, Combinations
            <4>2. log # <<>>
                BY <3>2
            <4>3. request[p].parent = log[Len(log)].value
                BY <1>2, <4>1, <4>2 DEF Stores!Forks
            <4> QED
                BY <1>4, <2>3, <3>2, <3>4, <4>3
        <3> QED
            BY <2>4, <3>3, <3>4
    <2>8. Stores!Has("artifacts") => \A i \in DOMAIN log' : files[log'[i].value] = log'[i].value
        <3>1. Stores!Has("artifacts") => files[request[p].value] = request[p].value
            BY DEF StoreInv, ArtifactInv
        <3>2. SUFFICES ASSUME Stores!Has("artifacts"), NEW i \in DOMAIN log'
                       PROVE  files[log'[i].value] = log'[i].value
            OBVIOUS
        <3>3. CASE i \in DOMAIN log
            <4>1. log'[i] = log[i]
                BY <2>3, <3>3
            <4>2. files[log[i].value] = log[i].value
                BY <2>2, <3>2, <3>3 DEF Stores!Readable
            <4> QED
                BY <4>1, <4>2
        <3>4. CASE i = Len(log) + 1
            <4>1. log'[i] = Stores!Line(p)
                BY <2>3, <3>4
            <4> QED
                BY <1>4, <3>1, <3>2, <4>1
        <3> QED
            BY <2>4, <3>3, <3>4
    <2>9. \A pair \in Stores!Pairs' : log'[pair[1]].id # log'[pair[2]].id
        BY <1>6, <2>5 DEF Stores!Pairs
    <2> QED
        BY <2>1, <2>5, <2>6, <2>7, <2>8, <2>9 DEF Stores!Readable, Stores!SameId, Stores!Has,
                                                  Stores!IsRecord
<1> QED
    BY <1>6, <1>7 DEF Stores!Pairs

\* An acknowledged record is lost only with a line of the file, and the index, which
\* reads its tail, never writes behind an unterminated one.
LEMMA WritesKeep ==
    ASSUME Stores!StoresAssumption, StoreInv, NEW p \in Procs, pc[p] = "write",
           NEW line \in {Stores!Line(p), Torn}, log' = Stores!Behind(line),
           UNCHANGED <<kind, files>>,
           \/ acked' = acked
           \/ /\ acked' = acked \cup {request[p]}
              /\ line = Stores!Line(p) \/ ~Stores!Has("length checked")
    PROVE  AckInv'
<1>1. ~Stores!Has("created once") /\ kind \in Kinds
    BY DEF StoreInv, ShapeInv, Stores!TypeOK
<1>2. SUFFICES ASSUME Whole' \/ Stores!Has("tail checked")
               PROVE  \A r \in acked' : Logged(r)'
    BY <1>1 DEF AckInv, Stores!Has
<1>3. Stores!Has("tail checked") => terminated /\ Stores!Has("length checked")
    <2>1. Stores!Has("tail checked") => Stores!Has("leased") /\ Stores!Has("length checked")
        BY <1>1, Combinations
    <2>2. Stores!Has("leased") => Stores!Readable
        BY DEF StoreInv, LeaseInv, Ready
    <2> QED
        BY <2>1, <2>2 DEF Stores!Readable
<1>4. terminated
    <2>1. ~terminated => Len(log) \in DOMAIN log' /\ log'[Len(log)] = Garbage
        BY Appended DEF StoreInv
    <2>2. Whole' => \A i \in DOMAIN log' : log'[i] # Garbage
        BY DEF Whole, Stores!IsRecord
    <2> QED
        BY <1>2, <1>3, <2>1, <2>2
<1>5. /\ DOMAIN log' = 1 .. Len(log) + 1 /\ DOMAIN log = 1 .. Len(log) /\ Len(log) \in Nat
      /\ log'[Len(log) + 1] = line
      /\ \A i \in DOMAIN log : log'[i] = log[i]
    BY <1>4, Appended DEF StoreInv
<1>6. Len(log) + 1 \in DOMAIN log' /\ \A i \in DOMAIN log : i \in DOMAIN log'
    BY <1>5, OneMore
<1>7. ASSUME NEW r \in acked PROVE Logged(r)'
    <2>1. Whole' => Whole
        BY <1>5, <1>6 DEF Whole, Stores!IsRecord
    <2>2. Logged(r)
        BY <1>1, <1>2, <2>1 DEF StoreInv, AckInv
    <2> QED
        BY <1>5, <1>6, <2>2 DEF Logged, Stores!IsRecord, Stores!SameContent, Stores!Has
<1>8. ASSUME NEW r, r = request[p], acked' # acked PROVE Logged(r)'
    <2>1. line = Stores!Line(p)
        <3>1. line # Torn \/ ~Whole'
            BY <1>5, <1>6 DEF Whole, Stores!IsRecord
        <3> QED
            BY <1>2, <1>3, <1>8, <3>1
    <2>2. /\ Stores!IsRecord(Stores!Line(p)) /\ Stores!Line(p).id = r.id
          /\ Stores!SameContent(Stores!Line(p), r)
        BY <1>8, LineFits DEF StoreInv
    <2>3. log'[Len(log) + 1] = Stores!Line(p) /\ Len(log) + 1 \in DOMAIN log'
        BY <1>5, <1>6, <2>1
    <2> QED
        BY <2>2, <2>3 DEF Logged, Stores!IsRecord, Stores!SameContent, Stores!Has
<1> QED
    BY <1>7, <1>8

LEMMA Writes ==
    ASSUME Stores!StoresAssumption, StoreInv, NEW p \in Procs, pc[p] = "write", Stores!Leave(p),
           NEW line \in {Stores!Line(p), Torn}, log' = Stores!Behind(line),
           terminated' \in BOOLEAN,
           UNCHANGED <<kind, files>>,
           \/ lease' = lease /\ lease # p
           \/ lease = p /\ lease' \in {Nobody, Dead},
           \/ acked' = acked
           \/ /\ acked' = acked \cup {request[p]}
              /\ line = Stores!Line(p) \/ ~Stores!Has("length checked"),
           storeFaults' \in 0 .. MaxStoreFaults,
           storeFaults' = 0 => storeFaults = 0 /\ line = Stores!Line(p) /\ terminated'
    PROVE  StoreInv'
<1>1. /\ pc' \in [Procs -> Stores!Places]
      /\ request' \in [Procs -> Stores!Requests \cup {Stores!NoRequest}]
      /\ view' \in [Procs -> Seq(Stores!Records \cup {Torn, Garbage})]
      /\ pc'[p] = "idle"
      /\ \A q \in Procs \ {p} :
            pc'[q] = pc[q] /\ request'[q] = request[q] /\ view'[q] = view[q]
    BY Left DEF StoreInv
<1>2. ShapeInv'
    <2>1. line \in Stores!Records \cup {Torn, Garbage}
        BY LineFits DEF StoreInv
    <2>2. log' \in Seq(Stores!Records \cup {Torn, Garbage}) /\ log' # <<>>
        BY <2>1, AppendedType DEF StoreInv
    <2>3. request[p] \in Stores!Requests
        BY DEF StoreInv, ShapeInv
    <2>4. Stores!TypeOK'
        BY <1>1, <2>2, <2>3 DEF StoreInv, ShapeInv, Stores!TypeOK, Stores!StoresAssumption
    <2> QED
        BY <1>1, <2>2, <2>4 DEF StoreInv, ShapeInv, Stores!Has
<1>3. LeaseInv'
    <2>1. SUFFICES ASSUME Stores!Has("leased"), NEW q \in Procs
                   PROVE  pc'[q] \notin Inside
        BY DEF LeaseInv, Stores!Has, Inside, Ready
    <2>2. CASE q = p
        BY <1>1, <2>2 DEF Inside
    <2>3. CASE q # p
        <3>1. /\ lease = p
              /\ pc[q] \in Inside => lease = q
            BY <2>1 DEF StoreInv, LeaseInv, Inside
        <3> QED
            BY <1>1, <2>3, <3>1
    <2> QED
        BY <2>2, <2>3
<1>4. FillInv'
    <2>1. \A q \in Procs : pc'[q] = "fill" => pc[q] = "fill" /\ request'[q] = request[q]
        BY <1>1
    <2> QED
        BY <2>1, FillKept DEF StoreInv
<1>5. ArtifactInv'
    BY <1>1 DEF StoreInv, ArtifactInv, Stores!Has
<1>6. Stores!ArtifactBacksReceipt'
    <2>1. SUFFICES ASSUME Stores!Has("artifacts"), NEW i \in DOMAIN log',
                          Stores!IsRecord(log'[i])
                   PROVE  files[log'[i].value] = log'[i].value
        BY DEF Stores!ArtifactBacksReceipt, Stores!Lines, Stores!Has, Stores!IsRecord
    <2>2. ASSUME NEW j \in DOMAIN log, Stores!IsRecord(log[j])
          PROVE  files[log[j].value] = log[j].value
        BY <2>1, <2>2 DEF StoreInv, Stores!ArtifactBacksReceipt, Stores!Lines
    <2>3. \/ log'[i] = line
          \/ i \in DOMAIN log /\ log'[i] = log[i]
          \/ log'[i] = Garbage
        <3>1. CASE terminated
            <4>1. /\ DOMAIN log' = 1 .. Len(log) + 1 /\ DOMAIN log = 1 .. Len(log)
                  /\ Len(log) \in Nat /\ log'[Len(log) + 1] = line
                  /\ \A j \in DOMAIN log : log'[j] = log[j]
                BY <3>1, Appended DEF StoreInv
            <4>2. i \in DOMAIN log \/ i = Len(log) + 1
                BY <2>1, <4>1, OneMore
            <4> QED
                BY <4>1, <4>2
        <3>2. CASE ~terminated
            <4>1. /\ DOMAIN log' = DOMAIN log /\ log'[Len(log)] = Garbage
                  /\ \A j \in DOMAIN log : j # Len(log) => log'[j] = log[j]
                BY <3>2, Appended DEF StoreInv
            <4> QED
                BY <2>1, <4>1
        <3> QED
            BY <3>1, <3>2
    <2>4. /\ files[request[p].value] = request[p].value
          /\ Stores!Line(p).value = request[p].value
        BY <2>1, LineFits DEF StoreInv, ArtifactInv
    <2> QED
        BY <2>1, <2>2, <2>3, <2>4 DEF Stores!IsRecord
<1>7. AckInv'
    BY WritesKeep
<1>8. Stores!LeasedStoreIsSound'
    BY WritesSound
<1> QED
    BY <1>2, <1>3, <1>4, <1>5, <1>6, <1>7, <1>8 DEF StoreInv

-----------------------------------------------------------------------------
(* The steps, one by one.                                                  *)

LEMMA PlaceNames ==
    /\ {"read", "file", "lease", "locked", "write"} \subseteq Stores!Places \ {"idle", "fill"}
    /\ "read" \notin Inside /\ "lease" \notin Inside /\ "locked" \notin Ready
    /\ Ready \subseteq Inside /\ "idle" \notin Inside
BY DEF Stores!Places, Inside, Ready

LEMMA Shapes ==
    ASSUME Stores!StoresAssumption, StoreInv
    PROVE  /\ request \in [Procs -> Stores!Requests \cup {Stores!NoRequest}]
           /\ view \in [Procs -> Seq(Stores!Records \cup {Torn, Garbage})]
           /\ log \in Seq(Stores!Records \cup {Torn, Garbage})
           /\ pc \in [Procs -> Stores!Places] /\ kind \in Kinds
           /\ storeFaults \in 0 .. MaxStoreFaults
           /\ MaxStoreFaults \in Nat
           /\ \A p \in Procs : pc[p] # "idle" => request[p] \in Stores!Requests
BY DEF Stores!StoresAssumption, StoreInv, ShapeInv, Stores!TypeOK

LEMMA OneFault ==
    ASSUME Stores!StoresAssumption, StoreInv, storeFaults < MaxStoreFaults
    PROVE  storeFaults + 1 \in 0 .. MaxStoreFaults /\ storeFaults + 1 # 0
<1>1. storeFaults \in 0 .. MaxStoreFaults /\ MaxStoreFaults \in Nat
    BY Shapes
<1> QED
    BY <1>1

\* A reader that was not refused and finds nothing to replay has a new record.
LEMMA NothingFound ==
    ASSUME Stores!StoresAssumption, StoreInv, Stores!Has("leased"),
           NEW r, ~Stores!Refused(r), ~Stores!Replayed(r)
    PROVE  Stores!Readable /\ IsNew(r) /\ ~Stores!Forks(r)
<1>1. Stores!Readable /\ Stores!Prior(r) = {} /\ ~Stores!Forks(r)
    <2>1. Stores!Readable /\ \A row \in Stores!Prior(r) : Stores!SameContent(row, r)
        BY DEF Stores!Refused
    <2>2. Stores!Prior(r) = {}
        BY <2>1 DEF Stores!Replayed
    <2> QED
        BY <2>1, <2>2 DEF Stores!Refused
<1>2. ASSUME NEW i \in DOMAIN log, log[i].id = r.id PROVE FALSE
    <2>1. DOMAIN log \subseteq Nat
        BY Shapes
    <2>2. ASSUME NEW k \in DOMAIN log, log[k].id = r.id PROVE k = i
        <3>1. CASE k < i
            <4>1. <<k, i>> \in Stores!Pairs /\ Stores!SameId(k, i)
                BY <1>2, <2>2, <3>1 DEF Stores!Pairs, Stores!SameId
            <4> QED
                BY <1>1, <4>1 DEF StoreInv, Stores!LeasedStoreIsSound, Stores!Readable
        <3>2. CASE i < k
            <4>1. <<i, k>> \in Stores!Pairs /\ Stores!SameId(i, k)
                BY <1>2, <2>2, <3>2 DEF Stores!Pairs, Stores!SameId
            <4> QED
                BY <1>1, <4>1 DEF StoreInv, Stores!LeasedStoreIsSound, Stores!Readable
        <3> QED
            BY <2>1, <3>1, <3>2
    <2>3. log[i] \in Stores!Prior(r)
        BY <1>2, <2>1, <2>2 DEF Stores!Prior
    <2> QED
        BY <1>1, <2>3
<1> QED
    BY <1>1, <1>2 DEF IsNew

\* What a reader replays is in the log.
LEMMA ReplayedIsLogged ==
    ASSUME StoreInv, NEW r, Stores!Replayed(r) PROVE Logged(r)
<1>1. PICK row \in Stores!Prior(r) : Stores!SameContent(row, r)
    BY DEF Stores!Replayed
<1>2. PICK i \in DOMAIN log : log[i] = row /\ log[i].id = r.id
    BY <1>1 DEF Stores!Prior
<1> QED
    BY <1>1, <1>2 DEF Stores!Replayed, Stores!Readable, Logged

LEMMA CallStep ==
    ASSUME Stores!StoresAssumption, StoreInv, NEW p \in Procs, Stores!Call(p), kind' = kind
    PROVE  StoreInv'
<1>1. PICK id \in Ids, value \in Values, parent \in Values :
         request' = [request EXCEPT ![p] = [id |-> id, value |-> value, parent |-> parent]]
    BY DEF Stores!Call
<1>2. /\ request' \in [Procs -> Stores!Requests \cup {Stores!NoRequest}]
      /\ request'[p] \in Stores!Requests
      /\ \A q \in Procs \ {p} : request'[q] = request[q]
    BY <1>1, Shapes DEF Stores!Requests
<1>3. /\ UNCHANGED <<log, terminated, files, lease, view, acked, storeFaults>>
      /\ view' \in [Procs -> Seq(Stores!Records \cup {Torn, Garbage})]
    BY Shapes DEF Stores!Call
<1>4. PICK place \in {"read", "file", "lease"} :
         /\ Stores!Goto(p, place)
         /\ place = "file" <=> Stores!Has("created once")
    <2>1. Stores!Has("created once") => ~Stores!Has("read first")
        BY Combinations, Shapes
    <2> QED
        BY <2>1 DEF Stores!Call
<1>5. Stores!Has("created once") => ~Stores!Has("leased") /\ ~Stores!Has("artifacts")
    BY Combinations, Shapes
<1> QED
    BY <1>2, <1>3, <1>4, <1>5, PlaceNames, MovesOn

LEMMA ReadStep ==
    ASSUME Stores!StoresAssumption, StoreInv, NEW p \in Procs, Stores!Read(p), kind' = kind
    PROVE  StoreInv'
<1>1. pc[p] = "read" /\ storeFaults' = storeFaults /\ storeFaults' \in 0 .. MaxStoreFaults
    BY Shapes DEF Stores!Read, Stores!At
<1>2. ~Stores!Has("created once")
    BY <1>1 DEF StoreInv, ShapeInv
<1>3. CASE Stores!Raise(p)
    BY <1>1, <1>3, Ends DEF Stores!Raise, Stores!Released
<1>4. CASE Stores!Replayed(request[p]) /\ Stores!Return(p)
    <2>1. Logged(request[p])
        BY <1>4, ReplayedIsLogged
    <2> QED
        BY <1>1, <1>2, <1>4, <2>1, Ends DEF Stores!Return, Stores!Released, Stores!Acknowledge
<1>5. CASE /\ view' = [view EXCEPT ![p] = log]
           /\ Stores!Goto(p, IF Stores!Has("leased") THEN "lease" ELSE "write")
           /\ UNCHANGED <<log, terminated, files, lease, acked, request>>
    <2>1. /\ view' \in [Procs -> Seq(Stores!Records \cup {Torn, Garbage})]
          /\ \A q \in Procs \ {p} : view'[q] = view[q]
          /\ request' \in [Procs -> Stores!Requests \cup {Stores!NoRequest}]
          /\ request'[p] \in Stores!Requests
        BY <1>1, <1>5, Shapes
    <2>2. PICK place \in {"lease", "write"} :
             Stores!Goto(p, place) /\ (Stores!Has("leased") => place = "lease")
        BY <1>5
    <2>3. Stores!Has("artifacts") => Stores!Has("leased")
        BY Combinations, Shapes
    <2> QED
        BY <1>1, <1>2, <1>5, <2>1, <2>2, <2>3, PlaceNames, MovesOn
<1> QED
    BY <1>3, <1>4, <1>5 DEF Stores!Read

LEMMA TakeStep ==
    ASSUME Stores!StoresAssumption, StoreInv, NEW p \in Procs, Stores!TakeLease(p), kind' = kind
    PROVE  StoreInv'
<1>1. pc[p] = "lease" /\ storeFaults' = storeFaults /\ storeFaults' \in 0 .. MaxStoreFaults
    BY Shapes DEF Stores!TakeLease, Stores!At
<1>2. ~Stores!Has("created once")
    BY <1>1 DEF StoreInv, ShapeInv
<1>3. CASE Stores!Raise(p)
    BY <1>1, <1>3, Ends DEF Stores!Raise, Stores!Released
<1>4. CASE /\ lease = Nobody /\ lease' = p /\ Stores!Goto(p, "locked")
           /\ UNCHANGED <<log, terminated, files, acked, request, view>>
    BY <1>1, <1>2, <1>4, Shapes, PlaceNames, MovesOn
<1> QED
    BY <1>3, <1>4 DEF Stores!TakeLease

LEMMA LockedStep ==
    ASSUME Stores!StoresAssumption, StoreInv, NEW p \in Procs, Stores!ReadLocked(p),
           kind' = kind
    PROVE  StoreInv'
<1>1. pc[p] = "locked" /\ storeFaults' = storeFaults /\ storeFaults' \in 0 .. MaxStoreFaults
    BY Shapes DEF Stores!ReadLocked, Stores!At
<1>2. ~Stores!Has("created once")
    BY <1>1 DEF StoreInv, ShapeInv
<1>3. CASE Stores!Raise(p)
    BY <1>1, <1>3, Ends DEF Stores!Raise, Stores!Released
<1>4. CASE Stores!Replayed(request[p]) /\ Stores!Return(p)
    <2>1. Logged(request[p])
        BY <1>4, ReplayedIsLogged
    <2> QED
        BY <1>1, <1>2, <1>4, <2>1, Ends DEF Stores!Return, Stores!Released, Stores!Acknowledge
<1>5. CASE /\ ~Stores!Refused(request[p]) /\ ~Stores!Replayed(request[p])
           /\ view' = [view EXCEPT ![p] = log]
           /\ Stores!Goto(p, IF Stores!Has("artifacts") THEN "file" ELSE "write")
           /\ UNCHANGED <<log, terminated, files, lease, acked, request>>
    <2>1. /\ view' \in [Procs -> Seq(Stores!Records \cup {Torn, Garbage})] /\ view'[p] = log
          /\ \A q \in Procs \ {p} : request'[q] = request[q] /\ view'[q] = view[q]
          /\ request' \in [Procs -> Stores!Requests \cup {Stores!NoRequest}]
          /\ request'[p] \in Stores!Requests
        BY <1>1, <1>5, Shapes
    <2>2. PICK place \in {"file", "write"} :
             Stores!Goto(p, place) /\ (Stores!Has("artifacts") => place = "file")
        BY <1>5
    <2>3. Stores!Has("leased") => /\ lease' = p
                                  /\ Stores!Readable /\ IsNew(request'[p])
                                  /\ ~Stores!Forks(request'[p])
        BY <1>1, <1>5, NothingFound DEF StoreInv, LeaseInv, Inside
    <2>4. lease' = lease /\ UNCHANGED <<kind, log, terminated, files, acked, storeFaults>>
        BY <1>1, <1>5
    <2>5. /\ place \in Stores!Places \ {"idle", "fill"}
          /\ Stores!Has("leased") => /\ place \in Inside => lease' = p
                                     /\ place \in Ready => /\ Stores!Readable /\ view'[p] = log
                                                           /\ IsNew(request'[p])
                                                           /\ ~Stores!Forks(request'[p])
          /\ ~(Stores!Has("artifacts") /\ place = "write")
        BY <2>1, <2>2, <2>3, PlaceNames
    <2> QED
        BY <1>2, <2>1, <2>2, <2>4, <2>5, MovesOn
<1> QED
    BY <1>3, <1>4, <1>5 DEF Stores!ReadLocked

LEMMA ShortFillStep ==
    ASSUME Stores!StoresAssumption, StoreInv, NEW p \in Procs, Stores!FillShort(p), kind' = kind
    PROVE  StoreInv'
<1>1. /\ pc[p] # "idle" /\ storeFaults' = storeFaults + 1 /\ storeFaults < MaxStoreFaults
      /\ Stores!Raise(p)
    BY DEF Stores!FillShort, Stores!At
<1>2. storeFaults' \in 0 .. MaxStoreFaults /\ storeFaults' # 0
    BY <1>1, OneFault
<1> QED
    BY <1>1, <1>2, Ends DEF Stores!Raise, Stores!Released

LEMMA WriteStep ==
    ASSUME Stores!StoresAssumption, StoreInv, NEW p \in Procs, Stores!Write(p), kind' = kind
    PROVE  StoreInv'
<1>1. /\ pc[p] = "write" /\ log' = Stores!Behind(Stores!Line(p)) /\ terminated' = TRUE
      /\ Stores!Leave(p)
      /\ UNCHANGED <<kind, files>> /\ storeFaults' = storeFaults
      /\ storeFaults' \in 0 .. MaxStoreFaults
      /\ acked' = acked \cup {request[p]}
    BY Shapes DEF Stores!Write, Stores!At, Stores!Acknowledge
<1>2. \/ lease' = lease /\ lease # p
      \/ lease = p /\ lease' \in {Nobody, Dead}
    BY DEF Stores!Write, Stores!Released
<1> QED
    BY <1>1, <1>2, Writes

LEMMA ShortWriteStep ==
    ASSUME Stores!StoresAssumption, StoreInv, NEW p \in Procs, Stores!WriteShort(p),
           kind' = kind
    PROVE  StoreInv'
<1>1. /\ pc[p] = "write" /\ log' = Stores!Behind(Torn) /\ terminated' = FALSE /\ Stores!Leave(p)
      /\ UNCHANGED <<kind, files>> /\ storeFaults' = storeFaults + 1
      /\ storeFaults < MaxStoreFaults
      /\ \/ acked' = acked
         \/ acked' = acked \cup {request[p]} /\ ~Stores!Has("length checked")
    BY DEF Stores!WriteShort, Stores!At, Stores!Acknowledge
<1>2. \/ lease' = lease /\ lease # p
      \/ lease = p /\ lease' \in {Nobody, Dead}
    BY DEF Stores!WriteShort, Stores!Released
<1>3. storeFaults' \in 0 .. MaxStoreFaults /\ storeFaults' # 0
    BY <1>1, OneFault
<1> QED
    BY <1>1, <1>2, <1>3, Writes

LEMMA KillStep ==
    ASSUME Stores!StoresAssumption, StoreInv, NEW p \in Procs, Stores!Kill(p), kind' = kind
    PROVE  StoreInv'
<1>1. /\ pc[p] # "idle" /\ storeFaults' = storeFaults + 1 /\ storeFaults < MaxStoreFaults
      /\ Stores!Leave(p)
      /\ acked' = acked
    BY DEF Stores!Kill
<1>2. \/ lease' = lease /\ lease # p
      \/ lease = p /\ lease' \in {Nobody, Dead}
    BY DEF Stores!Kill
<1>3. storeFaults' \in 0 .. MaxStoreFaults /\ storeFaults' # 0
    BY <1>1, OneFault
<1>4. CASE /\ UNCHANGED <<log, terminated>>
           /\ \/ files' = files
              \/ /\ Stores!At(p, "fill")
                 /\ files' = [files EXCEPT ![Stores!Path(p)] = request[p].value]
    BY <1>1, <1>2, <1>3, <1>4, Ends
<1>5. ASSUME Stores!At(p, "write"), files' = files, terminated' \in BOOLEAN,
             NEW line \in {Stores!Line(p), Torn}, log' = Stores!Behind(line)
      PROVE  StoreInv'
    BY <1>1, <1>2, <1>3, <1>5, Writes DEF Stores!At
<1> QED
    BY <1>4, <1>5 DEF Stores!Kill

\* The lease file of a killed process is nobody's.
LEMMA Rests ==
    ASSUME Stores!StoresAssumption, StoreInv,
           UNCHANGED <<kind, log, terminated, files, pc, request, view, acked, storeFaults>>,
           lease' = lease \/ (lease = Dead /\ lease' = Nobody)
    PROVE  StoreInv'
<1>1. ShapeInv'
    BY DEF StoreInv, ShapeInv, Stores!TypeOK, Stores!Has
<1>2. LeaseInv'
    <2>1. SUFFICES ASSUME Stores!Has("leased"), NEW q \in Procs
                   PROVE  /\ pc[q] \in Inside => lease' = q
                          /\ pc[q] \in Ready =>
                                /\ Stores!Readable /\ view[q] = log
                                /\ IsNew(request[q]) /\ ~Stores!Forks(request[q])
        BY DEF LeaseInv, Stores!Has, Stores!Readable, Stores!Pairs, Stores!SameId, IsNew,
               Stores!Forks, Stores!IsRecord
    <2> QED
        BY <2>1 DEF StoreInv, LeaseInv, Stores!StoresAssumption
<1>3. FillInv' /\ ArtifactInv'
    BY FillKept DEF StoreInv, ArtifactInv, Stores!Has
<1>4. AckInv'
    BY DEF StoreInv, AckInv, Stores!Has, Whole, Logged, Stores!IsRecord, Stores!SameContent
<1>5. Stores!LeasedStoreIsSound' /\ Stores!ArtifactBacksReceipt'
    BY LogKept
<1> QED
    BY <1>1, <1>2, <1>3, <1>4, <1>5 DEF StoreInv

LEMMA StoreNext == ASSUME Stores!StoresAssumption, StoreInv, [Stores!Next]_(Stores!vars)
PROVE  StoreInv'
<1>1. ASSUME NEW p \in Procs, Stores!Step(p), kind' = kind PROVE StoreInv'
    BY <1>1, CallStep, ReadStep, TakeStep, LockedStep, OpenStep, FillStep, ShortFillStep,
       WriteStep, ShortWriteStep, KillStep DEF Stores!Step
<1>2. CASE Stores!RemoveStaleLease /\ kind' = kind
    BY <1>2, Rests DEF Stores!RemoveStaleLease
<1>3. CASE UNCHANGED Stores!vars
    BY <1>3, Rests DEF Stores!vars
<1> QED
    BY <1>1, <1>2, <1>3 DEF Stores!Next

-----------------------------------------------------------------------------
\* A behaviour that looks at a store is one of the store to the end.
LEMMA StoreInvariance == PartSpec => [](part = "store" => StoreInv)
<1>1. PartInit => (part = "store" => StoreInv)
    BY StoreInit, PortfolioStoresAssumption DEF PartInit, StartPortfolio, StartStore
<1>2. ASSUME part = "store" => StoreInv, [PartNext]_<<vars, store, part>>, part' = "store"
      PROVE  StoreInv'
    <2>1. part = "store" /\ [Stores!Next]_(Stores!vars)
        BY <1>2 DEF PartNext, store, Stores!vars
    <2> QED
        BY <1>2, <2>1, StoreNext, PortfolioStoresAssumption
<1>3. (part = "store" => StoreInv) /\ [PartNext]_<<vars, store, part>>
         => (part = "store" => StoreInv)'
    BY <1>2
<1> QED
    BY <1>1, <1>3, PTL DEF PartSpec

\* A record whose append returned is in the file for every reader that returns at all,
\* whatever is killed or written short; the index, which reads its tail before it
\* writes, keeps it even where no reader returns.
THEOREM AcknowledgedRecordsAreFound == PartSpec => []AcknowledgedIsFound
<1>1. ASSUME StoreInv PROVE Stores!AcknowledgedIsFound
    <2>1. ~Stores!Has("created once") => \A r : Logged(r) => Stores!Found(r)
        BY DEF Logged, Stores!Found, Stores!Lines, Stores!IsRecord
    <2>2. Stores!Readable => Whole
        BY DEF Stores!Readable, Whole
    <2> QED
        BY <1>1, <2>1, <2>2 DEF StoreInv, AckInv, Stores!AcknowledgedIsFound, Stores!Found
<1>2. (part = "store" => StoreInv) => AcknowledgedIsFound
    BY <1>1 DEF AcknowledgedIsFound
<1> QED
    BY <1>2, StoreInvariance, PTL

\* A store with a lease never holds two records of one identity and is unreadable only
\* after a kill or a short write; a receipt in the log has its whole artifact.
THEOREM StoresAreSound == PartSpec => []StoredIsSound
<1>1. (part = "store" => StoreInv) => StoredIsSound
    BY DEF StoreInv, StoredIsSound
<1> QED
    BY <1>1, StoreInvariance, PTL
=============================================================================
