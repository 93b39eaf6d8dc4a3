----------------------------- MODULE Portfolio -----------------------------
(***************************************************************************)
(* PortfolioOrchestrator: one round trip takes the failure Claim of a      *)
(* parent AgentProgram, has a Teacher compile a Skill for the gap and an   *)
(* authority validate it, composes a program that extends the parent by    *)
(* the capability, lets both fight a tournament and records the decision.  *)
(* A repeated request is answered from the records.  The Teacher, the      *)
(* Skill authority and the tournament are external; a kill may fall before *)
(* any durable step and inside an append, bundles may change on disk and   *)
(* Claims be superseded.  Hash and schema checks are the equality of what  *)
(* they bind; the key that signs a promotion decision stays the same.      *)
(***************************************************************************)
EXTENDS Tournament, Sequences, FiniteSets

CONSTANTS
    Trips,        \* round trip identities
    Revisions,    \* Skill revisions a Teacher may compile
    Contents,     \* bytes a bundle may hold
    Outcomes,     \* classifications a tournament may end with
    Approvals,    \* promotion decisions an authority may return
    None,
    MaxDepth,     \* bound on the capabilities of a composed program
    MaxFaults     \* bound on kills, alterations and superseded Claims

ASSUME PortfolioAssumption ==
    /\ MaxDepth \in Nat \ {0} /\ MaxFaults \in Nat
    /\ None \notin Contents /\ Outcomes \subseteq Classifications \ {"regression"}

\* A program is the sequence of what it was composed with: the registered root
\* program is the empty one.
Root == <<>>

VARIABLES
    parentOf,      \* trip -> the parent program its request names, once it was made
    claim,         \* trip -> number of the latest version of each of its Claims
    bundle,        \* trip -> content of the bundle its Teacher compiled, on disk
    gaps, decisions,              \* the two portfolio logs
    candidates, capabilities,     \* the Skill registries
    partial, frozen, programs,    \* program directories, program registry
    judged,        \* program -> classifications its tournament recorded
    cut,           \* logs and registries that hold part of a line, or a dead writer's lease
    run,           \* the running round trip
    reported, faults

disk == <<bundle, gaps, decisions, candidates, capabilities, partial, frozen,
          programs, judged, cut>>
vars == <<parentOf, claim, disk, run, reported, faults>>

\* The Claims of a trip: of the failure, of the Skill's gains, of the tournament.
First == [failure |-> 1, skill |-> 1, fight |-> 1]

Idle == [pc |-> "down", trip |-> None, gap |-> None, skill |-> None, claims |-> First]

Init ==
    /\ parentOf = [t \in Trips |-> {}]
    /\ claim = [t \in Trips |-> First]
    /\ bundle = [t \in Trips |-> None]
    /\ gaps = {} /\ decisions = {}
    /\ candidates = {} /\ capabilities = {}
    /\ partial = {} /\ frozen = {Root} /\ programs = {Root}
    /\ judged = << >> /\ cut = {}
    /\ run = Idle /\ reported = [trip |-> None, how |-> "none"] /\ faults = 0

Go(place) == run' = [run EXCEPT !.pc = place] /\ UNCHANGED <<parentOf, claim, reported, faults>>

Leave(how) ==
    /\ run' = Idle /\ reported' = [trip |-> run.trip, how |-> how]
    /\ UNCHANGED <<parentOf, claim, faults>>

Refuse(why) == Leave(why) /\ UNCHANGED disk

\* A file is read line by line, and a line that is not whole raises; a new record
\* needs the lease as well.
Readable(names) == \A name \in names : <<name, "line">> \notin cut
Takes(name, known) == Readable({name}) /\ (known \/ <<name, "lease">> \notin cut)

Decided(t) == \E d \in decisions : d.trip = t
DecisionOf(t) == CHOOSE d \in decisions : d.trip = t

\* The bundle on disk still has the bytes the Teacher declared.
Unaltered(t, skill) == bundle[t] = skill.content

Capabilities(program) == {program[i].skill.revision : i \in DOMAIN program}

Composed == Append(run.gap.parent, [gap |-> run.gap, skill |-> run.skill])

-----------------------------------------------------------------------------
(* A round trip.                                                           *)

\* The gap of a trip, from the latest version of its failure Claim.
Gap(t, parent) == [trip |-> t, parent |-> parent, claim |-> claim[t].failure]

\* Load the parent, derive the gap, append it, and look for a decision.
Launch(t) ==
    /\ run = Idle /\ Readable({"programs", "decisions"})
    /\ \E parent \in {p \in frozen \cap programs : Len(p) < MaxDepth} :
         /\ parentOf[t] \subseteq {parent} /\ Takes("gaps", Gap(t, parent) \in gaps)
         /\ parentOf' = [parentOf EXCEPT ![t] = {parent}]
         /\ gaps' = gaps \cup {Gap(t, parent)}
         /\ run' = [pc |-> IF Decided(t) THEN "replay" ELSE "compile", trip |-> t,
                    gap |-> Gap(t, parent), skill |-> None, claims |-> First]
    /\ UNCHANGED <<claim, bundle, decisions, candidates, capabilities, partial, frozen,
                   programs, judged, cut, reported, faults>>

\* It raises at the first of these files that a kill has left cut short.
LaunchRefused(t) ==
    /\ run = Idle /\ reported' = [trip |-> t, how |-> "cut short"]
    /\ \E parent \in {p \in frozen \cap programs : Len(p) < MaxDepth} :
         /\ parentOf[t] \subseteq {parent}
         /\ parentOf' = [parentOf EXCEPT ![t] = {parent}]
         /\ LET appends == /\ Readable({"programs"})
                            /\ Takes("gaps", Gap(t, parent) \in gaps)
            IN /\ ~(appends /\ Readable({"decisions"}))
               /\ gaps' = IF appends THEN gaps \cup {Gap(t, parent)} ELSE gaps
    /\ UNCHANGED <<claim, bundle, decisions, candidates, capabilities, partial, frozen,
                   programs, judged, cut, run, faults>>

\* The Teacher compiles a bundle for the gap, anew in every run; an active one or
\* one for another gap is refused.
Compile ==
    /\ run.pc = "compile"
    /\ \/ \E r \in Revisions, c \in Contents :
            /\ bundle' = [bundle EXCEPT ![run.trip] = c]
            /\ run' = [run EXCEPT !.pc = "validate",
                                  !.skill = [revision |-> r, content |-> c]]
            /\ UNCHANGED <<parentOf, claim, reported, faults, gaps, decisions, candidates,
                           capabilities, partial, frozen, programs, judged, cut>>
       \/ Refuse("invalid candidate")

\* The Claims that support the next place are the latest in their evidence graph.
Supported(by, place) ==
    /\ run' = [run EXCEPT !.pc = place, !.claims[by] = claim[run.trip][by]]
    /\ UNCHANGED <<parentOf, claim, reported, faults>>

\* Mutant: the last Candidate record of a revision wins.
ValidateReplacing ==
    /\ run.pc = "validate"
    /\ \/ /\ Unaltered(run.trip, run.skill)
          /\ candidates' = {c \in candidates : c.revision # run.skill.revision}
                             \cup {run.skill}
          /\ Supported("skill", "capability")
          /\ UNCHANGED <<bundle, gaps, decisions, capabilities, partial, frozen,
                         programs, judged, cut>>
       \/ Refuse("not validated")

\* The Skill authority validates; the bundle is hashed again, and what is not an
\* approved native gain of this bundle is refused.  The Candidate registry takes
\* one record for a revision.
Validate ==
    /\ run.pc = "validate"
    /\ \/ /\ Unaltered(run.trip, run.skill)
          /\ IF \/ ~Takes("candidates", run.skill \in candidates)
                \/ \E other \in candidates :
                      other.revision = run.skill.revision /\ other # run.skill
             THEN Refuse("not registered")
             ELSE /\ candidates' = candidates \cup {run.skill}
                  /\ Supported("skill", "capability")
                  /\ UNCHANGED <<bundle, gaps, decisions, capabilities, partial, frozen,
                                 programs, judged, cut>>
       \/ Refuse("not validated")

\* The Capability registry does the same, for the promotion decision as well; then
\* a parent that already has the capability is refused.
RegisterCapability ==
    /\ run.pc = "capability"
    /\ \E a \in Approvals :
         LET capability == [skill |-> run.skill, approval |-> a] IN
         IF \/ ~Takes("capabilities", capability \in capabilities)
            \/ \E other \in capabilities :
                  other.skill.revision = run.skill.revision /\ other # capability
         THEN Refuse("not registered")
         ELSE /\ capabilities' = capabilities \cup {capability}
              /\ IF run.skill.revision \in Capabilities(run.gap.parent)
                 THEN Leave("has the capability") ELSE Go("compose")
              /\ UNCHANGED <<bundle, gaps, decisions, candidates, partial, frozen,
                             programs, judged, cut>>

\* Freeze the composed program's directory file by file; one that exists must load.
Compose ==
    /\ run.pc = "compose"
    /\ CASE Composed \in frozen -> Go("program") /\ UNCHANGED disk
         [] Composed \in partial \ frozen -> Refuse("corrupt program")
         [] OTHER ->
              /\ partial' = partial \cup {Composed} /\ Go("freezing")
              /\ UNCHANGED <<bundle, gaps, decisions, candidates, capabilities, frozen,
                             programs, judged, cut>>

FinishFreeze ==
    /\ run.pc = "freezing"
    /\ partial' = partial \ {Composed} /\ frozen' = frozen \cup {Composed} /\ Go("program")
    /\ UNCHANGED <<bundle, gaps, decisions, candidates, capabilities, programs, judged, cut>>

RegisterProgram ==
    /\ run.pc = "program"
    /\ \/ /\ Takes("programs", Composed \in programs)
          /\ programs' = programs \cup {Composed} /\ Go("fight")
          /\ UNCHANGED <<bundle, gaps, decisions, candidates, capabilities, partial, frozen,
                         judged, cut>>
       \/ ~Takes("programs", Composed \in programs) /\ Refuse("cut short")

Fought == Composed \in DOMAIN judged

\* The tournament of parent and candidate; its receipts answer a second run.  It may
\* end incomplete, or with Claims that are no longer the latest.
Fight ==
    /\ run.pc = "fight"
    /\ \/ Fought /\ Supported("fight", "decide") /\ UNCHANGED disk
       \/ /\ ~Fought
          /\ \E parent, candidate \in Outcomes :
               judged' = [p \in DOMAIN judged \cup {Composed} |->
                            IF p = Composed
                            THEN [parent |-> parent, candidate |-> candidate]
                            ELSE judged[p]]
          /\ Supported("fight", "decide")
          /\ UNCHANGED <<bundle, gaps, decisions, candidates, capabilities, partial,
                         frozen, programs, cut>>
       \/ Refuse("incomplete tournament")

\* The parent is participant 0, the candidate 1.
Scores(program) ==
    [side \in {0, 1} |-> Weight(IF side = 0 THEN judged[program].parent
                                            ELSE judged[program].candidate)]

\* Mutant: a candidate that did as well as its parent replaces it.
OutcomeOfTie(program) ==
    IF Scores(program)[1] >= Scores(program)[0] THEN "advance-search-parent"
    ELSE "reject-candidates"

Outcome(program) == IF Advances(Scores(program), 0) THEN "advance-search-parent"
                    ELSE "reject-candidates"

Decision == [trip |-> run.trip, gap |-> run.gap, skill |-> run.skill,
             program |-> Composed, action |-> Outcome(Composed), claims |-> run.claims]

\* The bundle is hashed a third time; the decision is appended.
Decide ==
    /\ run.pc = "decide"
    /\ IF Unaltered(run.trip, run.skill) /\ Takes("decisions", FALSE)
       THEN /\ decisions' = decisions \cup {Decision} /\ Leave("returned")
            /\ UNCHANGED <<bundle, gaps, candidates, capabilities, partial, frozen,
                           programs, judged, cut>>
       ELSE Refuse("not decided")

\* The Claims a decision rests on are still the latest in their evidence graphs.
Stands(d) == /\ d.claims.skill = claim[d.trip].skill
             /\ d.claims.fight = claim[d.trip].fight

\* A recorded decision is verified against every record, Claim and file it names.
Verifies(d) ==
    /\ d.gap = run.gap /\ Stands(d)
    /\ Readable({"candidates", "capabilities", "programs"})
    /\ \E capability \in capabilities : capability.skill = d.skill
    /\ d.skill \in candidates /\ Unaltered(d.trip, d.skill)
    /\ d.program \in frozen \cap programs
    /\ d.action = Outcome(d.program)

Replay ==
    /\ run.pc = "replay"
    /\ IF Verifies(DecisionOf(run.trip)) THEN Leave("replayed") /\ UNCHANGED disk
       ELSE Refuse("drift")

-----------------------------------------------------------------------------
(* The environment.                                                        *)

Disturb == faults < MaxFaults /\ faults' = faults + 1

Kill ==
    /\ run # Idle /\ Disturb
    /\ run' = Idle /\ reported' = [trip |-> run.trip, how |-> "killed"]
    /\ UNCHANGED <<parentOf, claim, disk>>

\* The file that the running program is about to append a new record to.
Appends(name) ==
    \/ name = "gaps" /\ run = Idle
         /\ \E t \in Trips, parent \in frozen \cap programs :
               parentOf[t] \subseteq {parent} /\ Gap(t, parent) \notin gaps
    \/ name = "candidates" /\ run.pc = "validate" /\ run.skill \notin candidates
    \/ name = "capabilities" /\ run.pc = "capability"
    \/ name = "programs" /\ run.pc = "program" /\ Composed \notin programs
    \/ name = "decisions" /\ run.pc = "decide"

\* A kill inside an append leaves the lease of the writer, and perhaps part of a line.
CutShort ==
    /\ Disturb
    /\ \E name \in {"gaps", "candidates", "capabilities", "programs", "decisions"},
          left \in {{"lease"}, {"lease", "line"}} :
         Appends(name) /\ cut' = cut \cup ({name} \X left)
    /\ run' = Idle /\ reported' = [trip |-> run.trip, how |-> "killed"]
    /\ UNCHANGED <<parentOf, claim, bundle, gaps, decisions, candidates, capabilities, partial,
                   frozen, programs, judged>>

\* A bundle changes on disk.
Alter ==
    /\ Disturb
    /\ \E t \in {t \in Trips : bundle[t] # None}, c \in Contents :
         bundle' = [bundle EXCEPT ![t] = c]
    /\ UNCHANGED <<parentOf, claim, gaps, decisions, candidates, capabilities, partial,
                   frozen, programs, judged, cut, run, reported>>

\* A Claim of a trip is superseded in its evidence graph.
Supersede ==
    /\ Disturb
    /\ \E t \in Trips, of \in DOMAIN First :
         claim[t][of] = 1 /\ claim' = [claim EXCEPT ![t][of] = 2]
    /\ UNCHANGED <<parentOf, disk, run, reported>>

Step == \/ Compile \/ Validate \/ RegisterCapability \/ Compose \/ FinishFreeze
        \/ RegisterProgram \/ Fight \/ Decide \/ Replay

Next == \/ \E t \in Trips : Launch(t) \/ LaunchRefused(t)
        \/ Step \/ Kill \/ CutShort \/ Alter \/ Supersede
Spec == Init /\ [][Next]_vars

-----------------------------------------------------------------------------
(* Properties.                                                             *)

\* However often a request is repeated, a round trip has one decision; it extends
\* the failed parent by one capability the parent did not have, validated with the
\* content the program was composed with, and moves the search parent only to a
\* candidate that did better than its parent.
DecisionIsSound ==
    /\ \A d, e \in decisions : d.trip = e.trip => d = e
    /\ \A d \in decisions :
         /\ d.gap \in gaps /\ d.program \in frozen \cap programs
         /\ d.program = Append(d.gap.parent, [gap |-> d.gap, skill |-> d.skill])
         /\ d.skill.revision \notin Capabilities(d.gap.parent)
         /\ d.skill \in candidates
         /\ \E capability \in capabilities : capability.skill = d.skill
         /\ d.action = "advance-search-parent" =>
              Weight(judged[d.program].candidate) > Weight(judged[d.program].parent)

\* A request whose decision was recorded is answered from it, and never by redoing it.
\* While the Claims it rests on are the latest, its bundle has the bytes that were
\* judged and the registries can be read, it verifies: no other round trip and no
\* killed run has taken a record, a program or a tournament from it.
DecidedIsReplayed ==
    /\ (reported.trip \in Trips /\ Decided(reported.trip)) =>
          reported.how \in {"returned", "replayed", "killed", "drift", "cut short"}
    /\ run.pc = "replay" =>
          LET d == DecisionOf(run.trip) IN
          (/\ d.gap.claim = run.gap.claim /\ Stands(d) /\ Unaltered(d.trip, d.skill)
           /\ Readable({"candidates", "capabilities", "programs"})) => Verifies(d)
=============================================================================
