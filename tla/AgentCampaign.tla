--------------------------- MODULE AgentCampaign ---------------------------
(***************************************************************************)
(* campaign run --strategy agent-program: one command that executes the    *)
(* parent and the candidate revisions of an AgentProgram on a task, picks  *)
(* the next search parent and seals its run directory.  The fixture        *)
(* profile judges fixture scores and always runs through; the live profile *)
(* makes Claims from native outcomes, runs the campaign a second time with *)
(* them, and answers a repeated command from the sealed directory only.    *)
(* The process may be killed before any durable step or inside an append,  *)
(* and the command run again.  Executions are those of ExecutionRuntime    *)
(* and Campaign, as far as this command can tell them apart.               *)
(***************************************************************************)
EXTENDS Tournament, Sequences, FiniteSets

CONSTANTS
    Profiles,      \* the execution profiles an instance looks at
    Parent, Candidates,   \* revisions, numbered in the order of their identities
    FixtureScores, \* what a fixture revision may score
    NotRun,
    MaxFaults      \* bound on kills and on executions that raise

Participants == {Parent} \cup Candidates

AgentCampaignAssumption ==
    /\ Profiles \subseteq {"fixture", "live"}
    /\ Candidates \subseteq Nat /\ Candidates # {} /\ IsFiniteSet(Candidates)
    /\ Parent \in Nat \ Candidates
    /\ FixtureScores \subseteq Int
    /\ NotRun \notin Int /\ MaxFaults \in Nat

VARIABLES
    profile,
    registered,    \* revisions in the AgentProgram registry
    campaign,      \* status of the saved campaign
    native,        \* revision -> score of its recorded outcome
    observed,      \* revisions whose native outcome has its evidence
    ended,         \* revisions whose execution has its terminal receipt
    claims,        \* revisions with a Claim in the evidence graph
    parents,       \* rows of SEARCH-PARENT.jsonl: the selected revisions
    result,        \* rows of CAMPAIGN-RESULT.json, none or one
    manifest,      \* EVIDENCE-MANIFEST.json exists
    cut,           \* places whose file holds part of a line, or a dead writer's lease
    pc, replayed,  \* place of the command; executions its first pass replayed
    reported, faults

saved == <<registered, campaign, native, observed, ended, claims, parents, result, manifest>>
vars == <<profile, saved, cut, pc, replayed, reported, faults>>

Init ==
    /\ profile \in Profiles
    /\ registered = {} /\ campaign = "none"
    /\ native = [r \in Participants |-> NotRun]
    /\ observed = {} /\ ended = {} /\ claims = {}
    /\ parents = <<>> /\ result = <<>> /\ manifest = FALSE /\ cut = {}
    /\ pc = "down" /\ replayed = {} /\ reported = "none" /\ faults = 0

Go(place) == pc' = place /\ UNCHANGED <<profile, cut, replayed, reported, faults>>

Leave(how) == pc' = "down" /\ reported' = how /\ UNCHANGED <<profile, cut, replayed, faults>>

Refuse == Leave("refused") /\ UNCHANGED saved

\* A live local evaluator resolves or does not; it never fails.
Scores == IF profile = "fixture" THEN FixtureScores
          ELSE {Weight("gain"), Weight("neutral")}

-----------------------------------------------------------------------------
(* The command.                                                            *)

\* A live result needs its manifest; the fixture profile always starts over.
Launch ==
    /\ pc = "down"
    /\ CASE profile = "live" /\ result # <<>> /\ ~manifest -> Refuse
         [] profile = "live" /\ result # <<>> /\ manifest ->
              Go("replay") /\ UNCHANGED saved
         [] OTHER ->
              /\ pc' = "register" /\ replayed' = ended
              /\ UNCHANGED <<profile, saved, cut, reported, faults>>

\* Freeze the configuration, register the revisions, open the campaign.
Register ==
    /\ pc = "register"
    /\ registered' = Participants
    /\ campaign' = IF campaign = "none" THEN "running" ELSE campaign
    /\ IF campaign = "partial"
       THEN Leave("refused")
       ELSE Go("execute")
    /\ UNCHANGED <<native, observed, ended, claims, parents, result, manifest>>

Waiting == Participants \ ended
\* The parent is the first plan, the candidates follow.
NextPlan == IF Parent \in Waiting THEN Parent ELSE Least(Waiting)

\* Mutant: receipts without a terminal receipt are refused.
ExecuteUnresumed ==
    /\ pc = "execute" /\ Waiting # {}
    /\ IF native[NextPlan] # NotRun THEN Refuse
       ELSE /\ \E score \in Scores : native' = [native EXCEPT ![NextPlan] = score]
            /\ observed' = observed \cup {NextPlan} /\ ended' = ended \cup {NextPlan}
            /\ campaign' = IF Waiting = {NextPlan} THEN "completed" ELSE campaign
            /\ Go("execute")
            /\ UNCHANGED <<registered, claims, parents, result, manifest>>

\* Execute the next plan, resuming what a kill left of it.
Execute ==
    /\ pc = "execute" /\ Waiting # {}
    /\ LET r == NextPlan IN
         /\ IF native[r] = NotRun
            THEN /\ \E score \in Scores : native' = [native EXCEPT ![r] = score]
                 /\ observed' = observed \cup {r}
            ELSE UNCHANGED <<native, observed>>
         /\ ended' = ended \cup {r}
    /\ campaign' = IF Waiting = {NextPlan} THEN "completed" ELSE campaign
    /\ Go("execute")
    /\ UNCHANGED <<registered, claims, parents, result, manifest>>

\* An execution raises (the task's file changed): the campaign is partial, and
\* neither the authority nor the Claim projection accepts what is missing.
Interrupt ==
    /\ pc = "execute" /\ Waiting # {} /\ native[NextPlan] = NotRun
    /\ faults < MaxFaults /\ faults' = faults + 1
    /\ campaign' = "partial" /\ pc' = "down" /\ reported' = "refused"
    /\ UNCHANGED <<profile, registered, native, observed, ended, claims, parents,
                   result, manifest, cut, replayed>>

\* The first pass of a live campaign has no Claims and awaits authority.
FirstPass ==
    /\ pc = "execute" /\ Waiting = {}
    /\ Go(IF profile = "live" THEN "claim" ELSE "select") /\ UNCHANGED saved

\* project_live_claims: one Claim for each participant, from its native evidence.
Claim ==
    /\ pc = "claim"
    /\ IF Participants \subseteq claims THEN Go("select") /\ UNCHANGED saved
       ELSE LET r == Least(Participants \ claims) IN
            IF r \in observed
            THEN /\ claims' = claims \cup {r} /\ Go("claim")
                 /\ UNCHANGED <<registered, campaign, native, observed, ended,
                                parents, result, manifest>>
            ELSE Refuse

Selected == Winner(native, Parent)

\* Mutant: the tournament's row is appended by every run.
SelectAgain ==
    /\ pc = "select" /\ Go("report")
    /\ parents' = Append(parents, Selected)
    /\ UNCHANGED <<registered, campaign, native, observed, ended, claims, result, manifest>>

\* The decision, and its row in the search parent log: the same tournament is
\* appended once and must select the same revision again.
Select ==
    /\ pc = "select"
    /\ CASE parents = <<>> ->
              /\ parents' = <<Selected>> /\ Go("report")
              /\ UNCHANGED <<registered, campaign, native, observed, ended, claims,
                             result, manifest>>
         [] parents = <<Selected>> -> Go("report") /\ UNCHANGED saved
         [] OTHER -> Refuse

\* The live report says which executions its own first pass replayed.
Report == [selected |-> parents[1], scores |-> native,
           replayed |-> IF profile = "live" THEN replayed ELSE {}]

WriteResult ==
    /\ pc = "report" /\ result' = <<Report>> /\ Go("seal")
    /\ UNCHANGED <<registered, campaign, native, observed, ended, claims, parents, manifest>>

Seal ==
    /\ pc = "seal" /\ manifest' = TRUE /\ Leave("returned")
    /\ UNCHANGED <<registered, campaign, native, observed, ended, claims, parents, result>>

\* A sealed live run is recomputed from its receipts and compared; the comparison
\* expects a report whose first pass replayed nothing.
Replay ==
    /\ pc = "replay"
    /\ IF /\ registered = Participants /\ claims = Participants
          /\ parents = <<Selected>>
          /\ result = <<[selected |-> Selected, scores |-> native, replayed |-> {}]>>
       THEN Leave("replayed") /\ UNCHANGED saved
       ELSE Refuse

\* A kill; inside an execution it leaves a native receipt without its evidence,
\* or both without the terminal receipt.
Kill ==
    /\ pc # "down" /\ faults < MaxFaults
    /\ faults' = faults + 1 /\ pc' = "down" /\ reported' = "killed"
    /\ \/ UNCHANGED <<native, observed>>
       \/ /\ pc = "execute" /\ Waiting # {} /\ native[NextPlan] = NotRun
          /\ \E score \in Scores : native' = [native EXCEPT ![NextPlan] = score]
          /\ observed' \in {observed, observed \cup {NextPlan}}
    /\ UNCHANGED <<profile, registered, campaign, ended, claims, parents, result,
                   manifest, cut, replayed>>

\* The places that are about to append to a file.
Appends ==
    \/ pc = "register" /\ registered = {}
    \/ pc = "execute" /\ Waiting # {}
    \/ pc = "claim" /\ ~(Participants \subseteq claims)
    \/ pc = "select" /\ parents = <<>>

\* A kill inside an append leaves a part of a line, or the lease of the writer.
CutShort ==
    /\ Appends /\ faults < MaxFaults
    /\ cut' = cut \cup {pc}
    /\ faults' = faults + 1 /\ pc' = "down" /\ reported' = "killed"
    /\ UNCHANGED <<profile, saved, replayed>>

\* Where a file was cut short every run raises.
Raise == pc \in cut /\ Refuse

Work == \/ Launch \/ Register \/ Execute \/ FirstPass \/ Claim
        \/ Select \/ WriteResult \/ Seal \/ Replay

Step == (pc \notin cut /\ Work) \/ Raise

Next == Step \/ Interrupt \/ Kill \/ CutShort
Spec == Init /\ [][Next]_vars

-----------------------------------------------------------------------------
(* Properties.                                                             *)

Reports == [selected : Participants, scores : [Participants -> Int],
            replayed : SUBSET Participants]

\* Every variable has its type.
TypeOK ==
    /\ profile \in Profiles /\ registered \subseteq Participants
    /\ campaign \in {"none", "running", "completed", "partial"}
    /\ native \in [Participants -> Int \cup {NotRun}]
    /\ observed \subseteq Participants /\ ended \subseteq Participants
    /\ claims \subseteq Participants
    /\ parents \in Seq(Participants) /\ result \in Seq(Reports)
    /\ manifest \in BOOLEAN /\ cut \subseteq {"register", "execute", "claim", "select"}
    /\ replayed \subseteq Participants
    /\ pc \in {"down", "register", "execute", "claim", "select", "report", "seal",
               "replay"}
    /\ reported \in {"none", "killed", "refused", "returned", "replayed"}
    /\ faults \in 0 .. MaxFaults

\* The search parent moves once, after every participant has ended, and only to a
\* revision that scored more than the parent and at least as much as every other;
\* kills and repeated commands add no row and change no report.
SelectionIsEarned ==
    parents # <<>> =>
        /\ Len(parents) = 1 /\ ended = Participants /\ campaign = "completed"
        /\ \A r \in Participants : native[r] <= native[parents[1]]
        /\ parents[1] # Parent => native[parents[1]] > native[Parent]
        /\ profile = "live" => observed = Participants
        /\ result # <<>> => result[1].selected = parents[1] /\ result[1].scores = native

\* When a repeated command may be refused for ever: an execution raised; an append was
\* cut short; a live run was killed between a native receipt and its evidence, between
\* the result and the manifest, or after an execution had ended, which its report then
\* says and the comparison of the sealed replay does not expect.
KnownRefusal ==
    \/ campaign = "partial" \/ cut # {}
    \/ profile = "live" /\ faults > 0
          /\ \/ \E r \in Participants : native[r] # NotRun /\ r \notin observed
             \/ result # <<>> /\ ~manifest
             \/ result # <<>> /\ result[1].replayed # {}

\* How a command ends: with a selection in a sealed directory, or with a known refusal.
Answered ==
    \/ reported \in {"returned", "replayed"} /\ result # <<>> /\ manifest
    \/ reported = "refused" /\ KnownRefusal
=============================================================================
