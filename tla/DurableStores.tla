--------------------------- MODULE DurableStores ---------------------------
(***************************************************************************)
(* The append-only files of evolve, access by access.  Nine stores are     *)
(* written by one pattern (read, refuse a conflicting identity, append one *)
(* JSON line), and differ in what they leave out: the lease, the second    *)
(* read under the lease, the check of the written length, the check of the *)
(* last newline, the chain.  A behaviour has one store, of the kind chosen *)
(* in Init; four kinds are single files that are created once and then     *)
(* compared.  A process may be killed between any two accesses and inside  *)
(* a write; a write may be short because the disk is full.                 *)
(***************************************************************************)
EXTENDS Naturals, Sequences, FiniteSets

CONSTANTS
    Kinds,        \* the stores an instance looks at
    Procs,
    Ids,          \* identities: receipt_id, record key, event_id, ...
    Values,       \* contents; also what a search parent may be
    Nobody,       \* the lease file does not exist
    Dead,         \* the lease file was left by a killed process
    Absent,       \* the file does not exist
    Partial,      \* the file holds a part of its content
    Torn,         \* a line that holds a part of a record
    Garbage,      \* a line made of a damaged or unterminated one and the next
    MaxFaults     \* bound on kills and on writes to a full disk

\* What each implementation does, beyond reading, comparing and appending a line.
ReceiptStore == {"leased", "length checked", "consistent", "artifacts"}
EvidenceGraph == {"read first", "length checked", "consistent"}
Registry == {"leased", "read first"}
PromotionDecisionLog == {"leased", "read first", "unique"}
PortfolioLog == {"leased", "read first", "length checked", "unique"}
TaskRegistry == {"read first"}
HashChainIndex == {"leased", "length checked", "tail checked", "chained", "unique"}
SearchParentLog == {"leased", "read first", "chained", "parent",
                    "parents chained", "unmoved"}
LiveSearchParent == {"read first", "chained", "parent"}
\* Files that are created once and compared ever after; all four check the length.
freeze_json == {"created once"}
RoundCopy == {"created once"}
ReleaseCopy == {"created once"}
CompiledArtifact == {"created once"}

Features ==
    [receipts |-> ReceiptStore, evidence |-> EvidenceGraph, registry |-> Registry,
     decisions |-> PromotionDecisionLog, portfolio |-> PortfolioLog,
     tasks |-> TaskRegistry, index |-> HashChainIndex,
     search_parent |-> SearchParentLog, live_parent |-> LiveSearchParent,
     freeze_json |-> freeze_json, round_copy |-> RoundCopy,
     release_copy |-> ReleaseCopy, compiled |-> CompiledArtifact]

Records == [id : Ids, value : Values, parent : Values, sequence : Nat]

StoresAssumption ==
    /\ Kinds \subseteq DOMAIN Features
    /\ Nobody \notin Procs /\ Dead \notin Procs /\ Nobody # Dead
    /\ Absent \notin Values /\ Partial \notin Values /\ Absent # Partial
    /\ Torn \notin Records /\ Garbage \notin Records
    /\ MaxFaults \in Nat

VARIABLES
    kind,
    log,         \* the lines of the file
    terminated,  \* the file is empty or ends with a newline
    files,       \* artifact files by content; frozen files by identity
    lease,
    pc, request, view,   \* of each process: where it is, what for, what it read
    acked,       \* records whose append returned
    faults

vars == <<kind, log, terminated, files, lease, pc, request, view, acked, faults>>

\* This store has the feature.
Has(feature) == feature \in Features[kind]

NoRequest == [id |-> Absent, value |-> Absent, parent |-> Absent]

Init ==
    /\ kind \in Kinds
    /\ log = <<>> /\ terminated = TRUE
    /\ files = [path \in Ids \cup Values |-> Absent]
    /\ lease = Nobody
    /\ pc = [p \in Procs |-> "idle"]
    /\ request = [p \in Procs |-> NoRequest]
    /\ view = [p \in Procs |-> <<>>]
    /\ acked = {} /\ faults = 0

-----------------------------------------------------------------------------
(* Reading.                                                                *)

IsRecord(line) == line \notin {Torn, Garbage}
Lines == {log[i] : i \in {j \in DOMAIN log : IsRecord(log[j])}}
SameId(i, j) == log[i].id = log[j].id
Pairs == {pair \in (DOMAIN log) \X (DOMAIN log) : pair[1] < pair[2]}

\* What each reader verifies before it returns anything.
Readable ==
    /\ \A i \in DOMAIN log : IsRecord(log[i])
    /\ Has("tail checked") => terminated
    /\ Has("chained") => \A i \in DOMAIN log : log[i].sequence = i
    /\ Has("parents chained") =>
         \A i \in DOMAIN log : i > 1 => log[i].parent = log[i - 1].value
    /\ Has("unique") => \A pair \in Pairs : ~SameId(pair[1], pair[2])
    /\ Has("consistent") =>
         \A pair \in Pairs :
            SameId(pair[1], pair[2]) => log[pair[1]].value = log[pair[2]].value
    /\ Has("artifacts") =>
         \A i \in DOMAIN log : files[log[i].value] = log[i].value

\* A row with the identity of r; where several are allowed the last one counts.
Prior(r) == LET at == {i \in DOMAIN log : log[i].id = r.id}
            IN {log[i] : i \in {j \in at : \A k \in at : k <= j}}
SameContent(row, r) ==
    /\ row.value = r.value
    /\ Has("parent") => row.parent = r.parent

\* A parent other than the revision selected last.
Forks(r) == /\ Has("parent") /\ log # <<>>
            /\ r.parent # log[Len(log)].value

Refused(r) ==
    \/ ~Readable
    \/ \E row \in Prior(r) : ~SameContent(row, r)
    \/ Prior(r) = {} /\ Forks(r)

Replayed(r) == Readable /\ \E row \in Prior(r) : SameContent(row, r)

-----------------------------------------------------------------------------
(* Steps of a process.                                                     *)

At(p, place) == pc[p] = place
Goto(p, place) == pc' = [pc EXCEPT ![p] = place]

\* The finally clause removes the lease file.
Released(p) == lease' = IF lease = p THEN Nobody ELSE lease

\* The call is over, and what it held in memory is gone.
Leave(p) == /\ Goto(p, "idle")
            /\ request' = [request EXCEPT ![p] = NoRequest]
            /\ view' = [view EXCEPT ![p] = <<>>]

Raise(p) == /\ Leave(p) /\ Released(p)
            /\ UNCHANGED <<log, terminated, files, acked>>

Acknowledge(p) == acked' = acked \cup {request[p]}

Return(p) == /\ Leave(p) /\ Released(p) /\ Acknowledge(p)
             /\ UNCHANGED <<log, terminated, files>>

Call(p) ==
    /\ At(p, "idle")
    /\ \E id \in Ids, value, parent \in Values :
         /\ ~Has("parent") => parent = value
         /\ request' = [request EXCEPT ![p] = [id |-> id, value |-> value,
                                               parent |-> parent]]
    /\ Goto(p, CASE Has("read first") -> "read" [] Has("created once") -> "file"
                 [] OTHER -> "lease")
    /\ UNCHANGED <<log, terminated, files, lease, view, acked, faults>>

\* The read that precedes the lease, or the only one of a store without lease.
Read(p) ==
    /\ At(p, "read")
    /\ CASE Refused(request[p]) -> Raise(p)
         [] Replayed(request[p]) -> Return(p)
         [] OTHER ->
              /\ view' = [view EXCEPT ![p] = log]
              /\ Goto(p, IF Has("leased") THEN "lease" ELSE "write")
              /\ UNCHANGED <<log, terminated, files, lease, acked, request>>
    /\ UNCHANGED faults

TakeLease(p) ==
    /\ At(p, "lease")
    /\ IF lease = Nobody
       THEN /\ lease' = p /\ Goto(p, "locked")
            /\ UNCHANGED <<log, terminated, files, acked, request, view>>
       ELSE Raise(p)
    /\ UNCHANGED faults

\* Mutant: what was read before the lease is trusted.
ReadLockedOnce(p) ==
    /\ At(p, "locked")
    /\ Goto(p, IF Has("artifacts") THEN "file" ELSE "write")
    /\ view' = [view EXCEPT ![p] = log]
    /\ UNCHANGED <<log, terminated, files, lease, acked, request, faults>>

\* The read under the lease; the search parent log must not have moved.
ReadLocked(p) ==
    /\ At(p, "locked")
    /\ CASE Refused(request[p]) -> Raise(p)
         [] Has("unmoved") /\ log # view[p] -> Raise(p)
         [] ~Refused(request[p]) /\ Replayed(request[p]) -> Return(p)
         [] OTHER ->
              /\ view' = [view EXCEPT ![p] = log]
              /\ Goto(p, IF Has("artifacts") THEN "file" ELSE "write")
              /\ UNCHANGED <<log, terminated, files, lease, acked, request>>
    /\ UNCHANGED faults

-----------------------------------------------------------------------------
(* Files that are created once.                                            *)

Path(p) == IF Has("created once") THEN request[p].id ELSE request[p].value

\* An existing file is compared, a missing one is created exclusively.
OpenFile(p) ==
    /\ At(p, "file")
    /\ CASE files[Path(p)] = Absent ->
              /\ files' = [files EXCEPT ![Path(p)] = Partial]
              /\ Goto(p, "fill")
              /\ UNCHANGED <<log, terminated, lease, acked, request, view>>
         [] files[Path(p)] = request[p].value ->
              IF Has("created once") THEN Return(p)
              ELSE /\ Goto(p, "write")
                   /\ UNCHANGED <<log, terminated, files, lease, acked, request, view>>
         [] OTHER -> Raise(p)
    /\ UNCHANGED faults

\* Mutant: the receipt is logged before its artifact is written.
FillFileLater(p) ==
    /\ At(p, "fill") /\ Has("artifacts") /\ Goto(p, "write")
    /\ UNCHANGED <<log, terminated, files, lease, acked, request, view, faults>>

FillFile(p) ==
    /\ At(p, "fill")
    /\ files' = [files EXCEPT ![Path(p)] = request[p].value]
    /\ IF Has("created once")
       THEN Leave(p) /\ Acknowledge(p)
       ELSE Goto(p, "write") /\ UNCHANGED <<acked, request, view>>
    /\ UNCHANGED <<log, terminated, lease, faults>>

\* os.write stores less than it was given: the file stays partial.
FillShort(p) ==
    /\ At(p, "fill") /\ faults < MaxFaults
    /\ faults' = faults + 1
    /\ Raise(p)

-----------------------------------------------------------------------------
(* The append.                                                             *)

\* O_APPEND writes behind whatever the file ends with.
Behind(line) ==
    IF terminated THEN Append(log, line)
    ELSE [log EXCEPT ![Len(log)] = Garbage]

\* The sequence number is the one after the rows this process read.
Line(p) == [id |-> request[p].id, value |-> request[p].value,
            parent |-> request[p].parent, sequence |-> Len(view[p]) + 1]

Write(p) ==
    /\ At(p, "write")
    /\ log' = Behind(Line(p)) /\ terminated' = TRUE
    /\ Leave(p) /\ Released(p) /\ Acknowledge(p)
    /\ UNCHANGED <<files, faults>>

\* Mutant: no store looks at the number of bytes written.
WriteShortUnchecked(p) ==
    /\ At(p, "write") /\ faults < MaxFaults
    /\ faults' = faults + 1
    /\ log' = Behind(Torn) /\ terminated' = FALSE
    /\ Leave(p) /\ Released(p) /\ Acknowledge(p)
    /\ UNCHANGED files

\* A short write raises where the length is checked and returns where it is not.
WriteShort(p) ==
    /\ At(p, "write") /\ faults < MaxFaults
    /\ faults' = faults + 1
    /\ log' = Behind(Torn) /\ terminated' = FALSE
    /\ Leave(p) /\ Released(p)
    /\ IF Has("length checked") THEN UNCHANGED acked ELSE Acknowledge(p)
    /\ UNCHANGED files

\* A kill leaves the lease, and of a write any prefix of its line: nothing, a
\* part, all but the newline, or everything.
Kill(p) ==
    /\ pc[p] # "idle" /\ faults < MaxFaults
    /\ faults' = faults + 1
    /\ \/ UNCHANGED <<log, terminated, files>>
       \/ /\ At(p, "write")
          /\ \/ log' = Behind(Torn) /\ terminated' = FALSE
             \/ log' = Behind(Line(p)) /\ terminated' \in BOOLEAN
          /\ UNCHANGED files
       \/ /\ At(p, "fill")
          /\ files' = [files EXCEPT ![Path(p)] = request[p].value]
          /\ UNCHANGED <<log, terminated>>
    /\ lease' = IF lease = p THEN Dead ELSE lease
    /\ Leave(p)
    /\ UNCHANGED acked

\* No code removes the lease of a killed process.
RemoveStaleLease ==
    /\ lease = Dead /\ lease' = Nobody
    /\ UNCHANGED <<log, terminated, files, pc, request, view, acked, faults>>

Step(p) ==
    \/ Call(p) \/ Read(p) \/ TakeLease(p) \/ ReadLocked(p)
    \/ OpenFile(p) \/ FillFile(p) \/ FillShort(p)
    \/ Write(p) \/ WriteShort(p) \/ Kill(p)

Next == /\ (\E p \in Procs : Step(p)) \/ RemoveStaleLease
        /\ UNCHANGED kind

Spec == Init /\ [][Next]_vars
-----------------------------------------------------------------------------
(* Properties.                                                             *)

Places == {"idle", "read", "lease", "locked", "file", "fill", "write"}
Requests == [id : Ids, value : Values, parent : Values]

\* Every variable has its type; a process holds at most its own lease file.
TypeOK ==
    /\ kind \in Kinds
    /\ log \in Seq(Records \cup {Torn, Garbage}) /\ terminated \in BOOLEAN
    /\ files \in [Ids \cup Values -> Values \cup {Absent, Partial}]
    /\ lease \in Procs \cup {Nobody, Dead}
    /\ pc \in [Procs -> Places]
    /\ request \in [Procs -> Requests \cup {NoRequest}]
    /\ acked \subseteq Requests /\ faults \in 0 .. MaxFaults

Found(r) ==
    IF Has("created once") THEN files[r.id] = r.value
    ELSE \E line \in Lines : line.id = r.id /\ SameContent(line, r)

\* A record whose append returned is found by every reader that returns at all;
\* the index, which alone checks its tail, never loses one.  The other stores may:
\* a kill that leaves the last line without its newline makes the next append
\* destroy it and itself, and a short write that nobody checks is acknowledged.
AcknowledgedIsFound ==
    (Readable \/ Has("tail checked") \/ Has("created once")) => \A r \in acked : Found(r)

\* A store with a lease holds one record for each identity, whatever is killed, and
\* is unreadable only after a kill or a short write.  The evidence graph, the task
\* registry and the live search parent have no lease and promise neither.
LeasedStoreIsSound ==
    Has("leased") =>
        /\ faults = 0 => Readable
        /\ \A pair \in Pairs :
             IsRecord(log[pair[1]]) /\ IsRecord(log[pair[2]])
                => ~SameId(pair[1], pair[2])

\* A receipt in the log has its whole artifact, although the two are written one
\* after the other and a killed append leaves a partial artifact for ever.
ArtifactBacksReceipt ==
    Has("artifacts") => \A line \in Lines : files[line.value] = line.value
=============================================================================
