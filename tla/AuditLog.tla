------------------------------ MODULE AuditLog ------------------------------
(***************************************************************************)
(* The moderation audit (record_moderation of carbon-server/src/state.rs). *)
(* A record is appended to moderation-audit.jsonl without any lock, in     *)
(* several writes of which the newline is the last, and then pushed to the *)
(* records in memory under their lock. A start reads the file by lines,    *)
(* and ignores the lines that do not decode.                               *)
(***************************************************************************)
EXTENDS Naturals, Sequences, SequencesExt

CONSTANTS Actors,    \* the console and the sessions that run commands
          AuditSize, \* 1024, the records that are kept in memory
          MaxRecords \* how many records are followed, for TLC

ASSUME AuditAssumption == AuditSize \in Nat \ {0} /\ MaxRecords \in Nat

VARIABLES log,     \* the pieces in the file, in order
          records, \* the records in memory, the oldest first
          writing, \* the piece each actor is going to append
          taken,   \* the number of records begun
          done,    \* history: the records that were reported as kept
          crossed, \* history: the records that another actor wrote into
          torn     \* history: how many appends broke off inside a line

auditVars == <<log, records, writing, taken, done, crossed, torn>>

\* A record is written in two pieces at least, then the newline; at the fourth
\* part it is on its way to memory.
Piece(id, part) == [id |-> id, part |-> part]
Newline == 3
Pushing == 4
Nothing == Piece(0, 0)
Appending(a) == writing[a].part \in 1 .. Newline
InLine(a) == writing[a].part \in 2 .. Newline

AuditInit ==
    /\ log = <<>> /\ records = <<>>
    /\ writing = [a \in Actors |-> Nothing]
    /\ taken = 0 /\ done = {} /\ crossed = {} /\ torn = 0

\* The last of the records, as many as are kept.
Latest(s) == IF Len(s) <= AuditSize THEN s ELSE SubSeq(s, Len(s) - AuditSize + 1, Len(s))

RecordModeration(a) ==
    LET others == {b \in Actors \ {a} : Appending(b)}
    IN /\ writing[a] = Nothing
       /\ taken' = taken + 1
       /\ writing' = [writing EXCEPT ![a] = Piece(taken + 1, 1)]
       /\ crossed' = IF others = {} THEN crossed
                     ELSE crossed \union {taken + 1} \union {writing[b].id : b \in others}
       /\ UNCHANGED <<log, records, done, torn>>

\* The records after the first MaxRecords are not followed.
Audited(a) == IF taken < MaxRecords THEN RecordModeration(a) ELSE UNCHANGED auditVars

AppendPiece_Unended(a) == \* mutant: the newline is forgotten
    /\ Appending(a)
    /\ log' = IF writing[a].part = Newline THEN log ELSE Append(log, writing[a])
    /\ writing' = [writing EXCEPT ![a].part = @ + 1]
    /\ UNCHANGED <<records, taken, done, crossed, torn>>

AppendPiece(a) ==
    /\ Appending(a)
    /\ log' = Append(log, writing[a])
    /\ writing' = [writing EXCEPT ![a].part = @ + 1]
    /\ UNCHANGED <<records, taken, done, crossed, torn>>

\* A write fails, or the flush after the last; what was written stays.
AppendFails(a) ==
    /\ writing[a] # Nothing
    /\ writing' = [writing EXCEPT ![a] = Nothing]
    /\ torn' = IF InLine(a) THEN torn + 1 ELSE torn
    /\ UNCHANGED <<log, records, taken, done, crossed>>

PushRecord(a) ==
    /\ writing[a].part = Pushing
    /\ records' = Latest(Append(records, writing[a].id))
    /\ done' = done \union {writing[a].id}
    /\ writing' = [writing EXCEPT ![a] = Nothing]
    /\ UNCHANGED <<log, taken, crossed, torn>>

AuditKilled ==
    /\ writing' = [a \in Actors |-> Nothing]
    /\ torn' = torn + Cardinality({a \in Actors : InLine(a)})
    /\ UNCHANGED <<log, records, taken, done, crossed>>

\* A line decodes when it is one whole record; the last line needs no newline.
Decodes(i) ==
    /\ log[i].part = 1
    /\ i + 1 <= Len(log) /\ log[i + 1] = Piece(log[i].id, 2)
    /\ i = 1 \/ log[i - 1].part = Newline
    /\ i + 2 > Len(log) \/ log[i + 2].part = Newline
Lines == SetToSortSeq({i \in DOMAIN log : Decodes(i)}, <)
LoadModerationRecords ==
    /\ records' = Latest([n \in DOMAIN Lines |-> log[Lines[n]].id])
    /\ UNCHANGED <<log, writing, taken, done, crossed, torn>>

\* A start finds every record reported as kept, unless another actor
\* wrote into it, or, at most once for every append that broke off inside its
\* line, because it was glued to that line.
AuditKept ==
    Cardinality(done \ (crossed \union {log[i].id : i \in {j \in DOMAIN log : Decodes(j)}}))
        <= torn
-----------------------------------------------------------------------------
(* What makes AuditKept true.                                              *)

AuditTypeOK ==
    /\ taken \in Nat /\ torn \in Nat
    /\ log \in Seq([id: Nat, part: 1 .. Newline])
    /\ \A i \in DOMAIN log : log[i].id \in 1 .. taken
    /\ writing \in [Actors -> {Nothing} \union [id: 1 .. taken, part: 1 .. Pushing]]
    /\ done \subseteq 1 .. taken /\ crossed \subseteq 1 .. taken

Wrote(piece) == \E i \in DOMAIN log : log[i] = piece

\* A record is one actor's, and its pieces are in the file in their order.
OwnRecord ==
    /\ \A a, b \in Actors : writing[a] # Nothing /\ writing[a].id = writing[b].id => a = b
    /\ \A a \in Actors : \A i \in DOMAIN log :
          log[i].id = writing[a].id => log[i].part < writing[a].part
    /\ \A i, j \in DOMAIN log : i < j /\ log[i].id = log[j].id => log[i].part < log[j].part
\* Two that append at once know of it.
KnownCrossed ==
    \A a, b \in Actors : a # b /\ Appending(a) /\ Appending(b) => writing[a].id \in crossed
\* So a record that nobody wrote into is in one piece.
InOnePiece ==
    /\ \A i \in DOMAIN log : log[i].id \notin crossed /\ log[i].part > 1 =>
          i > 1 /\ log[i - 1] = Piece(log[i].id, log[i].part - 1)
    /\ \A a \in Actors : InLine(a) /\ writing[a].id \notin crossed =>
          Len(log) > 0 /\ log[Len(log)] = Piece(writing[a].id, writing[a].part - 1)
Ended ==
    /\ \A a \in Actors : writing[a].part = Pushing => Wrote(Piece(writing[a].id, Newline))
    /\ \A id \in done : Wrote(Piece(id, Newline))
\* The records that nobody will end, each one counted when it broke off.
Broken ==
    {id \in 1 .. taken :
        /\ \E i \in DOMAIN log : log[i].id = id
        /\ ~Wrote(Piece(id, Newline))
        /\ \A a \in Actors : writing[a].id # id}
BrokenCounted == Cardinality(Broken) <= torn
\* A record is glued to the end of a broken one, so each glues one at most.
GluedToBroken ==
    \A i \in DOMAIN log :
        log[i].part = 1 /\ log[i].id \notin crossed /\ i > 1 /\ log[i - 1].part # Newline =>
            /\ log[i - 1].id \in Broken
            /\ \A j \in DOMAIN log : i <= j => log[j].id # log[i - 1].id

AuditInvariant ==
    /\ AuditTypeOK /\ OwnRecord /\ KnownCrossed /\ InOnePiece /\ Ended
    /\ BrokenCounted /\ GluedToBroken
=============================================================================
