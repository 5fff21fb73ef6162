----------------------------- MODULE QueryIndex -----------------------------
(***************************************************************************)
(* Queries of the message archive: FileStore.Query and its index of        *)
(* internal/storage/query_index.go, under the handler of GET /messages of  *)
(* internal/api/router.go, while messages are appended.                    *)
(*                                                                         *)
(* A query brings the index of every file up to date, one file after the   *)
(* other, then merges the files newest first with a heap, skipping what    *)
(* the filters exclude and the earlier pages, and stops at its limit.      *)
(* A message is its time, its host and whether the text filter matches it; *)
(* an offset is the number of the line in its file.  Files only grow, but  *)
(* the write of an append may stop half way, when the disk is full or the  *)
(* process dies: the next append to that file completes the line to one    *)
(* that cannot be decoded.                                                 *)
(***************************************************************************)
EXTENDS Integers, FiniteSets, Sequences, SequencesExt, Sorting

CONSTANTS
    NumFiles,    \* files, in the order of their paths
    Shapes,      \* messages that may be stored, [at, host, match]
    Queries,     \* [limit, offset, since, until, hosts, text]
    MaxRecords,  \* bound: number of messages, torn ones included
    MaxTorn,     \* bound: number of writes that stop half way
    MaxQueries   \* bound: number of queries

ASSUME NumFilesAssumption == NumFiles \in Nat

ASSUME ShapesAssumption == \A m \in Shapes : m.at \in Int

ASSUME QueriesAssumption ==
    \A q \in Queries : q.limit \in Nat /\ q.offset \in Nat /\ q.since \in Int /\ q.until \in Int

VARIABLES
    files,     \* file -> its records
    torn,      \* files that end in an incomplete line
    tears,     \* number of writes that stopped half way
    indexes,   \* the cached index: file -> its entries, newest first
    query,     \* the query that is running
    pc,        \* where it is
    next,      \* its index: file -> entries
    heap,      \* file -> position of its cursor, files with one only
    skipped,   \* messages skipped for the offset
    messages,  \* messages found, as <<file, offset>>
    response,  \* what the handler answered
    atStart,   \* history: lines of the files when the query began
    asked      \* number of queries so far

queryVars == <<query, pc, next, heap, skipped, messages, response, atStart, asked>>

vars == <<files, torn, tears, indexes, queryVars>>

-----------------------------------------------------------------------------
Files == 1 .. NumFiles

Count == LET Total[n \in 0 .. NumFiles] == IF n = 0 THEN 0 ELSE Len(files[n]) + Total[n - 1]
         IN  Total[NumFiles]

(* A line made of an incomplete message and a complete one.                *)
Garbled == [at |-> 0, host |-> "", match |-> FALSE]

NoResponse == [data |-> <<>>, hasMore |-> FALSE, error |-> FALSE]

Failure == [NoResponse EXCEPT !.error = TRUE]

NoIndexes == [f \in {} |-> <<>>]

Init ==
    /\ files = [f \in Files |-> <<>>]
    /\ torn = {}
    /\ tears = 0
    /\ indexes = NoIndexes
    /\ query = (CHOOSE q \in Queries : TRUE)
    /\ pc = "idle"
    /\ next = NoIndexes
    /\ heap = [f \in {} |-> 0]
    /\ skipped = 0
    /\ messages = <<>>
    /\ response = NoResponse
    /\ atStart = [f \in Files |-> 0]
    /\ asked = 0

(* FileStore.Append: one write under the store's mutex.                    *)
AppendMessage(f, m) ==
    /\ Count + tears < MaxRecords
    /\ files' = [files EXCEPT ![f] = Append(@, IF f \in torn THEN Garbled ELSE m)]
    /\ torn' = torn \ {f}
    /\ UNCHANGED <<tears, indexes, queryVars>>

(* The write stops half way: Append returns an error, or the process is    *)
(* gone with its indexes and the query it was working on.                  *)
AppendTorn(f) ==
    /\ tears < MaxTorn /\ Count + tears < MaxRecords
    /\ tears' = tears + 1
    /\ torn' = torn \cup {f}
    /\ \/ UNCHANGED <<indexes, queryVars>>
       \/ /\ indexes' = NoIndexes
          /\ next' = NoIndexes
          /\ pc' = "idle"
          /\ UNCHANGED <<query, heap, skipped, messages, response, atStart, asked>>
    /\ UNCHANGED files

BeginQuery(q) ==
    /\ pc \in {"idle", "done"}
    /\ asked < MaxQueries
    /\ asked' = asked + 1
    /\ query' = q
    /\ pc' = "index"
    /\ atStart' = [f \in Files |-> Len(files[f]) + (IF f \in torn THEN 1 ELSE 0)]
    /\ next' = NoIndexes
    /\ heap' = [f \in {} |-> 0]
    /\ skipped' = 0
    /\ messages' = <<>>
    /\ response' = NoResponse
    /\ UNCHANGED <<files, torn, tears, indexes>>

-----------------------------------------------------------------------------
(* queryIndexes.                                                           *)

At(f, n) == files[f][n]

Newer(f, a, b) ==
    \/ At(f, a).at > At(f, b).at
    \/ At(f, a).at = At(f, b).at /\ a > b

(* Entries of a file from newest to oldest.                                *)
Newest(f, offsets) == Sorted(offsets, {p \in offsets \X offsets : Newer(f, p[1], p[2])})

Cached(f) == IF f \in DOMAIN indexes THEN indexes[f] ELSE <<>>

(* Mutant: the new entries are put in front of the cached ones.            *)
EntriesPrepended(f) ==
    LET size == Len(files[f])
    IN  Newest(f, Len(Cached(f)) + 1 .. size) \o Cached(f)

(* Mutant: an index that exists is taken to be up to date.                 *)
EntriesCached(f) ==
    IF f \in DOMAIN indexes THEN indexes[f] ELSE Newest(f, 1 .. Len(files[f]))

(* The index of a file whose size has not changed is reused; otherwise the *)
(* new records are scanned and the entries sorted.                         *)
Entries(f) ==
    IF Len(files[f]) = Len(Cached(f)) THEN Cached(f)
    ELSE Newest(f, ToSet(Cached(f)) \cup (Len(Cached(f)) + 1 .. Len(files[f])))

(* Mutant: lines that cannot be decoded are passed over.                   *)
UnreadableIgnored(f) == FALSE

(* A line that is scanned cannot be decoded.                               *)
Unreadable(f) ==
    \/ f \in torn
    \/ \E n \in Len(Cached(f)) + 1 .. Len(files[f]) : files[f][n] = Garbled

(* Files are listed once, and indexed from the last path to the first.     *)
Indexing(f) ==
    /\ pc = "index"
    /\ atStart[f] > 0 /\ f \notin DOMAIN next
    /\ \A other \in Files : other > f /\ atStart[other] > 0 => other \in DOMAIN next

IndexFile(f) ==
    /\ Indexing(f)
    /\ ~Unreadable(f)
    /\ next' = [g \in DOMAIN next \cup {f} |-> IF g = f THEN Entries(f) ELSE next[g]]
    /\ UNCHANGED <<files, torn, tears, indexes, query, pc, heap, skipped, messages, response,
                   atStart, asked>>

(* The query fails, and the indexes stay as they were.                     *)
IndexFails(f) ==
    /\ Indexing(f)
    /\ Unreadable(f)
    /\ response' = Failure
    /\ pc' = "done"
    /\ UNCHANGED <<files, torn, tears, indexes, query, next, heap, skipped, messages, atStart,
                   asked>>

(* The first entry that is not newer than Until.                           *)
FirstUntil(f) ==
    LET after == {i \in 1 .. Len(next[f]) : At(f, next[f][i]).at > query.until}
    IN  Cardinality(after) + 1

IndexDone ==
    /\ pc = "index"
    /\ \A f \in Files : atStart[f] > 0 => f \in DOMAIN next
    /\ indexes' = next
    /\ heap' = [f \in {g \in DOMAIN next : FirstUntil(g) <= Len(next[g])} |-> FirstUntil(f)]
    /\ pc' = "merge"
    /\ UNCHANGED <<files, torn, tears, query, next, skipped, messages, response, atStart, asked>>

-----------------------------------------------------------------------------
(* The loop of Query.                                                      *)

Entry(f) == next[f][heap[f]]

(* The cursor that heap.Pop returns: newest first, later paths first.      *)
OnTop(f) ==
    \A other \in DOMAIN heap :
        \/ At(f, Entry(f)).at > At(other, Entry(other)).at
        \/ At(f, Entry(f)).at = At(other, Entry(other)).at /\ f >= other

(* The cursor moves on, or leaves the heap at the end of its entries.      *)
Advanced(f) ==
    IF heap[f] < Len(next[f]) THEN [heap EXCEPT ![f] = @ + 1]
    ELSE [g \in DOMAIN heap \ {f} |-> heap[g]]

Selects(q, m) ==
    /\ q.hosts # {} => m.host \in q.hosts
    /\ q.text => m.match

(* handleMessages asks for one message more than the page holds.           *)
StoreLimit == query.limit + 1

Searching == pc = "merge" /\ DOMAIN heap # {} /\ Len(messages) < StoreLimit

(* The loop ends at the first message older than Since.                    *)
TooOld(f) == At(f, Entry(f)).at < query.since

Pop(f) ==
    LET m == At(f, Entry(f))
    IN  /\ Searching
        /\ f \in DOMAIN heap /\ OnTop(f) /\ ~TooOld(f)
        /\ heap' = Advanced(f)
        /\ \/ /\ ~Selects(query, m)
              /\ UNCHANGED <<skipped, messages>>
           \/ /\ Selects(query, m) /\ skipped < query.offset
              /\ skipped' = skipped + 1
              /\ UNCHANGED messages
           \/ /\ Selects(query, m) /\ skipped = query.offset
              /\ messages' = Append(messages, <<f, Entry(f)>>)
              /\ UNCHANGED skipped
        /\ UNCHANGED <<files, torn, tears, indexes, query, pc, next, response, atStart, asked>>

Respond ==
    /\ pc = "merge"
    /\ ~Searching \/ \E f \in DOMAIN heap : OnTop(f) /\ TooOld(f)
    /\ response' = [data |-> SubSeq(messages, 1, IF Len(messages) > query.limit
                                                 THEN query.limit ELSE Len(messages)),
                    hasMore |-> Len(messages) > query.limit, error |-> FALSE]
    /\ pc' = "done"
    /\ UNCHANGED <<files, torn, tears, indexes, query, next, heap, skipped, messages, atStart,
                   asked>>

Next ==
    \/ \E f \in Files, m \in Shapes : AppendMessage(f, m)
    \/ \E q \in Queries : BeginQuery(q)
    \/ \E f \in Files : AppendTorn(f) \/ IndexFile(f) \/ IndexFails(f)
    \/ IndexDone
    \/ \E f \in DOMAIN heap : Pop(f)
    \/ Respond

Spec == Init /\ [][Next]_vars

-----------------------------------------------------------------------------
(* The messages of the files that the query is about.                      *)
Wanted ==
    {p \in UNION {{f} \X (1 .. Len(next[f])) : f \in DOMAIN next} :
        /\ Selects(query, At(p[1], p[2]))
        /\ At(p[1], p[2]).at >= query.since
        /\ At(p[1], p[2]).at <= query.until}

(* Newest first, then later paths and later lines first.                   *)
Ahead(p, q) ==
    \/ At(p[1], p[2]).at > At(q[1], q[2]).at
    \/ /\ At(p[1], p[2]).at = At(q[1], q[2]).at
       /\ p[1] > q[1] \/ (p[1] = q[1] /\ p[2] > q[2])

Before == {pair \in Wanted \X Wanted : Ahead(pair[1], pair[2])}

(* What a query of a frozen archive should list.                           *)
Reference == Sorted(Wanted, Before)

LesserOf(a, b) == IF a < b THEN a ELSE b

(* The merge of the cached indexes gives the page of the reference list,   *)
(* and promises another page exactly if there is one, whatever was cached, *)
(* however messages of all times came in and whenever they were appended.  *)
PageExact ==
    pc = "done" /\ ~response.error =>
        /\ response.data = SubSeq(Reference, query.offset + 1,
                                  LesserOf(query.offset + query.limit, Len(Reference)))
        /\ response.hasMore = (Len(Reference) > query.offset + query.limit)

(* A query sees every message that was stored when it began, or fails: no  *)
(* message whose append was confirmed is passed over in silence, neither   *)
(* one the cached index lacks nor one that completed a torn line.          *)
SeesStored ==
    pc \in {"merge", "done"} /\ ~response.error =>
        \A f \in Files : atStart[f] > 0 =>
            /\ f \in DOMAIN next /\ 1 .. atStart[f] \subseteq ToSet(next[f])
            /\ \A n \in 1 .. atStart[f] : files[f][n] # Garbled
=============================================================================
