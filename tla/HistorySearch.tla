---------------------------- MODULE HistorySearch ----------------------------
(***************************************************************************)
(* crates/marspot-term/src/scrollback/snapshot.rs: a search over a pane's  *)
(* history.  The main thread flushes both files of FileScrollback and      *)
(* opens them once more; a worker reads rows through these two             *)
(* descriptors, first the index entry and then the record, while the main  *)
(* thread pushes, rotates and clears.                                      *)
(*                                                                         *)
(* A descriptor stays with its file: a rotation renames the file under it, *)
(* the next rotation removes it, and what was open can still be read.  A   *)
(* clear or a reflow cuts the file itself.  Only the files are searched    *)
(* here; the rows of the visible grid, which are copied when a search      *)
(* starts, and the matching are left out.                                  *)
(***************************************************************************)
EXTENDS FileScrollback

CONSTANTS
    MaxRows,        \* bound on the lines of a history that is searched
    MaxSearchOpens  \* bound on the processes in which there is a search

ASSUME HistorySearchAssumption == MaxRows \in Nat /\ MaxSearchOpens \in Nat

VARIABLE search     \* the newest search, see Searches

historyVars == <<fileVars, search>>

Cold == [bin |-> "cold.bin", idx |-> "cold.idx"]
Names == Files \union {"cold.bin", "cold.idx", "removed"}

Searches == [on : BOOLEAN,
             name : [Files -> Names],        \* what the open files are called
             kept : [Files -> Seq(Nat)],     \* their contents, once removed
             rows : Nat,                     \* total_lines
             row : Nat,                      \* the row being read, or 0
             entry : Nat,                    \* its index entry, or None
             read : Nat,                     \* the last row that was read
             line : Nat,                     \* and what was found there
             \* What the code does not keep:
             view : Seq(Lines),              \* the history when it started
             oneTier : BOOLEAN,              \* of which no line was cold
             cut : BOOLEAN]                  \* cleared or reflowed since

NoSearch == [on |-> FALSE, name |-> [f \in Files |-> f], kept |-> NoBuffers,
             rows |-> 0, row |-> 0, entry |-> None, read |-> 0, line |-> None,
             view |-> <<>>, oneTier |-> TRUE, cut |-> FALSE]

SearchInit == FileInit /\ search = NoSearch
-----------------------------------------------------------------------------
NewSearch == [NoSearch EXCEPT !.on = TRUE, !.rows = total, !.view = view,
                              !.oneTier = hotFirst = 0]

\* Mutant: the data file is flushed, the index is not.
StartSearchUnflushed ==
    /\ Idle
    /\ total <= MaxRows /\ opens <= MaxSearchOpens
    /\ disk' = Put(disk, "bin", Flushed("bin"))
    /\ buffer' = [buffer EXCEPT !["bin"] = <<>>]
    /\ queued' = [queued EXCEPT !["bin"] = <<>>]
    /\ search' = NewSearch
    /\ UNCHANGED <<ring, clipped, total, hotFirst, coldFirst, coldTotal,
                   coldOpen, tail, unflushed, stage, todo, ghosts>>

\* snapshot_for_search; the worker of an earlier search is cancelled.
StartSearch ==
    /\ Idle
    /\ total <= MaxRows /\ opens <= MaxSearchOpens
    /\ disk' = FlushedDisk
    /\ buffer' = NoBuffers
    /\ queued' = NoBuffers
    /\ search' = NewSearch
    /\ UNCHANGED <<ring, clipped, total, hotFirst, coldFirst, coldTotal,
                   coldOpen, tail, unflushed, stage, todo, ghosts>>

\* Mutant: the files are opened by their path for every row.
ContentsByPath(f) == IF Exists(disk, f) THEN disk[f] ELSE <<>>

\* What is in the file a descriptor of the search belongs to.
Contents(f) ==
    IF search.name[f] = "removed" THEN search.kept[f] ELSE disk[search.name[f]]

\* read_row: the worker reads the entry of a row.
ReadEntry ==
    /\ search.on
    /\ search.row = 0
    /\ \E i \in 1 .. search.rows :
          search' = [search EXCEPT
              !.row = i,
              !.entry = IF i \in DOMAIN Contents("idx") THEN Contents("idx")[i]
                        ELSE None]
    /\ UNCHANGED fileVars

\* ... and the record the entry points to.
ReadRecord ==
    /\ search.on
    /\ search.row # 0
    /\ search' = [search EXCEPT
          !.row = 0,
          !.read = search.row,
          !.line = IF search.entry \in DOMAIN Contents("bin")
                   THEN Contents("bin")[search.entry] ELSE None]
    /\ UNCHANGED fileVars

\* What a step of the files is to the descriptors: a hot file that goes has
\* been renamed, a cold one removed.
NameAfter(f) == CASE search.name[f] \in DOMAIN disk' -> search.name[f]
                  [] search.name[f] \notin DOMAIN disk' /\ search.name[f] = f -> Cold[f]
                  [] OTHER -> "removed"
KeptAfter(f) == IF NameAfter(f) = "removed" THEN Contents(f) ELSE <<>>

\* The main thread and the writers go on; the worker ends with its process.
FileWork ==
    /\ FileNext
    /\ search' = IF stage' = "down" \/ ~search.on THEN NoSearch
                 ELSE [search EXCEPT
                        !.name = [f \in Files |-> NameAfter(f)],
                        !.kept = [f \in Files |-> KeptAfter(f)],
                        !.cut = @ \/ StartClear \/ Reflow]

SearchNext == StartSearch \/ ReadEntry \/ ReadRecord \/ FileWork

SearchSpec == SearchInit /\ [][SearchNext]_historyVars
-----------------------------------------------------------------------------
SearchTypeOK == FileTypeOK /\ search \in Searches

\* A row a search has read is the line the history had there when the search
\* started (snapshot.rs:9-16), whatever has been pushed, rotated out or
\* removed since: for a history in one tier that nobody has cut.
SearchReadsItsHistory ==
    search.read # 0 /\ search.oneTier /\ ~search.cut =>
        search.line = search.view[search.read]

\* The same of every history, over two tiers (snapshot.rs:9).
SearchSeesColdTier ==
    search.read # 0 /\ ~search.cut => search.line = search.view[search.read]

\* The same of a history that is cleared while it is searched: the view is
\* "frozen at snapshot" (snapshot.rs:9).
SearchIsFrozen ==
    search.read # 0 /\ search.oneTier => search.line \in {None, search.view[search.read]}
=============================================================================
