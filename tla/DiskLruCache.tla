---------------------------- MODULE DiskLruCache ----------------------------
(***************************************************************************)
(* okhttp3/internal/cache/DiskLruCache.java, used as Cache.java uses it:   *)
(* put() edits an entry and writes both values, update() edits a snapshot  *)
(* and writes the metadata only.  Every method holds the monitor from      *)
(* beginning to end, so methods do not interleave; but the process may die *)
(* between any two operations on the file system, and each of these may    *)
(* fail.  `method` is the method under way, `step` what it does next, `key`*)
(* and `nth` to which file; a step that fails goes on where it is caught.  *)
(*                                                                         *)
(* The content of a file is the number of the edit that wrote it, 0 for no *)
(* file; every value has length 1.  When the journal has become redundant  *)
(* enough to be rebuilt (2000 lines) is left open.  Failures while opening *)
(* and journals somebody else has damaged are not modelled; every other    *)
(* operation on a file may fail.                                           *)
(***************************************************************************)
EXTENDS Integers, Sequences, FiniteSets

CONSTANTS Keys,
          MaxSize,   \* maxSize, in values
          MaxEdits,  \* bound: edits in a behaviour
          MaxLines,  \* bound: lines in the journal
          MaxFaults, \* bound: crashes and failures
          NoKey      \* not a key

ASSUME CacheAssumption ==
    {MaxSize, MaxEdits, MaxLines, MaxFaults} \subseteq Nat /\ NoKey \notin Keys

Index == 1..2  \* Cache.ENTRY_METADATA, Cache.ENTRY_BODY
Recovered == MaxEdits + 1  \* the editor readJournalLine makes for a DIRTY line

VARIABLES journal, backup,  \* the journal files, <<>> for none
          clean, dirty,     \* clean[k][i], dirty[k][i]: the files of an entry
          up,               \* initialized and not closed
          method, step,     \* the method under way and its next step
          key, nth,         \* the file it is at: of which key, which value or line
          lru,              \* keys of lruEntries, eldest first
          entry,            \* entry[k]: the Entry of a key in lru
          size,
          buffer, writer,   \* unwritten lines; "file", "broken" or "blackhole"
          trimFailed,       \* mostRecentTrimFailed
          nextSeq,          \* nextSequenceNumber
          snap,             \* snap[k]: a snapshot somebody holds, `of` what pub[k] was
          edits, faults,    \* how many there were
          pub,              \* pub[k]: the edits the last commit of k published
          durable,          \* keys whose last commit must survive a crash
          torn,             \* keys of edits a failing file operation split, and of
                            \* commits that published a leaked file
          leaked            \* temporary files detach() could not delete: of which key,
                            \* which value, which edit

disk == <<journal, backup, clean, dirty>>
log == <<journal, buffer, writer>>
files == <<clean, dirty>>
todo == <<method, step, key, nth>>
memory == <<lru, entry, size>>
ghost == <<edits, faults, pub, durable, torn, leaked>>
cacheVars == <<disk, up, todo, buffer, writer, memory, trimFailed, nextSeq, snap, ghost>>

NoFiles == [i \in Index |-> 0]
\* editor: the edit under way or 0; held: the client still has to complete it;
\* writes: the values it replaces; left: those it has not opened yet.
NoEntry == [readable |-> FALSE, len |-> NoFiles, seq |-> 0,
            editor |-> 0, held |-> FALSE, writes |-> {}, left |-> {}]
Released(e) == [e EXCEPT !.editor = 0, !.held = FALSE, !.writes = {}, !.left = {}]
NoSnap == [seq |-> -1, of |-> NoFiles]

Line(op, k) == [op |-> op, key |-> k, len |-> NoFiles]
CleanLine(k) == [op |-> "CLEAN", key |-> k, len |-> entry[k].len]
TornLine == Line("TORN", NoKey)
Header == Line("HEADER", NoKey)

CacheInit ==
    /\ journal = <<>> /\ backup = <<>>
    /\ clean = [k \in Keys |-> NoFiles] /\ dirty = [k \in Keys |-> NoFiles]
    /\ up = FALSE /\ method = "none" /\ step = "rest" /\ key = NoKey /\ nth = 0
    /\ lru = <<>> /\ entry = [k \in Keys |-> NoEntry] /\ size = 0
    /\ buffer = <<>> /\ writer = "none" /\ trimFailed = FALSE
    /\ nextSeq = 0 /\ snap = [k \in Keys |-> NoSnap]
    /\ edits = 0 /\ faults = 0
    /\ pub = [k \in Keys |-> NoFiles] /\ durable = {} /\ torn = {} /\ leaked = {}

\* LinkedHashMap in access order: get and put move a key to the end.
Elements(s) == {s[i] : i \in 1..Len(s)}
WithoutKey(s, k) ==
    IF k \notin Elements(s) THEN s
    ELSE LET i == CHOOSE i \in 1..Len(s) : s[i] = k
         IN  SubSeq(s, 1, i - 1) \o SubSeq(s, i + 1, Len(s))
Touch(s, k) == Append(WithoutKey(s, k), k)
InLru(k) == k \in Elements(lru)
AtRest == up /\ method = "none"
\* The temporary file of value i of k is one that detach() left behind.
Leaked(k, i) == <<k, i, dirty[k][i]>> \in leaked
Fault == faults < MaxFaults /\ faults' = faults + 1

\* What a write that is cut short may have written: some lines, and half a line.
CutShort(lines) ==
    {SubSeq(lines, 1, n) : n \in 0..Len(lines)}
        \cup {Append(SubSeq(lines, 1, n), TornLine) : n \in 0..(Len(lines) - 1)}

\* A line is written to the buffered writer.
Log(line) ==
    /\ buffer' = IF writer = "file" THEN Append(buffer, line) ELSE buffer
    /\ UNCHANGED <<journal, writer, faults>>

\* A line is written and flushed; FaultHidingSink keeps quiet about a failure.
LogFlushed(line) ==
    \/ /\ writer = "file"
       /\ journal' = Append(journal \o buffer, line)
       /\ buffer' = <<>> /\ UNCHANGED <<writer, faults>>
    \/ /\ writer = "file" /\ Fault
       /\ \E part \in CutShort(Append(buffer, line)) : journal' = journal \o part
       /\ writer' = "broken" /\ buffer' = <<>>
    \/ writer # "file" /\ UNCHANGED <<log, faults>>

-----------------------------------------------------------------------------
(* How a method goes on. *)

Goto(s) == step' = s /\ UNCHANGED <<method, key, nth>>
Return == method' = "none" /\ step' = "rest" /\ key' = NoKey /\ nth' = 0

\* At the files of k, or back at a loop or at the journal.
ToFiles(s, k) == step' = s /\ key' = k /\ nth' = 1
Leave(s) == step' = s /\ key' = NoKey /\ nth' = 0 /\ UNCHANGED method

\* for (int i = 0; i < valueCount; i++)
NextValue(s) ==
    IF nth = 1 THEN nth' = 2 /\ UNCHANGED <<method, step, key>> ELSE Goto(s)

\* removeEntry, with the editor's detach() first.
RemoveEntry(k) == ToFiles(IF entry[k].editor = 0 THEN "deleteClean" ELSE "deleteDirty", k)

\* The first entry of lru somebody is editing.
FirstEdited(k) ==
    \E n \in 1..Len(lru) :
        /\ lru[n] = k /\ entry[k].editor # 0
        /\ \A m \in 1..(n - 1) : entry[lru[m]].editor = 0
NoneEdited == \A k \in Elements(lru) : entry[k].editor = 0

-----------------------------------------------------------------------------
(* Opening: initialize, readJournal, processJournal. *)

\* "If a bkp file exists, use it instead"; without a journal, make one.
Open ==
    /\ ~up /\ method = "none"
    /\ method' = "open" /\ key' = NoKey
    /\ nth' = IF journal # <<>> \/ backup # <<>> THEN 2 ELSE 0
    /\ step' = CASE journal # <<>> /\ backup # <<>> -> "dropOld"
                 [] journal = <<>> /\ backup # <<>> -> "fromBackup"
                 [] journal # <<>> /\ backup = <<>> -> "read"
                 [] OTHER -> "toBackup"
    /\ UNCHANGED <<disk, up, buffer, writer, memory, trimFailed, nextSeq, snap, ghost>>

\* readJournalLine: entries in access order.
ReadLine(line) ==
    LET k == line.key
    IN  /\ lru' = IF line.op = "REMOVE" THEN WithoutKey(lru, k) ELSE Touch(lru, k)
        /\ entry' = [entry EXCEPT ![k] =
             CASE line.op = "REMOVE" -> NoEntry
               [] line.op = "CLEAN" -> [@ EXCEPT !.readable = TRUE, !.editor = 0, !.len = line.len]
               [] line.op = "DIRTY" -> [@ EXCEPT !.editor = Recovered]
               [] line.op = "READ" -> @]

Read ==
    /\ step = "read" /\ nth <= Len(journal) /\ journal[nth].op # "TORN"
    /\ ReadLine(journal[nth])
    /\ nth' = nth + 1
    /\ UNCHANGED <<disk, up, method, step, key, buffer, writer, size, trimFailed, nextSeq, snap,
                   ghost>>

\* "If we ended on a truncated line, rebuild the journal before appending to it."
ReadEnds ==
    /\ step = "read" /\ (nth <= Len(journal) => journal[nth].op = "TORN")
    /\ Leave(IF nth <= Len(journal) THEN "toBackup" ELSE "newWriter")
    /\ UNCHANGED <<disk, up, buffer, writer, memory, trimFailed, nextSeq, snap, ghost>>

\* processJournal: the next entry with an edit that nobody completed.
PurgeNext ==
    /\ step = "purge"
    /\ \E k \in Keys : FirstEdited(k) /\ ToFiles("purgeClean", k)
    /\ UNCHANGED <<disk, up, method, buffer, writer, memory, trimFailed, nextSeq, snap, ghost>>

SumOf(ks, e) ==
    Cardinality({x \in ks \X Index : e[x[1]].len[x[2]] = 1})

Opened ==
    /\ step = "purge" /\ NoneEdited
    /\ size' = SumOf(Elements(lru), entry)
    /\ up' = TRUE /\ Return
    /\ UNCHANGED <<disk, buffer, writer, lru, entry, trimFailed, nextSeq, snap, ghost>>

UnlinkClean ==
    /\ step = "purgeClean"
    /\ clean' = [clean EXCEPT ![key][nth] = 0]
    /\ Goto("purgeDirty")
    /\ UNCHANGED <<journal, backup, dirty, up, buffer, writer, memory, trimFailed, nextSeq, snap, ghost>>

UnlinkDirty ==
    /\ step = "purgeDirty"
    /\ dirty' = [dirty EXCEPT ![key][nth] = 0]
    /\ IF nth = 1 THEN step' = "purgeClean" /\ nth' = 2 /\ UNCHANGED <<method, key>>
       ELSE Goto("forget")
    /\ UNCHANGED <<journal, backup, clean, up, buffer, writer, memory, trimFailed, nextSeq, snap, ghost>>

Forget ==
    /\ step = "forget"
    /\ lru' = WithoutKey(lru, key)
    /\ entry' = [entry EXCEPT ![key] = NoEntry]
    /\ Leave("purge")
    /\ UNCHANGED <<disk, up, buffer, writer, size, trimFailed, nextSeq, snap, ghost>>

-----------------------------------------------------------------------------
(* The steps of the methods, with what they do in memory. *)

\* fileSystem.delete of a temporary file: detach() and completeEdit(editor, false)
DeleteDirty ==
    /\ step \in {"deleteDirty", "abortDirty"}
    /\ dirty' = [dirty EXCEPT ![key][nth] = 0]
    /\ NextValue(IF step = "deleteDirty" THEN "detach" ELSE "aborted")
    /\ UNCHANGED <<journal, backup, clean, up, buffer, writer, memory, trimFailed, nextSeq, snap, ghost>>

Detach ==
    /\ step = "detach"
    /\ entry' = [entry EXCEPT ![key] = Released(@)]
    /\ IF method = "write" THEN Return ELSE ToFiles("deleteClean", key) /\ UNCHANGED method
    /\ UNCHANGED <<disk, up, buffer, writer, lru, size, trimFailed, nextSeq, snap, ghost>>

\* removeEntry: a value goes, and its length with it.
DeleteClean ==
    /\ step = "deleteClean"
    /\ clean' = [clean EXCEPT ![key][nth] = 0]
    /\ size' = size - entry[key].len[nth]
    /\ entry' = [entry EXCEPT ![key].len[nth] = 0]
    /\ durable' = durable \ {key}
    /\ NextValue("removed")
    /\ UNCHANGED <<journal, backup, dirty, up, buffer, writer, lru, trimFailed, nextSeq, snap,
                   edits, faults, pub, torn, leaked>>

\* The end of removeEntry, and of remove(); a loop goes on.
Removed ==
    /\ step = "removed"
    /\ Log(Line("REMOVE", key))
    /\ lru' = WithoutKey(lru, key)
    /\ entry' = [entry EXCEPT ![key] = NoEntry]
    /\ trimFailed' = (trimFailed /\ ~(method = "remove" /\ size <= MaxSize))
    /\ CASE method \in {"get", "remove"} -> Return
         [] method = "evictAll" -> Leave("evictAll")
         [] OTHER -> Leave("trim")
    /\ UNCHANGED <<backup, files, up, size, nextSeq, snap, edits, pub, durable, torn, leaked>>

\* completeEdit: a temporary file becomes the value, whichever edit has left it.
Publish ==
    /\ step = "publish"
    /\ torn' = IF Leaked(key, nth) THEN torn \cup {key} ELSE torn
    /\ IF dirty[key][nth] = 0 THEN UNCHANGED <<files, memory>>
       ELSE /\ clean' = [clean EXCEPT ![key][nth] = dirty[key][nth]]
            /\ dirty' = [dirty EXCEPT ![key][nth] = 0]
            /\ size' = size - entry[key].len[nth] + 1
            /\ entry' = [entry EXCEPT ![key].len[nth] = 1]
            /\ UNCHANGED lru
    /\ NextValue("committed")
    /\ UNCHANGED <<journal, backup, up, buffer, writer, trimFailed, nextSeq, snap,
                   edits, faults, pub, durable, leaked>>

\* The last commit of k is whole, and the journal has been told.
Safe(k) == writer' = "file" /\ k \notin torn /\ clean[k] = pub'[k]

Committed ==
    /\ step = "committed"
    /\ LogFlushed(CleanLine(key))
    /\ entry' = [entry EXCEPT ![key] = [Released(@) EXCEPT !.readable = TRUE, !.seq = nextSeq]]
    /\ nextSeq' = nextSeq + 1
    /\ pub' = [pub EXCEPT ![key] =
                 [i \in Index |-> IF i \in entry[key].writes THEN entry[key].editor ELSE @[i]]]
    /\ durable' = IF Safe(key) THEN durable \cup {key} ELSE durable
    /\ Return
    /\ UNCHANGED <<backup, files, up, lru, size, trimFailed, snap, edits, torn, leaked>>

Aborted ==
    /\ step = "aborted"
    /\ UNCHANGED <<backup, files, up, size, trimFailed, nextSeq, snap, edits, pub, torn, leaked>>
    /\ IF entry[key].readable
       THEN /\ LogFlushed(CleanLine(key))
            /\ entry' = [entry EXCEPT ![key] = Released(@)]
            /\ durable' = IF Safe(key) THEN durable \cup {key} ELSE durable
            /\ UNCHANGED lru
       ELSE /\ LogFlushed(Line("REMOVE", key))
            /\ entry' = [entry EXCEPT ![key] = NoEntry]
            /\ lru' = WithoutKey(lru, key)
            /\ UNCHANGED durable
    /\ IF method = "close" THEN Leave("closing") ELSE Return

\* The job of the cleanup thread once it has trimmed: rebuild the journal or not.
RebuildOrNot == Goto("closeWriter") \/ Return

\* trimToSize: evict the eldest until the size fits; an empty map would throw.
Trim ==
    /\ step = "trim"
    /\ IF size > MaxSize
       THEN /\ IF lru = <<>> THEN Return ELSE RemoveEntry(Head(lru)) /\ UNCHANGED method
            /\ UNCHANGED trimFailed
       ELSE /\ trimFailed' = FALSE
            /\ CASE method = "flush" -> Goto("flushWriter")
                 [] method = "close" -> Goto("closeWriter")
                 [] method = "cleanup" -> RebuildOrNot
    /\ UNCHANGED <<disk, up, buffer, writer, memory, nextSeq, snap, ghost>>

\* evictAll: the next entry.
EvictNext ==
    /\ step = "evictAll"
    /\ IF lru = <<>> THEN trimFailed' = FALSE /\ Return
       ELSE RemoveEntry(Head(lru)) /\ UNCHANGED <<method, trimFailed>>
    /\ UNCHANGED <<disk, up, buffer, writer, memory, nextSeq, snap, ghost>>

\* close: the next edit to abort.
AbortNext ==
    /\ step = "closing"
    /\ \/ \E k \in Keys : FirstEdited(k) /\ ToFiles("abortDirty", k) /\ UNCHANGED method
       \/ NoneEdited /\ Leave("trim")
    /\ UNCHANGED <<disk, up, buffer, writer, memory, trimFailed, nextSeq, snap, ghost>>

\* journalWriter.flush() and close()
WriteOut ==
    /\ step \in {"flushWriter", "closeWriter"}
    /\ \/ /\ journal' = IF writer = "file" THEN journal \o buffer ELSE journal
          /\ writer' = IF step = "closeWriter" THEN "none" ELSE writer
          /\ UNCHANGED faults
       \/ /\ writer = "file" /\ buffer # <<>> /\ Fault
          /\ \E part \in CutShort(buffer) : journal' = journal \o part
          /\ writer' = IF step = "closeWriter" THEN "none" ELSE "broken"
    /\ buffer' = <<>>
    /\ CASE method = "flush" -> Return
         [] method = "close" -> Goto("closed")
         [] method = "cleanup" -> Goto("toBackup")
    /\ UNCHANGED <<backup, files, up, memory, trimFailed, nextSeq, snap, edits, pub, durable,
                   torn, leaked>>

\* Mutant of ToBackup: the journal goes without a backup.
ToBackupDeleted ==
    /\ step = "toBackup"
    /\ journal' = <<>>
    /\ Goto("toJournal")
    /\ UNCHANGED <<backup, files, up, buffer, writer, memory, trimFailed, nextSeq, snap, ghost>>

\* rebuildJournal: journal.tmp is written, the journal becomes the backup,
\* journal.tmp the journal, and the backup is dropped.
ToBackup ==
    /\ step = "toBackup"
    /\ IF journal = <<>> THEN UNCHANGED <<journal, backup>>
       ELSE backup' = journal /\ journal' = <<>>
    /\ Goto("toJournal")
    /\ UNCHANGED <<files, up, buffer, writer, memory, trimFailed, nextSeq, snap, ghost>>

\* Mutant of RebuiltLine: an entry that is being edited is recorded as published.
RebuiltLineClean(k) == CleanLine(k)

RebuiltLine(k) == IF entry[k].editor # 0 THEN Line("DIRTY", k) ELSE CleanLine(k)

ToJournal ==
    /\ step = "toJournal"
    /\ journal' = <<Header>> \o [n \in 1..Len(lru) |-> RebuiltLine(lru[n])]
    /\ durable' = durable \cup {k \in Elements(lru) \ torn :
                     entry[k].readable /\ entry[k].editor = 0 /\ clean[k] = pub[k]}
    /\ Goto("dropBackup")
    /\ UNCHANGED <<backup, files, up, buffer, writer, memory, trimFailed, nextSeq, snap,
                   edits, faults, pub, torn, leaked>>

\* The backup goes: after a rebuild, or on opening because there is a journal.
DropBackup ==
    /\ step \in {"dropBackup", "dropOld"}
    /\ backup' = <<>>
    /\ Goto(IF step = "dropOld" THEN "read" ELSE "newWriter")
    /\ UNCHANGED <<journal, files, up, buffer, writer, memory, trimFailed, nextSeq, snap, ghost>>

FromBackup ==
    /\ step = "fromBackup"
    /\ journal' = backup /\ backup' = <<>>
    /\ Goto("read")
    /\ UNCHANGED <<files, up, buffer, writer, memory, trimFailed, nextSeq, snap, ghost>>

NewWriter ==
    /\ step = "newWriter"
    /\ writer' = "file" /\ buffer' = <<>>
    /\ IF method = "open" THEN Leave("purge") ELSE Return
    /\ UNCHANGED <<disk, up, memory, trimFailed, nextSeq, snap, ghost>>

\* What the process knew is gone.
MemoryLost ==
    /\ up' = FALSE /\ Return
    /\ lru' = <<>> /\ entry' = [k \in Keys |-> NoEntry] /\ size' = 0
    /\ buffer' = <<>> /\ writer' = "none" /\ trimFailed' = FALSE
    /\ nextSeq' = 0 /\ snap' = [k \in Keys |-> NoSnap]

Closed ==
    /\ step = "closed"
    /\ MemoryLost
    /\ UNCHANGED <<disk, ghost>>

-----------------------------------------------------------------------------
(* What goes wrong. *)

\* detach() catches what delete throws: "This file is potentially leaked."
DeleteDirtyFails ==
    /\ step = "deleteDirty" /\ dirty[key][nth] # 0
    /\ Fault
    /\ leaked' = leaked \cup {<<key, nth, dirty[key][nth]>>}
    /\ NextValue("detach")
    /\ UNCHANGED <<disk, up, buffer, writer, memory, trimFailed, nextSeq, snap, edits, pub, durable, torn>>

Rebuilding == {"toBackup", "toJournal", "dropBackup"}
Throwing == {"abortDirty", "deleteClean", "publish"} \cup Rebuilding

\* rename deletes its target first: half of Publish may have happened.
HalfPublished ==
    \/ UNCHANGED clean
    \/ /\ step = "publish" /\ dirty[key][nth] # 0
       /\ clean' = [clean EXCEPT ![key][nth] = 0]

\* Any other file operation throws: the method goes on where that is caught, or ends.
OpFails ==
    /\ up /\ step \in Throwing
    /\ step = "publish" => dirty[key][nth] # 0
    /\ Fault
    /\ \/ /\ method = "cleanup" /\ step = "deleteClean"
          /\ trimFailed' = TRUE /\ (Leave("closeWriter") \/ Return)
          /\ UNCHANGED <<buffer, writer, torn>>
       \/ /\ method = "cleanup" /\ step \in Rebuilding
          /\ writer' = "blackhole" /\ buffer' = <<>> /\ Return
          /\ UNCHANGED <<trimFailed, torn>>
       \* Cache.update aborts the edit, whose value is published if it fails at a leaked file
       \/ /\ method = "commit" /\ entry[key].writes # Index
          /\ method' = "abort" /\ ToFiles("abortDirty", key)
          /\ torn' = IF Leaked(key, nth) THEN torn \cup {key} ELSE torn
          /\ UNCHANGED <<buffer, writer, trimFailed>>
       \* an edit of which one file is done, and that may go on (close) or is stuck
       \/ /\ method # "cleanup" /\ (method = "commit" => entry[key].writes = Index)
          /\ torn' = IF step = "deleteClean" THEN torn ELSE torn \cup {key}
          /\ Return
          /\ UNCHANGED <<buffer, writer, trimFailed>>
    /\ HalfPublished
    /\ UNCHANGED <<journal, backup, dirty, up, memory, nextSeq, snap, edits, pub, durable, leaked>>

\* The process dies; some of the buffered lines may have been written.
Crash ==
    /\ up \/ method # "none"
    /\ Fault
    /\ IF writer = "file" THEN \E part \in CutShort(buffer) : journal' = journal \o part
       ELSE UNCHANGED journal
    /\ HalfPublished
    /\ MemoryLost
    /\ UNCHANGED <<backup, dirty, edits, pub, durable, torn, leaked>>

-----------------------------------------------------------------------------
(* What clients call. *)

RoomInJournal ==
    Len(journal) + Len(buffer) + 2 <= MaxLines

\* get: a snapshot, nothing, or the discovery that a file is missing.
Get(k) ==
    /\ AtRest /\ InLru(k) /\ RoomInJournal
    /\ lru' = Touch(lru, k)
    /\ IF entry[k].readable /\ 0 \notin {clean[k][i] : i \in Index}
       THEN /\ snap' = [snap EXCEPT ![k] = [seq |-> entry[k].seq, of |-> pub[k]]]
            /\ Log(Line("READ", k))
            /\ UNCHANGED todo
       ELSE /\ IF entry[k].readable THEN method' = "get" /\ RemoveEntry(k) ELSE UNCHANGED todo
            /\ UNCHANGED <<log, snap, faults>>
    /\ UNCHANGED <<backup, files, up, entry, size, trimFailed, nextSeq, edits, pub, durable,
                   torn, leaked>>

\* Mutant of EditEntry: the DIRTY line stays in the buffer.
EditEntryUnflushed(k, writes) ==
    /\ AtRest /\ edits < MaxEdits /\ RoomInJournal
    /\ entry[k].editor = 0 /\ ~trimFailed /\ writer # "blackhole"
    /\ Log(Line("DIRTY", k))
    /\ durable' = durable \ {k}
    /\ IF writer' # "file" THEN lru' = (IF InLru(k) THEN Touch(lru, k) ELSE lru) /\ UNCHANGED <<entry, edits>>
       ELSE /\ lru' = Touch(lru, k)
            /\ edits' = edits + 1
            /\ entry' = [entry EXCEPT ![k] = [@ EXCEPT !.editor = edits + 1, !.held = TRUE,
                                                        !.writes = writes, !.left = writes]]
    /\ UNCHANGED <<backup, files, up, todo, size, trimFailed, nextSeq, snap, pub, torn, leaked>>

\* edit: refused while another edit, a failed trim or a failed rebuild is around.
EditEntry(k, writes) ==
    /\ AtRest /\ edits < MaxEdits /\ RoomInJournal
    /\ entry[k].editor = 0 /\ ~trimFailed /\ writer # "blackhole"
    /\ LogFlushed(Line("DIRTY", k))
    /\ durable' = durable \ {k}
    /\ IF writer' # "file"
       THEN lru' = (IF InLru(k) THEN Touch(lru, k) ELSE lru) /\ UNCHANGED <<entry, edits>>
       ELSE /\ lru' = Touch(lru, k)
            /\ edits' = edits + 1
            /\ entry' = [entry EXCEPT ![k] = [@ EXCEPT !.editor = edits + 1, !.held = TRUE,
                                                        !.writes = writes, !.left = writes]]
    /\ UNCHANGED <<backup, files, up, todo, size, trimFailed, nextSeq, snap, pub, torn, leaked>>

\* Cache.put and Cache.update
Edit(k) == EditEntry(k, Index)
EditSnapshot(k) ==
    /\ InLru(k) /\ snap[k].seq = entry[k].seq
    /\ EditEntry(k, {1})

\* An edit that is refused has still looked its entry up.
EditRefused(k) ==
    /\ AtRest /\ InLru(k)
    /\ \/ entry[k].editor # 0 \/ trimFailed \/ writer = "blackhole"
       \/ snap[k] # NoSnap /\ snap[k].seq # entry[k].seq
    /\ lru' = Touch(lru, k)
    /\ UNCHANGED <<disk, up, todo, buffer, writer, entry, size, trimFailed, nextSeq, snap, ghost>>

\* newSink, metadata first; a file that cannot be opened is replaced by a black hole.
Write(k, i) ==
    /\ AtRest /\ entry[k].held /\ i \in entry[k].left /\ \A j \in entry[k].left : i <= j
    /\ entry' = [entry EXCEPT ![k].left = @ \ {i}]
    /\ \/ dirty' = [dirty EXCEPT ![k][i] = entry[k].editor] /\ UNCHANGED <<faults, torn>>
       \/ /\ Fault /\ UNCHANGED dirty
          /\ torn' = IF entry[k].readable THEN torn \cup {k} ELSE torn
    /\ UNCHANGED <<journal, backup, clean, up, todo, buffer, writer, lru, size, trimFailed, nextSeq, snap,
                   edits, pub, durable, leaked>>

\* A write fails: the editor is detached.
WriteFails(k) ==
    /\ AtRest /\ entry[k].held /\ entry[k].left # entry[k].writes
    /\ Fault
    /\ method' = "write" /\ ToFiles("deleteDirty", k)
    /\ UNCHANGED <<disk, up, buffer, writer, memory, trimFailed, nextSeq, snap, edits, pub, durable,
                   torn, leaked>>

\* commit: a new entry must have all its files, or the edit is aborted.
Commit(k) ==
    /\ AtRest /\ entry[k].held /\ entry[k].left = {}
    /\ entry' = [entry EXCEPT ![k].held = FALSE]
    /\ method' = "commit"
    /\ ToFiles(IF ~entry[k].readable /\ \E i \in Index : dirty[k][i] = 0
               THEN "abortDirty" ELSE "publish", k)
    /\ UNCHANGED <<disk, up, buffer, writer, lru, size, trimFailed, nextSeq, snap, ghost>>

Abort(k) ==
    /\ AtRest /\ entry[k].held
    /\ entry' = [entry EXCEPT ![k].held = FALSE]
    /\ method' = "abort" /\ ToFiles("abortDirty", k)
    /\ UNCHANGED <<disk, up, buffer, writer, lru, size, trimFailed, nextSeq, snap, ghost>>

\* remove, evictAll, flush, close, and the job of the cleanup thread
RemoveKey(k) ==
    /\ AtRest /\ InLru(k) /\ RoomInJournal
    /\ method' = "remove" /\ RemoveEntry(k)
    /\ UNCHANGED <<disk, up, buffer, writer, memory, trimFailed, nextSeq, snap, ghost>>

Call(name, s) ==
    /\ AtRest
    /\ method' = name /\ step' = s /\ UNCHANGED <<key, nth>>
    /\ UNCHANGED <<disk, up, buffer, writer, memory, trimFailed, nextSeq, snap, ghost>>

EvictAll == RoomInJournal /\ Call("evictAll", "evictAll")
Flush == Call("flush", "trim")
Close == Call("close", "closing")
Cleanup == Call("cleanup", "trim")

FileStep ==
    \/ Read \/ ReadEnds \/ PurgeNext \/ Opened \/ UnlinkClean \/ UnlinkDirty \/ Forget
    \/ DeleteDirty \/ Detach \/ DeleteClean \/ Removed \/ Publish \/ Committed \/ Aborted
    \/ Trim \/ EvictNext \/ AbortNext \/ WriteOut
    \/ ToBackup \/ ToJournal \/ DropBackup \/ FromBackup \/ NewWriter \/ Closed

ClientCall ==
    \/ \E k \in Keys :
         \/ Get(k) \/ Edit(k) \/ EditSnapshot(k) \/ EditRefused(k) \/ WriteFails(k) \/ Commit(k)
         \/ Abort(k) \/ RemoveKey(k)
         \/ \E i \in Index : Write(k, i)
    \/ EvictAll \/ Flush \/ Close \/ Cleanup

CacheNext == Open \/ FileStep \/ DeleteDirtyFails \/ OpFails \/ Crash \/ ClientCall

CacheSpec == CacheInit /\ [][CacheNext]_cacheVars

-----------------------------------------------------------------------------
(* Properties. *)

Contents == [Index -> 0..Recovered]
EntryType ==
    [readable : BOOLEAN, len : [Index -> 0..1], seq : 0..MaxEdits, editor : 0..Recovered,
     held : BOOLEAN, writes : SUBSET Index, left : SUBSET Index]
IsJournal(lines) ==
    \A n \in 1..Len(lines) :
        /\ lines[n].op \in {"HEADER", "CLEAN", "DIRTY", "READ", "REMOVE", "TORN"}
        /\ lines[n].op = "HEADER" <=> n = 1
        /\ lines[n].op = "TORN" => n = Len(lines)

\* Types; a half-written line is never followed by another line, or the next
\* readJournal would stop there.
CacheTypeOK ==
    /\ IsJournal(journal) /\ IsJournal(backup)
    /\ clean \in [Keys -> Contents] /\ dirty \in [Keys -> Contents]
    /\ up \in BOOLEAN /\ trimFailed \in BOOLEAN
    /\ Elements(lru) \subseteq Keys /\ Len(lru) = Cardinality(Elements(lru))
    /\ entry \in [Keys -> EntryType]
    /\ \A k \in Keys : ~InLru(k) => entry[k] = NoEntry
    /\ size \in Nat
    /\ writer \in {"none", "file", "broken", "blackhole"}
    /\ nextSeq \in 0..MaxEdits
    /\ leaked \subseteq Keys \X Index \X (1..Recovered)

\* Between methods, the values of an entry a reader may open are those of its last
\* commit, whatever crashes: processJournal.  Two things make a mixture of it, both
\* recorded in torn: a file operation that fails inside a commit, or a commit that
\* publishes a temporary file which detach() could not delete.
WholeEntries ==
    AtRest => \A k \in Keys \ torn :
              entry[k].readable /\ 0 \notin {clean[k][i] : i \in Index} => clean[k] = pub[k]

\* No file without an entry, and no temporary file but those of the edit under way and
\* those that detach() could not delete: "Flush the journal before creating files to
\* prevent file leaks" in edit().
NoLeak ==
    AtRest => \A k \in Keys \ torn, i \in Index :
              /\ dirty[k][i] \in {0, entry[k].editor} \/ Leaked(k, i)
              /\ clean[k][i] # 0 => InLru(k)

\* size is the sum of the recorded lengths, and no file goes uncounted.
SizeExact ==
    AtRest /\ torn = {} =>
        /\ size = SumOf(Elements(lru), entry)
        /\ \A k \in Keys, i \in Index : clean[k][i] # 0 => entry[k].len[i] = 1

\* The books of the cache: readable journals, an entry per key, the right size, and
\* no file that is in none of them but what detach() could not delete.
CacheInv == CacheTypeOK /\ SizeExact /\ NoLeak

\* What was committed and recorded is still there after any crash, restart,
\* journal rebuild or failed rebuild, until it is edited or evicted.
CommittedSurvive ==
    AtRest => \A k \in durable : InLru(k) /\ entry[k].readable /\ clean[k] = pub[k]

\* A snapshot that is allowed to edit its entry has seen the entry's last commit
\* (Snapshot.edit).  Violated: entries read from the journal have sequence number
\* 0, and so has the first entry committed after opening.
StaleSnapshotRefused ==
    [][\A k \in Keys : EditSnapshot(k) /\ edits' # edits => snap[k].of = pub[k]]_cacheVars
=============================================================================
