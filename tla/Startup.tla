-------------------------------- MODULE Startup --------------------------------
(***************************************************************************)
(* Server::start (src/server/server.cpp): Aof::open with read_manifest and *)
(* Aof::replay (src/aof/aof.cpp), or load_rdb (src/rdb/rdb.cpp); then a    *)
(* server that appends to the last file, is killed, and starts again.      *)
(*                                                                         *)
(* Files hold bytes, read in chunks and cut into commands by Resp; what a  *)
(* command does to the data is left to Aof and Store: a write is its       *)
(* argument.  The kills are kills of the process: what it had handed to    *)
(* the system stays (Aof has the crashes of the system).                   *)
(***************************************************************************)
EXTENDS Resp, Rdb

CONSTANTS NoFile,      \* what a file holds that does not exist
          Logs,        \* append-only logs there may be at first: manifest, units and
                       \* what follows them in each file
          Snapshots,   \* what the RDB file may be written from, see EntriesOf
          Chunks,      \* sizes of the buffer of replay, 4096 in the code
          Units,       \* what a running server may log, see Encoded
          MaxAppends,  \* bound on the records appended
          MaxKills     \* bound on the kills

ASSUME StartupAssumption ==
  Chunks \subseteq Nat \ {0} /\ MaxAppends \in Nat /\ MaxKills \in Nat

VARIABLES
  appendonly,  \* the option
  chunk,       \* the size of the buffer of replay
  manifest,    \* its lines, or NoFile
  temporary,   \* the same of the manifest under another name
  files,       \* the bytes of each incremental file there is
  rdb,         \* the bytes of the RDB file, or NoFile
  phase,       \* where the process is
  todo,        \* the files to replay, in their order
  pos,         \* how much of the first of them was read
  buffer,      \* what of that was not executed yet
  client,      \* the ClientState of replay: in_multi and the queue
  load,        \* the state of load_rdb
  executed,    \* the writes this process has executed, in their order
  snapshot,    \* history: the items the RDB file was written from, see Entries
  units,       \* history: what was appended to each file, see Encoded
  torn,        \* history: the files that end in anything but a unit
  left         \* how many appends and kills are still to come

disk    == <<manifest, temporary, files, rdb, snapshot, units, torn>>
options == <<appendonly, chunk>>
memory  == <<phase, todo, pos, buffer, client, load, executed>>
vars    == <<options, disk, memory, left>>

-------------------------------------------------------------------------------
(* Records.  A unit is a command, or the writes of a transaction, each     *)
(* [fails, value]: whether it fails, and its argument.                     *)

Write(w) == <<IF w.fails THEN <<"X">> ELSE <<"S">>, w.value>>
MULTI    == <<<<"M">>>>
EXEC     == <<<<"E">>>>

(* What append, or append_transaction, writes for a unit. *)
Encoded(unit) ==
  IF unit.multi
  THEN Array(MULTI) \o FlattenSeq([i \in DOMAIN unit.writes |-> Array(Write(unit.writes[i]))])
         \o Array(EXEC)
  ELSE Array(Write(unit.writes[1]))

Contents(list) == FlattenSeq([i \in DOMAIN list |-> Encoded(list[i])])

-------------------------------------------------------------------------------
(* Aof::open *)

(* A line of a manifest: a comment or an empty one, an entry, or anything  *)
(* that is neither.                                                        *)
Remark == [form |-> "remark"]
Bad    == [form |-> "bad"]
Line(seq, file) == [form |-> "entry", seq |-> seq, file |-> file]
First  == Line(1, "f1")

(* Mutant of read_manifest: the files are replayed in the order of lines. *)
ManifestUnsorted(lines) ==
  LET entries == SelectSeq(lines, LAMBDA l : l.form = "entry")
  IN  IF \/ \E i \in DOMAIN lines : lines[i].form = "bad" \/ (lines[i].form = "entry" /\ lines[i].seq <= 0)
         \/ entries = <<>>
         \/ \E i, j \in DOMAIN entries : i < j /\ entries[i].seq = entries[j].seq
      THEN NoFile ELSE [i \in DOMAIN entries |-> entries[i].file]

(* The files of the entries in the order of their numbers, or NoFile if    *)
(* the manifest is refused.                                                *)
read_manifest(lines) ==
  LET entries == SelectSeq(lines, LAMBDA l : l.form = "entry")
      sorted  == SortSeq(entries, LAMBDA l, m : l.seq < m.seq)
  IN  IF \/ \E i \in DOMAIN lines : lines[i].form = "bad" \/ (lines[i].form = "entry" /\ lines[i].seq <= 0)
         \/ entries = <<>>
         \/ \E i, j \in DOMAIN entries : i < j /\ entries[i].seq = entries[j].seq
      THEN NoFile ELSE [i \in DOMAIN sorted |-> sorted[i].file]

Idle == [in_multi |-> FALSE, queued |-> <<>>]

(* The memory of the process is gone. *)
Lost ==
  /\ phase' = "down" /\ todo' = <<>> /\ pos' = 0 /\ buffer' = <<>> /\ client' = Idle
  /\ load' = Loaded(<<>>) /\ executed' = <<>>

(* The process starts; with AOF off it goes on to the RDB file. *)
Start ==
  /\ phase = "down"
  /\ phase' = IF ~appendonly THEN "rdb" ELSE IF manifest = NoFile THEN "create" ELSE "manifest"
  /\ load' = IF appendonly \/ rdb = NoFile THEN Loaded(<<>>) ELSE Header(rdb)
  /\ UNCHANGED <<options, disk, todo, pos, buffer, client, executed, left>>

(* The first file, which may be there already; then the manifest under a   *)
(* temporary name, empty at first; then its name.                          *)
CreateFile ==
  /\ phase = "create" /\ phase' = "temporary"
  /\ files' = IF "f1" \in DOMAIN files THEN files ELSE files @@ ("f1" :> <<>>)
  /\ units' = IF "f1" \in DOMAIN units THEN units ELSE units @@ ("f1" :> <<>>)
  /\ UNCHANGED <<options, manifest, temporary, rdb, snapshot, torn, todo, pos, buffer, client, load,
                 executed, left>>

(* Mutant of WriteTemporary: the manifest is written in its place. *)
WriteInPlace ==
  /\ phase \in {"temporary", "entry"}
  /\ phase' = IF phase = "temporary" THEN "entry" ELSE "rename"
  /\ manifest' = IF phase = "temporary" THEN <<>> ELSE <<First>>
  /\ temporary' = manifest'
  /\ UNCHANGED <<options, files, rdb, snapshot, units, torn, todo, pos, buffer, client, load,
                 executed, left>>

WriteTemporary ==
  /\ phase \in {"temporary", "entry"}
  /\ phase' = IF phase = "temporary" THEN "entry" ELSE "rename"
  /\ temporary' = IF phase = "temporary" THEN <<>> ELSE <<First>>
  /\ UNCHANGED <<options, manifest, files, rdb, snapshot, units, torn, todo, pos, buffer, client, load,
                 executed, left>>

Rename ==
  /\ phase = "rename" /\ phase' = "manifest"
  /\ manifest' = temporary /\ temporary' = NoFile
  /\ UNCHANGED <<options, files, rdb, snapshot, units, torn, todo, pos, buffer, client, load, executed, left>>

(* The manifest is read, and all its files must exist. *)
ReadManifest ==
  /\ phase = "manifest"
  /\ \E list \in {read_manifest(manifest)} :
       IF list # NoFile /\ ToSet(list) \subseteq DOMAIN files
       THEN phase' = "replay" /\ todo' = list
       ELSE phase' = "refused" /\ UNCHANGED todo
  /\ UNCHANGED <<options, disk, pos, buffer, client, load, executed, left>>

-------------------------------------------------------------------------------
(* Aof::replay *)

Reading == phase = "replay" /\ todo # <<>>
Input   == files[Head(todo)]

(* The writes that succeed. *)
Succeeding(writes) == SelectSeq(writes, LAMBDA w : ~w.fails)

IsWrite(args)  == Len(args) = 2
WriteOf(args)  == [fails |-> args[1] = <<"X">>, value |-> args[2]]

(* handle_command: whether it answers an error, what it leaves of the      *)
(* client and which writes it executes.  EXEC hides the errors of what it  *)
(* executes.                                                               *)
Handled(args) ==
  CASE args = MULTI -> [error |-> client.in_multi, client |-> [client EXCEPT !.in_multi = TRUE],
                        writes |-> <<>>]
    [] args = EXEC  -> [error |-> ~client.in_multi, client |-> Idle,
                        writes |-> Succeeding(client.queued)]
    [] IsWrite(args) ->
         IF client.in_multi
         THEN [error |-> FALSE, client |-> [client EXCEPT !.queued = Append(@, WriteOf(args))],
               writes |-> <<>>]
         ELSE [error |-> WriteOf(args).fails, client |-> client,
               writes |-> Succeeding(<<WriteOf(args)>>)]

(* The next command of the buffer is executed. *)
ReplayCommand ==
  /\ Reading
  /\ \E command \in {parse_command(buffer)} :
       /\ command.status # "incomplete"
       /\ IF command.status = "malformed"
          THEN phase' = "refused" /\ UNCHANGED <<buffer, client, executed>>
          ELSE \E r \in {Handled(command.value)} :
                 /\ phase' = IF r.error THEN "refused" ELSE phase
                 /\ client' = r.client
                 /\ executed' = executed \o r.writes
                 /\ buffer' = SubSeq(buffer, command.used + 1, Len(buffer))
  /\ UNCHANGED <<options, disk, todo, pos, load, left>>

(* Nothing more can be cut from the buffer: the next chunk. *)
ReplayChunk ==
  /\ Reading /\ pos < Len(Input)
  /\ parse_command(buffer).status = "incomplete"
  /\ \E last \in {IF pos + chunk < Len(Input) THEN pos + chunk ELSE Len(Input)} :
       buffer' = buffer \o SubSeq(Input, pos + 1, last) /\ pos' = last
  /\ UNCHANGED <<options, disk, phase, todo, client, load, executed, left>>

(* Mutant of EndOfFile: the end of a file may cut a command. *)
EndOfFileLenient ==
  /\ Reading /\ pos = Len(Input)
  /\ parse_command(buffer).status = "incomplete"
  /\ IF client.in_multi THEN phase' = "refused" /\ UNCHANGED <<todo, pos, buffer>>
     ELSE phase' = phase /\ todo' = Tail(todo) /\ pos' = 0 /\ buffer' = <<>>
  /\ UNCHANGED <<options, disk, client, load, executed, left>>

(* The end of a file must not cut a command or a transaction. *)
EndOfFile ==
  /\ Reading /\ pos = Len(Input)
  /\ parse_command(buffer).status = "incomplete"
  /\ IF buffer # <<>> \/ client.in_multi
     THEN phase' = "refused" /\ UNCHANGED <<todo, pos>>
     ELSE phase' = phase /\ todo' = Tail(todo) /\ pos' = 0
  /\ UNCHANGED <<options, disk, buffer, client, load, executed, left>>

(* All files are replayed, and the server listens. *)
Listen ==
  /\ phase = "replay" /\ todo = <<>>
  /\ phase' = "run"
  /\ UNCHANGED <<options, disk, todo, pos, buffer, client, load, executed, left>>

-------------------------------------------------------------------------------
(* load_rdb; if it throws, none of its entries is loaded and the server    *)
(* starts all the same.                                                    *)

LoadOpcode ==
  /\ phase = "rdb" /\ load.status = "loading"
  /\ load' = Opcode(rdb, load)
  /\ UNCHANGED <<options, disk, phase, todo, pos, buffer, client, executed, left>>

LoadEntries ==
  /\ phase = "rdb" /\ load.status # "loading"
  /\ phase' = "run"
  /\ UNCHANGED <<options, disk, todo, pos, buffer, client, load, executed, left>>

-------------------------------------------------------------------------------
(* The server runs. *)

(* The last file of the manifest, which was opened to append to. *)
LogFile == read_manifest(manifest)[Len(read_manifest(manifest))]

(* A command or a transaction is executed and appended. *)
AppendUnit(unit) ==
  /\ phase = "run" /\ appendonly /\ left.appends > 0
  /\ executed' = executed \o unit.writes
  /\ files' = [files EXCEPT ![LogFile] = @ \o Encoded(unit)]
  /\ units' = [units EXCEPT ![LogFile] = Append(@, unit)]
  /\ left' = [left EXCEPT !.appends = @ - 1]
  /\ UNCHANGED <<options, manifest, temporary, rdb, snapshot, torn, phase, todo, pos, buffer, client, load>>

(* The process is killed, or ends because a write fails, in the middle of  *)
(* the record.                                                             *)
KillInAppend(unit) ==
  /\ phase = "run" /\ appendonly /\ left.appends > 0
  /\ \E n \in 1 .. Len(Encoded(unit)) - 1 :
       files' = [files EXCEPT ![LogFile] = @ \o SubSeq(Encoded(unit), 1, n)]
  /\ torn' = torn \cup {LogFile}
  /\ Lost
  /\ left' = [left EXCEPT !.appends = @ - 1]
  /\ UNCHANGED <<options, manifest, temporary, rdb, snapshot, units>>

Kill ==
  /\ phase \notin {"down", "refused"} /\ left.kills > 0
  /\ Lost
  /\ left' = [left EXCEPT !.kills = @ - 1]
  /\ UNCHANGED <<options, disk>>

-------------------------------------------------------------------------------

(* A server with a log of its own making or another, or one without and    *)
(* part of an RDB file.                                                    *)
InitLog ==
  /\ appendonly = TRUE /\ chunk \in Chunks
  /\ \E log \in Logs :
       /\ manifest = log.manifest /\ units = log.units
       /\ files = [f \in DOMAIN units |-> Contents(units[f]) \o log.more[f]]
       /\ torn = {f \in DOMAIN units : log.more[f] # <<>>}
  /\ snapshot = <<>> /\ rdb = NoFile
  /\ left = [appends |-> MaxAppends, kills |-> MaxKills]

InitSnapshot ==
  /\ appendonly = FALSE /\ chunk = 1
  /\ manifest = NoFile /\ units = [f \in {} |-> <<>>] /\ files = [f \in {} |-> <<>>]
  /\ torn = {} /\ snapshot \in Snapshots
  /\ \/ rdb = NoFile
     \/ \E bs \in {FlattenSeq([i \in DOMAIN snapshot |-> snapshot[i].bytes])} :
          \E n \in 0 .. Len(bs) : rdb = SubSeq(bs, 1, n)
  /\ left = [appends |-> 0, kills |-> 0]

Init ==
  /\ InitLog \/ InitSnapshot
  /\ temporary = NoFile
  /\ phase = "down" /\ todo = <<>> /\ pos = 0 /\ buffer = <<>> /\ client = Idle
  /\ load = Loaded(<<>>) /\ executed = <<>>

(* One step of Server::start. *)
Starting ==
  \/ Start \/ CreateFile \/ WriteTemporary \/ Rename \/ ReadManifest
  \/ ReplayCommand \/ ReplayChunk \/ EndOfFile \/ Listen
  \/ LoadOpcode \/ LoadEntries

(* The start is over, and the bounds may leave nothing else to happen: any *)
(* other state without a step is a start that is stuck.                    *)
Settled == phase \in {"run", "refused"} /\ UNCHANGED vars

Next ==
  \/ Starting
  \/ \E unit \in Units : AppendUnit(unit) \/ KillInAppend(unit)
  \/ Kill
  \/ Settled

Spec == Init /\ [][Next]_vars

-------------------------------------------------------------------------------
(* Properties *)

(* The entries of a manifest, and the order their numbers give them. *)
Listed == {manifest[i] : i \in DOMAIN manifest} \ {Remark}
Rank(entry) == Cardinality({e \in Listed : e.seq <= entry.seq})
InOrder == [k \in 1 .. Cardinality(Listed) |-> (CHOOSE e \in Listed : Rank(e) = k).file]

(* The log is whole: a manifest of entries with numbers of their own,      *)
(* whose files exist and hold whole commands and transactions.             *)
Whole ==
  /\ Listed # {} /\ Bad \notin Listed
  /\ \A i, j \in DOMAIN manifest :
       (i # j /\ manifest[i] # Remark /\ manifest[j] # Remark) => manifest[i].seq # manifest[j].seq
  /\ \A e \in Listed : e.file \in DOMAIN files /\ e.file \notin torn

(* The commands and transactions of a whole log in which a write fails. *)
FailingUnits ==
  {unit \in UNION {ToSet(units[e.file]) : e \in Listed} :
     \E i \in DOMAIN unit.writes : unit.writes[i].fails}

(* What README.md:92 asks of an append-only log. *)
Sound == Whole /\ FailingUnits = {}

(* All that is wrong with the log is a write that fails in a transaction:  *)
(* EXEC answers an array, which replay takes for a success (aof.cpp:137).  *)
(* README.md:92 asks that such a log be refused as well; Aof states that   *)
(* as CommandErrorsStopStartup.                                            *)
FailsInTransactions == Whole /\ FailingUnits # {} /\ \A unit \in FailingUnits : unit.multi

(* A server with an append-only log starts if the log is sound, or if it   *)
(* is unsound only for failures within transactions, and in no other case; *)
(* a kill while it makes its first files leaves a sound one (aof.cpp:81,   *)
(* 119-148).                                                               *)
StartsIffSound ==
  appendonly =>
    /\ phase = "run"     => Sound \/ FailsInTransactions
    /\ phase = "refused" => ~Sound /\ ~FailsInTransactions

(* Once started, a server has executed exactly the writes that were ever   *)
(* logged, in the order of the files and of the records in them, whatever  *)
(* the size of the chunks they are read in and however often it was        *)
(* killed (replay and append).                                             *)
ReplaysTheLog ==
  phase = "run" /\ appendonly =>
    LET records == FlattenSeq([k \in DOMAIN InOrder |-> units[InOrder[k]]])
    IN  executed = FlattenSeq([i \in DOMAIN records |-> Succeeding(records[i].writes)])

(* A killed creation never touches what an existing manifest lists: once   *)
(* there is a manifest its lines stay as they are (Aof::open).             *)
ManifestIsFinal == [][manifest # NoFile => manifest' = manifest]_vars

(* What a snapshot holds, by its items: [bytes, role] with the role        *)
(* "entry", of a key and a value; "expiry", for the entry that follows; or *)
(* "other".  EntriesOf(n): the entries of its first n items.               *)
EntriesOf(n) ==
  LET places == SelectSeq([i \in 1 .. n |-> i], LAMBDA i : snapshot[i].role = "entry")
      expiry(i) == {snapshot[j].time : j \in {k \in 1 .. i - 1 :
                      /\ snapshot[k].role = "expiry"
                      /\ \A m \in k + 1 .. i - 1 : snapshot[m].role = "other"}}
  IN  [k \in DOMAIN places |-> [key |-> snapshot[places[k]].key, value |-> snapshot[places[k]].value,
                                expire_at_ms |-> expiry(places[k])]]

Size(n) == Len(FlattenSeq([i \in 1 .. n |-> snapshot[i].bytes]))

(* load_rdb yields the entries of the file, each with the expiry written   *)
(* for it.  Of a file that ends early it yields the entries before, if it  *)
(* ends between two items, and nothing otherwise; it never yields anything *)
(* else.                                                                   *)
LoadsTheSnapshot ==
  phase = "run" /\ ~appendonly /\ rdb # NoFile =>
    LET whole == {n \in 1 .. Len(snapshot) : Size(n) = Len(rdb)}
    IN  IF whole # {} THEN load = Loaded(EntriesOf(CHOOSE n \in whole : TRUE))
        ELSE load.status = "failed" \/ (Len(rdb) > Size(Len(snapshot) - 1) /\ load = Loaded(EntriesOf(Len(snapshot))))

===============================================================================
