------------------------ MODULE DatabaseLifecycleProofs ------------------------
(***************************************************************************)
(* What DatabaseLifecycle guarantees for any number of commands, sessions, *)
(* releases and faults.                                                    *)
(*                                                                         *)
(* Every file that was ever at the path, every retained backup and every   *)
(* backup a command holds is Sound: its control row exists when it has a   *)
(* state, and names no migration its histories lack.  A command between    *)
(* migrator and control row knows how far the journal of its file is at    *)
(* least (Rows).  A session that holds the write lock passed the gate, and *)
(* nothing changes the versions or the state of a locked file (Gated).     *)
(***************************************************************************)
EXTENDS DatabaseLifecycle, SequenceTheorems, TLAPS

Sources == {"none", "EMPTY", "LEGACY", "MANAGED", "BRIDGED", "UNKNOWN"}

\* A well-formed content whose control row can be trusted.
Sound == {c \in Contents : /\ c.state = "NONE" <=> c.control = 0
                           /\ ControlTrusted(c)}

\* What a command may remember next to the files fs.
Versions == 0..MaxRelease
LegacyVersions == 0..LegacyTop
HeldBackups == Sound \cup {NoBackup}
Row(n) ==
  [step : Steps, release : Versions, file : 0..n, at : LegacyVersions,
   seen : Versions, backup : HeldBackups, source : Sources]
Rows(fs) ==
  {row \in Row(Len(fs)) :
     /\ row.step \notin Ended \cup {"idle"} => row.file >= 1 /\ row.release >= 1
     /\ row.step \in {"restore", "replace"} => row.backup # NoBackup
     /\ row.step = "apply" => row.seen <= fs[row.file].journal
     /\ row.step \in {"control", "verify"} => row.release <= fs[row.file].journal}

Gated ==
  \A s \in Sessions : writer[s] # 0 =>
    \E r \in FirstRelease..release : GateOpen(files[writer[s]], r)

\* The inductive invariant.
LifecycleInv ==
  /\ release \in FirstRelease..MaxRelease
  /\ files \in Seq(Sound) /\ path = Len(files) /\ path >= 1
  /\ backups \subseteq Sound
  /\ writer \in [Sessions -> 0..Len(files)]
  /\ cmd \in [Commands -> Rows(files)]
  /\ started \in 0..MaxCommands
  /\ faults \in 0..MaxFaults
  /\ Gated

-----------------------------------------------------------------------------
(* Files                                                                   *)

\* No file is lost and no journal of a file gets shorter.
Grows(fs, gs) ==
  /\ Len(fs) <= Len(gs)
  /\ \A f \in 1..Len(fs) : fs[f].journal <= gs[f].journal

LEMMA Bounds ==
  /\ LegacyTop \in Nat /\ LegacyTop >= 1
  /\ MaxRelease \in Nat /\ MaxRelease >= 1
  /\ FirstRelease \in Nat /\ FirstRelease >= 1
  /\ MaxCommands \in Nat /\ MaxFaults \in Nat
BY ReleaseAssumption, BoundAssumption

LEMMA Fields ==
  ASSUME NEW c \in Sound
  PROVE  /\ c \in Contents
         /\ c.legacy \in Int /\ c.journal \in Int /\ c.control \in Int
         /\ c.legacy \in 0..LegacyTop /\ c.journal \in -1..MaxRelease
         /\ c.control \in 0..(LegacyTop + MaxRelease)
         /\ c.state \in {"NONE", "READY", "RECOVERY_REQUIRED"}
         /\ c.state = "NONE" <=> c.control = 0
         /\ c.control > LegacyTop => c.control <= LegacyTop + c.journal
         /\ c.control \in 1..LegacyTop => c.control = c.legacy
BY Bounds DEF Sound, Contents, ControlTrusted, Official, NoTable

LEMMA FilesFacts ==
  ASSUME NEW fs \in Seq(Sound)
  PROVE  /\ Len(fs) \in Nat /\ DOMAIN fs = 1..Len(fs)
         /\ \A f \in 1..Len(fs) : fs[f] \in Sound /\ fs[f].journal \in Int
BY LenProperties, ElementOfSeq, Fields

\* What a command remembers stays true of files that grow.
LEMMA RowsGrow ==
  ASSUME NEW fs \in Seq(Sound), NEW gs \in Seq(Sound), Grows(fs, gs), NEW row \in Rows(fs)
  PROVE  row \in Rows(gs)
<1>1. Len(fs) \in Nat /\ Len(gs) \in Nat /\ Len(fs) <= Len(gs)
  BY FilesFacts DEF Grows
<1>2. row \in Row(Len(gs))
  BY <1>1 DEF Rows, Row
<1>3. ASSUME row.step \in {"apply", "control", "verify"}
      PROVE  /\ row.file \in 1..Len(fs)
             /\ fs[row.file].journal \in Int /\ gs[row.file].journal \in Int
             /\ fs[row.file].journal <= gs[row.file].journal
             /\ row.seen \in Int /\ row.release \in Int
  <2>1. row.file >= 1 /\ row.file \in 0..Len(fs) /\ row.seen \in 0..MaxRelease /\ row.release \in 0..MaxRelease
    BY <1>3 DEF Rows, Row, Ended, Versions
  <2> QED BY <2>1, <1>1, FilesFacts, Bounds DEF Grows
<1> QED BY <1>2, <1>3 DEF Rows

LEMMA CmdStep ==
  ASSUME LifecycleInv, files' \in Seq(Sound), Grows(files, files'),
         NEW p \in Commands, NEW row \in Rows(files'), cmd' = [cmd EXCEPT ![p] = row]
  PROVE  cmd' \in [Commands -> Rows(files')]
<1>1. \A q \in Commands : cmd[q] \in Rows(files')
  BY RowsGrow DEF LifecycleInv
<1> QED BY <1>1 DEF LifecycleInv

LEMMA CmdSame ==
  ASSUME LifecycleInv, files' \in Seq(Sound), Grows(files, files'), cmd' = cmd
  PROVE  cmd' \in [Commands -> Rows(files')]
<1>1. \A q \in Commands : cmd[q] \in Rows(files')
  BY RowsGrow DEF LifecycleInv
<1> QED BY <1>1 DEF LifecycleInv

LEMMA SameGrows == LifecycleInv => Grows(files, files)
BY FilesFacts DEF LifecycleInv, Grows

\* One file is rewritten.
LEMMA SetStep ==
  ASSUME LifecycleInv, NEW f \in 1..Len(files), NEW c \in Sound, SetFile(f, c),
         files[f].journal <= c.journal
  PROVE  /\ files' \in Seq(Sound) /\ Len(files') = Len(files)
         /\ \A g \in 1..Len(files) : files'[g] = IF g = f THEN c ELSE files[g]
         /\ Grows(files, files')
<1>1. files \in Seq(Sound)
  BY DEF LifecycleInv
<1>2. /\ files' \in Seq(Sound) /\ Len(files') = Len(files)
      /\ \A g \in 1..Len(files) : files'[g] = IF g = f THEN c ELSE files[g]
  BY <1>1, ExceptSeq DEF SetFile
<1> QED BY <1>1, <1>2, FilesFacts DEF Grows

\* One file is renamed over the path.
LEMMA ReplaceStep ==
  ASSUME LifecycleInv, NEW b \in Sound, Replace(b)
  PROVE  /\ files' \in Seq(Sound) /\ Len(files') = Len(files) + 1 /\ path' = Len(files')
         /\ \A g \in 1..Len(files) : files'[g] = files[g]
         /\ files'[Len(files) + 1] = b
         /\ Grows(files, files')
<1>1. files \in Seq(Sound)
  BY DEF LifecycleInv
<1>2. /\ files' \in Seq(Sound) /\ Len(files') = Len(files) + 1
      /\ \A g \in 1..Len(files) : files'[g] = files[g]
      /\ files'[Len(files) + 1] = b
  BY <1>1, AppendProperties DEF Replace
<1> QED BY <1>1, <1>2, FilesFacts DEF Grows, Replace

-----------------------------------------------------------------------------
(* What a command does to the files                                        *)

\* It leaves them alone, or rewrites one that no session has locked and keeps
\* its data and its mark, or puts a file of its own over the path.
Kept == UNCHANGED <<files, path, writer>>
Rewrote(f, c) ==
  /\ f \in 1..Len(files) /\ c \in Sound /\ SetFile(f, c) /\ LockFree(f)
  /\ c.data = files[f].data
  /\ files[f].state = "RECOVERY_REQUIRED" => c.state = "RECOVERY_REQUIRED"
  /\ files[f].journal <= c.journal
  /\ UNCHANGED <<path, writer>>
Replaced(b) == b \in Sound /\ Replace(b) /\ writer' = writer
FileStep ==
  \/ Kept
  \/ \E f, c : Rewrote(f, c)
  \/ \E b : Replaced(b)

FilesInv ==
  /\ files' \in Seq(Sound) /\ path' = Len(files') /\ path' >= 1
  /\ writer' \in [Sessions -> 0..Len(files')]
  /\ Grows(files, files')

LEMMA FileStepInv ==
  ASSUME LifecycleInv, FileStep, release' = release
  PROVE  FilesInv /\ Gated'
<1> USE DEF FilesInv
<1>0. Len(files) \in Nat /\ writer \in [Sessions -> 0..Len(files)] /\ path = Len(files) /\ path >= 1
  BY FilesFacts DEF LifecycleInv
<1>1. CASE Kept
  <2>1. FilesInv
    BY <1>0, <1>1, SameGrows DEF LifecycleInv, Kept
  <2>2. Gated'
    BY <1>1 DEF LifecycleInv, Gated, Kept
  <2> QED BY <2>1, <2>2
<1>2. ASSUME NEW f, NEW c, Rewrote(f, c) PROVE FilesInv /\ Gated'
  <2>1. /\ files' \in Seq(Sound) /\ Len(files') = Len(files)
        /\ \A g \in 1..Len(files) : files'[g] = IF g = f THEN c ELSE files[g]
        /\ Grows(files, files')
    BY <1>2, SetStep DEF Rewrote
  <2>2. path' = path /\ writer' = writer
    BY <1>2 DEF Rewrote
  <2>3. \A s \in Sessions : writer'[s] # 0 => files'[writer'[s]] = files[writer[s]]
    BY <1>0, <1>2, <2>1, <2>2 DEF Rewrote, LockFree
  <2>4. Gated'
    BY <2>2, <2>3 DEF LifecycleInv, Gated
  <2> QED BY <1>0, <2>1, <2>2, <2>4
<1>3. ASSUME NEW b, Replaced(b) PROVE FilesInv /\ Gated'
  <2>1. /\ files' \in Seq(Sound) /\ Len(files') = Len(files) + 1 /\ path' = Len(files')
        /\ \A g \in 1..Len(files) : files'[g] = files[g]
        /\ Grows(files, files')
    BY <1>3, ReplaceStep DEF Replaced
  <2>2. writer' = writer
    BY <1>3 DEF Replaced
  <2>3. \A s \in Sessions : writer'[s] # 0 => files'[writer'[s]] = files[writer[s]]
    BY <1>0, <2>1, <2>2
  <2>4. Gated'
    BY <2>2, <2>3 DEF LifecycleInv, Gated
  <2> QED BY <1>0, <2>1, <2>2, <2>4
<1> QED BY <1>1, <1>2, <1>3 DEF FileStep

\* Everything a command does is one of these steps, with a well-formed memory.
CommandStep ==
  /\ FileStep
  /\ backups' \subseteq Sound
  /\ cmd' \in [Commands -> Rows(files')]
  /\ release' = release
  /\ started' \in 0..MaxCommands /\ faults' \in 0..MaxFaults

\* Facts about a command that is under way.
LEMMA Memory ==
  ASSUME LifecycleInv, NEW p \in Commands
  PROVE  /\ cmd[p] \in Rows(files)
         /\ cmd[p] \in Row(Len(files))
         /\ Running(p) => cmd[p].file \in 1..Len(files) /\ cmd[p].release \in 1..MaxRelease
         /\ Running(p) => Mine(p) \in Sound
         /\ Here \in Sound /\ path \in 1..Len(files)
<1>1. cmd[p] \in Rows(files) /\ files \in Seq(Sound) /\ path = Len(files) /\ path >= 1
  BY DEF LifecycleInv
<1>2. Len(files) \in Nat
  BY <1>1, FilesFacts
<1>3. cmd[p] \in Row(Len(files))
  BY <1>1 DEF Rows
<1>4. Running(p) => cmd[p].file \in 1..Len(files) /\ cmd[p].release \in 1..MaxRelease
  BY <1>1, <1>2, <1>3, Bounds DEF Rows, Row, Running, Versions
<1> QED BY <1>1, <1>2, <1>3, <1>4, FilesFacts DEF Mine, Here

\* A command's memory when it goes on to a step, has its backup, has made a hop,
\* and when it starts.
MovedTo(row, step, seen) == [row EXCEPT !.step = step, !.seen = seen]
BackedUp(row, step, backup) == [row EXCEPT !.backup = backup, !.step = step]
Hopped(row, at) == [row EXCEPT !.at = at]
Started(row, step, version, file, at, source) ==
  [row EXCEPT !.step = step, !.release = version, !.file = file, !.at = at, !.source = source]
RestoreStarted(row, step, version, file, at, backup) ==
  [row EXCEPT !.step = step, !.release = version, !.file = file, !.at = at, !.backup = backup]

LEMMA RowMoved ==
  ASSUME NEW n, NEW row \in Row(n), NEW step \in Steps, NEW seen \in Versions
  PROVE  LET new == MovedTo(row, step, seen)
         IN  /\ new \in Row(n) /\ new.step = step /\ new.seen = seen
             /\ new.release = row.release /\ new.file = row.file /\ new.backup = row.backup
BY DEF Row, MovedTo

LEMMA RowBackedUp ==
  ASSUME NEW n, NEW row \in Row(n), NEW step \in Steps, NEW backup \in HeldBackups
  PROVE  LET new == BackedUp(row, step, backup)
         IN  /\ new \in Row(n) /\ new.step = step /\ new.backup = backup
             /\ new.release = row.release /\ new.file = row.file
BY DEF Row, BackedUp

LEMMA RowHopped ==
  ASSUME NEW n, NEW row \in Row(n), NEW at \in LegacyVersions
  PROVE  LET new == Hopped(row, at)
         IN  /\ new \in Row(n) /\ new.step = row.step /\ new.seen = row.seen
             /\ new.release = row.release /\ new.file = row.file /\ new.backup = row.backup
BY DEF Row, Hopped

LEMMA RowStarted ==
  ASSUME NEW n, NEW row \in Row(n), NEW step \in Steps, NEW version \in Versions,
         NEW file \in 0..n, NEW at \in LegacyVersions, NEW source \in Sources
  PROVE  LET new == Started(row, step, version, file, at, source)
         IN  new \in Row(n) /\ new.step = step /\ new.release = version /\ new.file = file
<1> DEFINE Inodes == 0..n
           Memories == [step : Steps, release : Versions, file : Inodes, at : LegacyVersions,
                        seen : Versions, backup : HeldBackups, source : Sources]
<1>1. row \in Memories /\ file \in Inodes
  BY DEF Row
<1>2. Row(n) = Memories
  BY DEF Row
<1> HIDE DEF Inodes
<1> DEFINE first  == [row EXCEPT !.step = step, !.release = version]
           second == [first EXCEPT !.file = file, !.at = at]
           third  == [second EXCEPT !.source = source]
<1>3. first \in Memories /\ first.step = step /\ first.release = version
  BY <1>1
<1> HIDE DEF first
<1>4. second \in Memories /\ second.step = step /\ second.release = version /\ second.file = file
  BY <1>1, <1>3
<1> HIDE DEF second
<1>5. /\ third \in Memories /\ third.step = step /\ third.release = version
      /\ third.file = file /\ third.source = source
  BY <1>1, <1>4
<1>6. third = Started(row, step, version, file, at, source)
  BY DEF first, second, third, Started
<1> HIDE DEF third, Memories
<1> QED BY <1>2, <1>5, <1>6

LEMMA RowRestoreStarted ==
  ASSUME NEW n, NEW row \in Row(n), NEW step \in Steps, NEW version \in Versions,
         NEW file \in 0..n, NEW at \in LegacyVersions, NEW backup \in HeldBackups
  PROVE  LET new == RestoreStarted(row, step, version, file, at, backup)
         IN  /\ new \in Row(n) /\ new.step = step /\ new.release = version
             /\ new.file = file /\ new.backup = backup
<1> DEFINE Inodes == 0..n
           Memories == [step : Steps, release : Versions, file : Inodes, at : LegacyVersions,
                        seen : Versions, backup : HeldBackups, source : Sources]
<1>1. row \in Memories /\ file \in Inodes
  BY DEF Row
<1>2. Row(n) = Memories
  BY DEF Row
<1> HIDE DEF Inodes
<1> DEFINE first  == [row EXCEPT !.step = step, !.release = version]
           second == [first EXCEPT !.file = file, !.at = at]
           third  == [second EXCEPT !.backup = backup]
<1>3. first \in Memories /\ first.step = step /\ first.release = version
  BY <1>1
<1> HIDE DEF first
<1>4. second \in Memories /\ second.step = step /\ second.release = version /\ second.file = file
  BY <1>1, <1>3
<1> HIDE DEF second
<1>5. /\ third \in Memories /\ third.step = step /\ third.release = version
      /\ third.file = file /\ third.backup = backup
  BY <1>1, <1>4
<1>6. third = RestoreStarted(row, step, version, file, at, backup)
  BY DEF first, second, third, RestoreStarted
<1> HIDE DEF third, Memories
<1> QED BY <1>2, <1>5, <1>6

\* The memory of a command that has not started or has ended.
LEMMA IdleRow ==
  ASSUME NEW fs, Len(fs) \in Nat, NEW step \in Ended \cup {"idle"}
  PROVE  [Idle EXCEPT !.step = step] \in Rows(fs)
<1> DEFINE row == [step |-> step, release |-> 0, file |-> 0, at |-> 0, seen |-> 0,
                   source |-> "none", backup |-> NoBackup]
<1>1. [Idle EXCEPT !.step = step] = row
  BY DEF Idle
<1>2. /\ 0 \in Versions /\ 0 \in LegacyVersions /\ 0 \in 0..Len(fs)
      /\ NoBackup \in HeldBackups /\ "none" \in Sources /\ step \in Steps
  BY Bounds DEF Versions, LegacyVersions, HeldBackups, Sources, Steps
<1>3. row \in Row(Len(fs)) /\ row.step = step
  BY <1>2 DEF Row
<1> HIDE DEF row
<1>4. row \in Rows(fs)
  BY <1>3 DEF Rows, Ended
<1> QED BY <1>1, <1>4

\* Goto, with what the steps it may lead to need.
LEMMA GotoStep ==
  ASSUME LifecycleInv, NEW p \in Commands, files' \in Seq(Sound), Grows(files, files'),
         NEW step \in Steps \ {"idle", "apply"}, Running(p), Goto(p, step),
         step \in {"control", "verify"} => cmd[p].release <= files'[cmd[p].file].journal,
         step \in {"restore", "replace"} => cmd[p].backup # NoBackup
  PROVE  cmd' \in [Commands -> Rows(files')]
<1>1. cmd[p] \in Rows(files')
  BY Memory, RowsGrow DEF LifecycleInv
<1>2. Len(files') \in Nat
  BY FilesFacts
<1>3. CASE step \in Ended
  <2>1. [Idle EXCEPT !.step = step] \in Rows(files')
    BY <1>2, <1>3, IdleRow, FilesFacts
  <2> QED BY <1>3, <2>1, CmdStep DEF Goto
<1>4. CASE step \notin Ended
  <2> DEFINE row == MovedTo(cmd[p], step, 0)
  <2>1. row \in Rows(files')
    <3>1. cmd[p] \in Row(Len(files')) /\ cmd[p].file >= 1 /\ cmd[p].release >= 1
      BY <1>1 DEF Rows, Running
    <3>2. 0 \in Versions
      BY Bounds DEF Versions
    <3>3. /\ row \in Row(Len(files')) /\ row.step = step /\ row.file = cmd[p].file
          /\ row.release = cmd[p].release /\ row.backup = cmd[p].backup
      BY <3>1, <3>2, RowMoved
    <3> HIDE DEF row
    <3> QED BY <3>1, <3>3 DEF Rows
  <2>2. cmd' = [cmd EXCEPT ![p] = row]
    BY <1>4 DEF Goto, MovedTo
  <2> QED BY <2>1, <2>2, CmdStep
<1> QED BY <1>3, <1>4

-----------------------------------------------------------------------------
(* The steps of a command                                                  *)

\* The files stay, and the command goes to a step that needs no journal.
LEMMA KeptStep ==
  ASSUME LifecycleInv, NEW p \in Commands, Running(p), Kept,
         NEW step \in Steps \ {"idle", "apply", "control", "verify"}, Goto(p, step),
         step \in {"restore", "replace"} => cmd[p].backup # NoBackup
  PROVE  FileStep /\ cmd' \in [Commands -> Rows(files')]
<1>1. files' = files
  BY DEF Kept
<1>2. files' \in Seq(Sound) /\ Grows(files, files')
  BY <1>1, SameGrows DEF LifecycleInv
<1> QED BY <1>2, GotoStep DEF FileStep

\* A file is rewritten, and the command goes to a step that needs no journal.
LEMMA RewriteStep ==
  ASSUME LifecycleInv, NEW p \in Commands, Running(p), NEW f, NEW c, Rewrote(f, c),
         NEW step \in Steps \ {"idle", "apply", "control", "verify", "restore", "replace"},
         Goto(p, step)
  PROVE  FileStep /\ cmd' \in [Commands -> Rows(files')]
<1>1. files' \in Seq(Sound) /\ Grows(files, files')
  BY SetStep DEF Rewrote
<1> QED BY <1>1, GotoStep DEF FileStep

LEMMA FailStep ==
  ASSUME LifecycleInv, NEW p \in Commands, Running(p), Fails(p), UNCHANGED <<path, writer>>
  PROVE  FileStep /\ cmd' \in [Commands -> Rows(files')]
<1>1. /\ AfterFailure(p) \in {"mark", "recovery", "restore", "failed"}
      /\ AfterFailure(p) = "restore" => cmd[p].backup # NoBackup
  BY DEF AfterFailure
<1>2. Kept /\ Goto(p, AfterFailure(p))
  BY DEF Fails, Kept
<1> QED BY <1>1, <1>2, KeptStep DEF Steps, Ended

\* Every file on disk and every backup satisfies Sound, so a copy does.
LEMMA BackupStep ==
  ASSUME LifecycleInv, NEW p \in Commands, TakeBackup(p)
  PROVE  CommandStep
<1>0. Running(p) /\ Kept
  BY DEF TakeBackup, At, Running, Ended, Kept
<1>1. /\ release' = release /\ started' \in 0..MaxCommands /\ faults' \in 0..MaxFaults
      /\ files' = files /\ files' \in Seq(Sound) /\ Grows(files, files')
  BY SameGrows DEF TakeBackup, LifecycleInv
<1>2. CASE Backable(Here, cmd[p].release, cmd[p].at)
  <2> DEFINE step == IF cmd[p].source = "LEGACY" THEN "hop" ELSE "migrate"
  <2>1. step \in Steps /\ step \in {"hop", "migrate"} /\ Here \in HeldBackups
    BY Memory DEF Steps, HeldBackups
  <2>2. cmd' = [cmd EXCEPT ![p] = BackedUp(cmd[p], step, Here)]
    BY <1>2 DEF TakeBackup, BackedUp
  <2> HIDE DEF step
  <2> DEFINE row == BackedUp(cmd[p], step, Here)
  <2>3. /\ row \in Row(Len(files)) /\ row.step = step
        /\ row.release = cmd[p].release /\ row.file = cmd[p].file
    BY <2>1, Memory, RowBackedUp
  <2>4. cmd[p].file >= 1 /\ cmd[p].release >= 1
    BY <1>0, Memory DEF Rows, Running
  <2> HIDE DEF row
  <2>5. row \in Rows(files')
    BY <1>1, <2>1, <2>3, <2>4 DEF Rows
  <2>6. cmd' \in [Commands -> Rows(files')]
    BY <1>1, <2>2, <2>5, CmdStep DEF row
  <2>7. backups' \subseteq Sound
    BY <1>2, Memory DEF TakeBackup, LifecycleInv
  <2> QED BY <1>0, <1>1, <2>6, <2>7 DEF CommandStep, FileStep
<1>3. CASE ~Backable(Here, cmd[p].release, cmd[p].at)
  <2>1. Goto(p, "failed") /\ backups' = backups
    BY <1>3 DEF TakeBackup
  <2>2. FileStep /\ cmd' \in [Commands -> Rows(files')]
    BY <1>0, <2>1, KeptStep DEF Steps, Ended
  <2> QED BY <1>1, <2>1, <2>2 DEF CommandStep, LifecycleInv
<1> QED BY <1>2, <1>3

\* What a step on the command's own file changes is its files and its memory.
LEMMA RestStep ==
  ASSUME LifecycleInv, UNCHANGED rest, FileStep, cmd' \in [Commands -> Rows(files')]
  PROVE  CommandStep
BY DEF rest, CommandStep, LifecycleInv

LEMMA HopStep ==
  ASSUME LifecycleInv, NEW p \in Commands, Hop(p)
  PROVE  CommandStep
<1> DEFINE c == Mine(p)
           v == cmd[p].at
           Exact(n) == c.state = "READY" /\ c.legacy = n /\ c.control = n
           f == cmd[p].file
<1>0. /\ Running(p) /\ UNCHANGED rest /\ UNCHANGED <<path, writer>> /\ LockFree(f)
      /\ f \in 1..Len(files) /\ c \in Sound /\ c = files[f] /\ v \in 0..LegacyTop
  <2>1. Running(p) /\ UNCHANGED rest /\ UNCHANGED <<path, writer>> /\ LockFree(f)
    BY DEF Hop, At, Running, Ended, rest
  <2>2. v \in 0..LegacyTop
    BY Memory DEF Row, LegacyVersions
  <2> QED BY <2>1, <2>2, Memory DEF Mine
<1>1. CASE v = LegacyTop
  <2>1. Goto(p, "seed") /\ Kept
    BY <1>0, <1>1 DEF Hop, Kept
  <2> QED BY <1>0, <2>1, KeptStep, RestStep DEF Steps, Ended
<1>2. CASE v # LegacyTop /\ (Exact(v) \/ Exact(v + 1))
  <2>1. cmd' = [cmd EXCEPT ![p] = Hopped(cmd[p], v + 1)]
    BY <1>2 DEF Hop, Hopped
  <2>2. FileStep /\ files' \in Seq(Sound) /\ Grows(files, files') /\ Len(files') = Len(files)
    <3>1. CASE UNCHANGED files
      BY <1>0, <3>1, SameGrows DEF FileStep, Kept, LifecycleInv
    <3>2. CASE Exact(v) /\ SetFile(f, [c EXCEPT !.legacy = v + 1, !.control = v + 1])
      <4> DEFINE new == [c EXCEPT !.legacy = v + 1, !.control = v + 1]
      <4>1. /\ v \in Int /\ v + 1 \in 1..LegacyTop /\ v + 1 \in 0..Official(MaxRelease)
        BY <1>0, <1>2, Bounds DEF Official
      <4>2. c \in Contents
        BY <1>0, Fields
      <4>3. /\ new \in Contents /\ new.legacy = v + 1 /\ new.control = v + 1
            /\ new.state = c.state /\ new.data = c.data /\ new.journal = c.journal
        <5> DEFINE Versioned == 0..LegacyTop  Controls == 0..Official(MaxRelease)
                   Journals == NoTable..MaxRelease
        <5>1. v + 1 \in Versioned /\ v + 1 \in Controls
          BY <4>1
        <5>2. Contents = [legacy : Versioned, journal : Journals, control : Controls,
                          state : {"NONE", "READY", "RECOVERY_REQUIRED"}, data : SUBSET Sessions]
          BY DEF Contents
        <5> HIDE DEF Versioned, Controls, Journals
        <5> QED BY <4>2, <5>1, <5>2
      <4> HIDE DEF new
      <4>4. c.journal \in Int
        BY <1>0, Fields
      <4>5. new \in Sound
        BY <3>2, <4>1, <4>3, Bounds DEF Sound, ControlTrusted
      <4>6. Rewrote(f, new)
        BY <1>0, <3>2, <4>3, <4>4, <4>5 DEF Rewrote, new
      <4> QED BY <4>6, SetStep DEF FileStep, Rewrote
    <3> QED BY <1>2, <3>1, <3>2 DEF Hop
  <2>3. Hopped(cmd[p], v + 1) \in Rows(files')
    <3>1. cmd[p] \in Rows(files') /\ cmd[p] \in Row(Len(files'))
      BY <2>2, Memory, RowsGrow DEF LifecycleInv
    <3>2. v + 1 \in LegacyVersions
      BY <1>0, <1>2, Bounds DEF LegacyVersions
    <3> DEFINE row == Hopped(cmd[p], v + 1)
    <3>3. /\ row \in Row(Len(files')) /\ row.step = cmd[p].step /\ row.seen = cmd[p].seen
          /\ row.release = cmd[p].release /\ row.file = cmd[p].file /\ row.backup = cmd[p].backup
      BY <3>1, <3>2, RowHopped
    <3> HIDE DEF row
    <3>4. row \in Rows(files')
      BY <3>1, <3>3 DEF Rows
    <3> QED BY <3>4 DEF row
  <2> QED BY <1>0, <2>1, <2>2, <2>3, CmdStep, RestStep
<1>3. CASE v # LegacyTop /\ ~Exact(v) /\ ~Exact(v + 1)
  <2>1. Fails(p)
    BY <1>3 DEF Hop, Fails
  <2> QED BY <1>0, <2>1, FailStep, RestStep
<1> QED BY <1>1, <1>2, <1>3

\* A content with a longer journal, another control row, a mark.
WithJournal(c, n) == [c EXCEPT !.journal = n]
WithControl(c, n) == [c EXCEPT !.control = Official(n), !.state = "READY"]
Marked(c) == [c EXCEPT !.state = "RECOVERY_REQUIRED"]

LEMMA JournalGrows ==
  ASSUME NEW c \in Sound, NEW n \in 0..MaxRelease, c.journal <= n
  PROVE  LET new == WithJournal(c, n)
         IN  /\ new \in Sound /\ new.journal = n
             /\ new.state = c.state /\ new.data = c.data
<1> DEFINE new == [c EXCEPT !.journal = n]
           Journals == NoTable..MaxRelease
<1>1. c \in Contents /\ n \in Journals
  BY Fields, Bounds DEF NoTable
<1>2. Contents = [legacy : 0..LegacyTop, journal : Journals, control : 0..Official(MaxRelease),
                  state : {"NONE", "READY", "RECOVERY_REQUIRED"}, data : SUBSET Sessions]
  BY DEF Contents
<1> HIDE DEF Journals
<1>3. /\ new \in Contents /\ new.journal = n /\ new.legacy = c.legacy
      /\ new.control = c.control /\ new.state = c.state /\ new.data = c.data
  BY <1>1, <1>2
<1> HIDE DEF new
<1>4. new \in Sound
  BY <1>3, Fields, Bounds DEF Sound, ControlTrusted, Official
<1> QED BY <1>3, <1>4 DEF new, WithJournal

LEMMA ControlMoves ==
  ASSUME NEW c \in Sound, NEW n \in 1..MaxRelease, n <= c.journal
  PROVE  LET new == WithControl(c, n)
         IN  /\ new \in Sound /\ new.journal = c.journal
             /\ new.state = "READY" /\ new.data = c.data
<1> DEFINE new == [c EXCEPT !.control = Official(n), !.state = "READY"]
           Controls == 0..Official(MaxRelease)
           States == {"NONE", "READY", "RECOVERY_REQUIRED"}
<1>1. /\ c \in Contents /\ Official(n) \in Controls /\ "READY" \in States
      /\ Official(n) > LegacyTop /\ Official(n) \in Int
  BY Fields, Bounds DEF Official
<1>2. Contents = [legacy : 0..LegacyTop, journal : NoTable..MaxRelease, control : Controls,
                  state : States, data : SUBSET Sessions]
  BY DEF Contents
<1> HIDE DEF Controls, States
<1>3. /\ new \in Contents /\ new.journal = c.journal /\ new.legacy = c.legacy
      /\ new.control = Official(n) /\ new.state = "READY" /\ new.data = c.data
  BY <1>1, <1>2
<1> HIDE DEF new
<1>4. new \in Sound
  BY <1>1, <1>3, Fields, Bounds DEF Sound, ControlTrusted, Official
<1> QED BY <1>3, <1>4 DEF new, WithControl

LEMMA Marks ==
  ASSUME NEW c \in Sound, c.control # 0
  PROVE  LET new == Marked(c)
         IN  /\ new \in Sound /\ new.journal = c.journal
             /\ new.state = "RECOVERY_REQUIRED" /\ new.data = c.data
<1> DEFINE new == [c EXCEPT !.state = "RECOVERY_REQUIRED"]
           States == {"NONE", "READY", "RECOVERY_REQUIRED"}
<1>1. c \in Contents /\ "RECOVERY_REQUIRED" \in States
  BY Fields
<1>2. Contents = [legacy : 0..LegacyTop, journal : NoTable..MaxRelease,
                  control : 0..Official(MaxRelease), state : States, data : SUBSET Sessions]
  BY DEF Contents
<1> HIDE DEF States
<1>3. /\ new \in Contents /\ new.journal = c.journal /\ new.legacy = c.legacy
      /\ new.control = c.control /\ new.state = "RECOVERY_REQUIRED" /\ new.data = c.data
  BY <1>1, <1>2
<1> HIDE DEF new
<1>4. new \in Sound
  BY <1>3, Fields DEF Sound, ControlTrusted
<1> QED BY <1>3, <1>4 DEF new, Marked

\* Where a running command stands, for the steps on its own file.
LEMMA Underway ==
  ASSUME LifecycleInv, NEW p \in Commands, Running(p), UNCHANGED rest
  PROVE  /\ UNCHANGED <<path, writer>>
         /\ cmd[p].file \in 1..Len(files) /\ Mine(p) \in Sound /\ Mine(p) = files[cmd[p].file]
         /\ cmd[p].release \in 1..MaxRelease
         /\ Mine(p).journal \in Int /\ Mine(p).journal \in -1..MaxRelease
BY Memory, Fields DEF rest, Mine

LEMMA SeedStep ==
  ASSUME LifecycleInv, NEW p \in Commands, Seed(p)
  PROVE  CommandStep
<1> DEFINE c == Mine(p)
           n == IF c.journal < 1 THEN 1 ELSE c.journal
<1>0. Running(p) /\ UNCHANGED rest /\ LockFree(cmd[p].file)
  BY DEF Seed, At, Running, Ended
<1>1. CASE c.journal > cmd[p].release
  <2>1. Fails(p)
    BY <1>1 DEF Seed
  <2> QED BY <1>0, <2>1, Underway, FailStep, RestStep
<1>2. CASE ~(c.journal > cmd[p].release)
  <2>1. SetFile(cmd[p].file, [c EXCEPT !.journal = n]) /\ Goto(p, "migrate")
    BY <1>2 DEF Seed
  <2>2. n \in 0..MaxRelease /\ c.journal <= n
    BY <1>0, Underway, Bounds
  <2>3. Rewrote(cmd[p].file, WithJournal(c, n))
    <3>1. SetFile(cmd[p].file, WithJournal(c, n))
      BY <2>1 DEF WithJournal
    <3> HIDE DEF n
    <3> QED BY <1>0, <2>2, <3>1, Underway, JournalGrows DEF Rewrote
  <2> QED BY <1>0, <2>1, <2>3, RewriteStep, RestStep DEF Steps, Ended
<1> QED BY <1>1, <1>2

LEMMA ReadStep ==
  ASSUME LifecycleInv, NEW p \in Commands, ReadJournal(p)
  PROVE  CommandStep
<1> DEFINE f == cmd[p].file
<1>0. Running(p) /\ UNCHANGED rest
  BY DEF ReadJournal, At, Running, Ended
<1>1. ASSUME NEW n \in Versions, files' \in Seq(Sound), Grows(files, files'),
             n <= files'[f].journal,
             cmd' = [cmd EXCEPT ![p].seen = n, ![p].step = "apply"]
      PROVE  cmd' \in [Commands -> Rows(files')]
  <2> DEFINE row == MovedTo(cmd[p], "apply", n)
  <2>1. cmd[p] \in Rows(files') /\ cmd[p] \in Row(Len(files')) /\ "apply" \in Steps
    BY <1>1, Memory, RowsGrow DEF LifecycleInv, Rows, Steps
  <2>2. /\ row \in Row(Len(files')) /\ row.step = "apply" /\ row.seen = n
        /\ row.release = cmd[p].release /\ row.file = cmd[p].file
    BY <2>1, RowMoved
  <2>3. cmd[p].file >= 1 /\ cmd[p].release >= 1
    BY <1>0, Underway, Memory, Bounds DEF Rows, Running
  <2>4. cmd' = [cmd EXCEPT ![p] = row]
    BY <1>1 DEF MovedTo, LifecycleInv
  <2> HIDE DEF row
  <2>5. row \in Rows(files')
    BY <1>1, <2>2, <2>3 DEF Rows
  <2> QED BY <1>1, <2>4, <2>5, CmdStep
<1>2. CASE /\ Mine(p).journal # NoTable
           /\ cmd' = [cmd EXCEPT ![p].seen = Mine(p).journal, ![p].step = "apply"]
           /\ UNCHANGED files
  <2>1. /\ Mine(p).journal \in Versions /\ Mine(p).journal <= files'[f].journal
        /\ files' \in Seq(Sound) /\ Grows(files, files') /\ FileStep
    BY <1>0, <1>2, Underway, SameGrows, Bounds
       DEF Versions, NoTable, LifecycleInv, FileStep, Kept
  <2> QED BY <1>0, <1>1, <1>2, <2>1, RestStep
<1>3. CASE /\ Mine(p).journal = NoTable /\ LockFree(f)
           /\ SetFile(f, [Mine(p) EXCEPT !.journal = 0])
           /\ cmd' = [cmd EXCEPT ![p].seen = 0, ![p].step = "apply"]
  <2>1. 0 \in 0..MaxRelease /\ 0 \in Versions /\ Mine(p).journal <= 0
    BY <1>3, Bounds DEF Versions, NoTable
  <2>2. Rewrote(f, WithJournal(Mine(p), 0)) /\ WithJournal(Mine(p), 0).journal = 0
    <3>1. SetFile(f, WithJournal(Mine(p), 0))
      BY <1>3 DEF WithJournal
    <3> QED BY <1>0, <1>3, <2>1, <3>1, Underway, JournalGrows DEF Rewrote
  <2>3. files' \in Seq(Sound) /\ Grows(files, files') /\ files'[f].journal = 0
    BY <2>2, SetStep DEF Rewrote
  <2>4. cmd' \in [Commands -> Rows(files')]
    <3>1. 0 <= files'[f].journal
      BY <2>3
    <3> QED BY <1>1, <1>3, <2>1, <2>3, <3>1
  <2> QED BY <1>0, <2>2, <2>4, RestStep DEF FileStep
<1>4. CASE Fails(p)
  <2>1. UNCHANGED <<path, writer>>
    BY <1>0 DEF rest
  <2>2. FileStep /\ cmd' \in [Commands -> Rows(files')]
    BY <1>0, <1>4, <2>1, FailStep
  <2> QED BY <1>0, <2>2, RestStep
<1> QED BY <1>2, <1>3, <1>4 DEF ReadJournal

LEMMA ApplyStep ==
  ASSUME LifecycleInv, NEW p \in Commands, ApplyPending(p)
  PROVE  CommandStep
<1> DEFINE c == Mine(p)
           f == cmd[p].file
           r == cmd[p].release
           next == IF p \in Initializers THEN "control" ELSE "sync"
<1>0. Running(p) /\ UNCHANGED rest
  BY DEF ApplyPending, At, Running, Ended
<1>1. cmd[p].seen <= c.journal /\ cmd[p].seen \in Int /\ r \in Int
  BY <1>0, Underway, Memory, Bounds DEF ApplyPending, At, Rows, Row, Versions
<1>2. next \in Steps \ {"idle", "apply"} /\ next \notin {"restore", "replace"}
  BY DEF Steps, Ended
<1> HIDE DEF next
<1>3. CASE cmd[p].seen >= r
  <2>1. Goto(p, next) /\ files' = files
    BY <1>3 DEF ApplyPending, next
  <2>2. /\ r <= files'[f].journal /\ files' \in Seq(Sound) /\ Grows(files, files')
        /\ FileStep
    BY <1>0, <1>1, <1>3, <2>1, Underway, SameGrows DEF LifecycleInv, FileStep, Kept
  <2>3. cmd' \in [Commands -> Rows(files')]
    BY <1>0, <1>2, <2>1, <2>2, GotoStep
  <2> QED BY <1>0, <2>2, <2>3, RestStep
<1>4. CASE ~(cmd[p].seen >= r) /\ LockFree(f) /\ c.journal = cmd[p].seen
  <2>1. Goto(p, next) /\ SetFile(f, [c EXCEPT !.journal = r])
    BY <1>4 DEF ApplyPending, next
  <2>2. r \in 0..MaxRelease /\ c.journal <= r
    BY <1>0, <1>1, <1>4, Underway, Bounds
  <2>3. Rewrote(f, WithJournal(c, r)) /\ WithJournal(c, r).journal = r
    <3>1. SetFile(f, WithJournal(c, r))
      BY <2>1 DEF WithJournal
    <3> QED BY <1>0, <1>4, <2>2, <3>1, Underway, JournalGrows DEF Rewrote
  <2>4. files' \in Seq(Sound) /\ Grows(files, files') /\ files'[f].journal = r
    BY <2>3, SetStep DEF Rewrote
  <2>5. cmd' \in [Commands -> Rows(files')]
    BY <1>0, <1>1, <1>2, <2>1, <2>4, GotoStep
  <2> QED BY <1>0, <2>3, <2>5, RestStep DEF FileStep
<1>5. CASE ~(cmd[p].seen >= r) /\ ~(LockFree(f) /\ c.journal = cmd[p].seen)
  <2>1. Fails(p)
    BY <1>5 DEF ApplyPending
  <2> QED BY <1>0, <2>1, Underway, FailStep, RestStep
<1> QED BY <1>3, <1>4, <1>5

LEMMA SyncStep ==
  ASSUME LifecycleInv, NEW p \in Commands, Synchronize(p)
  PROVE  CommandStep
<1> DEFINE c == Mine(p)
           r == cmd[p].release
<1>0. Running(p) /\ UNCHANGED rest /\ LockFree(cmd[p].file)
  BY DEF Synchronize, At, Running, Ended
<1>1. CASE c.journal = r /\ c.control >= LegacyTop /\ c.state = "READY"
  <2>1. SetFile(cmd[p].file, [c EXCEPT !.control = Official(r)]) /\ Goto(p, "verify")
    BY <1>1 DEF Synchronize
  <2>2. [c EXCEPT !.control = Official(r)] = WithControl(c, r)
    BY <1>0, <1>1, Underway, Fields DEF Contents, WithControl
  <2>3. Rewrote(cmd[p].file, WithControl(c, r))
    <3>1. SetFile(cmd[p].file, WithControl(c, r))
      BY <2>1, <2>2
    <3>2. r \in 1..MaxRelease /\ r <= c.journal
      BY <1>0, <1>1, Underway
    <3> QED BY <1>0, <1>1, <3>1, <3>2, Underway, ControlMoves DEF Rewrote
  <2>4. /\ files' \in Seq(Sound) /\ Grows(files, files')
        /\ files'[cmd[p].file] = WithControl(c, r)
    BY <2>3, SetStep DEF Rewrote
  <2>5. WithControl(c, r).journal = r /\ r \in 1..MaxRelease
    BY <1>0, <1>1, Underway, ControlMoves
  <2>6. cmd' \in [Commands -> Rows(files')]
    BY <1>0, <2>1, <2>4, <2>5, GotoStep DEF Steps
  <2> QED BY <1>0, <2>3, <2>6, RestStep DEF FileStep
<1>2. CASE ~(c.journal = r /\ c.control >= LegacyTop /\ c.state = "READY")
  <2>1. Fails(p)
    BY <1>2 DEF Synchronize
  <2> QED BY <1>0, <2>1, Underway, FailStep, RestStep
<1> QED BY <1>1, <1>2

\* The steps that leave every file alone and go on, end or fail.
LEMMA QuietStep ==
  ASSUME LifecycleInv, NEW p \in Commands,
         Verify(p) \/ LeaseTimesOut(p) \/ CheckRestored(p) \/ InspectRestored(p)
  PROVE  CommandStep
<1>1. Running(p) /\ UNCHANGED rest /\ UNCHANGED <<path, writer>>
  BY DEF Verify, LeaseTimesOut, CheckRestored, InspectRestored, At, Running, Ended, rest
<1>2. ASSUME Fails(p) PROVE CommandStep
  <2>1. FileStep /\ cmd' \in [Commands -> Rows(files')]
    BY <1>1, <1>2, FailStep
  <2> QED BY <1>1, <2>1, RestStep
<1>3. ASSUME NEW step \in {"done", "failed", "restored", "mark"}, Goto(p, step), files' = files
      PROVE  CommandStep
  <2>1. FileStep /\ cmd' \in [Commands -> Rows(files')]
    BY <1>1, <1>3, KeptStep DEF Kept, Steps, Ended
  <2> QED BY <1>1, <2>1, RestStep
<1>4. CASE Verify(p)
  BY <1>2, <1>3, <1>4 DEF Verify
<1>5. CASE LeaseTimesOut(p)
  BY <1>2, <1>5 DEF LeaseTimesOut
<1>6. CASE CheckRestored(p)
  BY <1>3, <1>6 DEF CheckRestored
<1>7. CASE InspectRestored(p)
  BY <1>3, <1>7 DEF InspectRestored
<1> QED BY <1>4, <1>5, <1>6, <1>7

LEMMA MarkStep ==
  ASSUME LifecycleInv, NEW p \in Commands, MarkRecovery(p)
  PROVE  CommandStep
<1>1. Running(p) /\ UNCHANGED rest /\ UNCHANGED <<path, writer>> /\ Goto(p, "recovery")
  BY DEF MarkRecovery, At, Running, Ended, rest
<1>2. CASE LockFree(path) /\ Here.control # 0
  <2>1. SetFile(path, Marked(Here)) /\ Here \in Sound /\ path \in 1..Len(files) /\ Here = files[path]
    BY <1>2, Memory DEF MarkRecovery, Marked, Here
  <2>2. Rewrote(path, Marked(Here))
    BY <1>1, <1>2, <2>1, Marks, Fields DEF Rewrote
  <2> QED BY <1>1, <2>2, RewriteStep, RestStep DEF Steps, Ended
<1>3. CASE ~(LockFree(path) /\ Here.control # 0)
  <2>1. Kept
    BY <1>1, <1>3 DEF MarkRecovery, Kept
  <2>2. FileStep /\ cmd' \in [Commands -> Rows(files')]
    BY <1>1, <2>1, KeptStep DEF Steps, Ended
  <2> QED BY <1>1, <2>2, RestStep
<1> QED BY <1>2, <1>3

LEMMA InitControlStep ==
  ASSUME LifecycleInv, NEW p \in Commands, InitControl(p)
  PROVE  CommandStep
<1> DEFINE c == Mine(p)
           r == cmd[p].release
<1>0. /\ Running(p) /\ UNCHANGED rest /\ UNCHANGED <<path, writer>> /\ LockFree(cmd[p].file)
      /\ cmd[p].step = "control"
  BY DEF InitControl, At, Running, Ended, rest
<1>1. CASE c.control = 0 /\ SetFile(cmd[p].file, WithControl(c, r)) /\ Goto(p, "done")
  <2>1. r \in 1..MaxRelease /\ r <= c.journal
    BY <1>0, Underway, Memory DEF Rows
  <2>2. c.state = "NONE"
    BY <1>0, <1>1, Underway, Fields
  <2>3. Rewrote(cmd[p].file, WithControl(c, r))
    BY <1>0, <1>1, <2>1, <2>2, Underway, ControlMoves DEF Rewrote
  <2>4. FileStep /\ cmd' \in [Commands -> Rows(files')]
    BY <1>0, <1>1, <2>3, RewriteStep DEF Steps, Ended
  <2> QED BY <1>0, <2>4, RestStep
<1>2. ASSUME NEW step \in {"done", "failed"}, Goto(p, step), files' = files
      PROVE  CommandStep
  <2>1. FileStep /\ cmd' \in [Commands -> Rows(files')]
    BY <1>0, <1>2, KeptStep DEF Kept, Steps, Ended
  <2> QED BY <1>0, <2>1, RestStep
<1> QED BY <1>1, <1>2 DEF InitControl, WithControl

LEMMA RenameStep ==
  ASSUME LifecycleInv, NEW p \in Commands, RestoreBackup(p) \/ ReplaceByBackup(p)
  PROVE  CommandStep
<1>1. /\ Running(p) /\ release' = release /\ writer' = writer /\ backups' = backups
      /\ started' = started /\ faults' = faults
      /\ cmd[p].step \in {"restore", "replace"}
  BY DEF RestoreBackup, ReplaceByBackup, At, Running, Ended
<1>2. cmd[p].backup \in Sound
  BY <1>1, Memory DEF Rows, Row, HeldBackups
<1>3. ASSUME Replace(cmd[p].backup), NEW step \in {"check", "inspect"}, Goto(p, step)
      PROVE  CommandStep
  <2>1. files' \in Seq(Sound) /\ Grows(files, files')
    BY <1>2, <1>3, ReplaceStep
  <2>2. step \in Steps \ {"idle", "apply"} /\ step \notin {"control", "verify", "restore", "replace"}
    BY DEF Steps
  <2>3. cmd' \in [Commands -> Rows(files')]
    BY <1>1, <1>3, <2>1, <2>2, GotoStep
  <2>4. FileStep
    BY <1>1, <1>2, <1>3 DEF FileStep, Replaced
  <2> QED BY <1>1, <2>3, <2>4 DEF CommandStep, LifecycleInv
<1>4. ASSUME Goto(p, "failed"), UNCHANGED <<files, path>>
      PROVE  CommandStep
  <2>1. FileStep /\ cmd' \in [Commands -> Rows(files')]
    BY <1>1, <1>4, KeptStep DEF Kept, Steps, Ended
  <2> QED BY <1>1, <2>1 DEF CommandStep, LifecycleInv
<1> QED BY <1>3, <1>4 DEF RestoreBackup, ReplaceByBackup

LEMMA FaultStep ==
  ASSUME LifecycleInv, NEW p \in Commands, Crash(p) \/ StepFails(p)
  PROVE  CommandStep
<1>1. /\ Running(p) /\ UNCHANGED <<path, writer, release, backups, started>>
      /\ faults' \in 0..MaxFaults
  BY Bounds DEF Crash, StepFails, LifecycleInv
<1>2. CASE Crash(p)
  <2>1. FileStep /\ cmd' \in [Commands -> Rows(files')]
    BY <1>1, <1>2, KeptStep DEF Crash, Kept, Steps, Ended
  <2> QED BY <1>1, <2>1 DEF CommandStep, LifecycleInv
<1>3. CASE StepFails(p)
  <2>1. FileStep /\ cmd' \in [Commands -> Rows(files')]
    BY <1>1, <1>3, FailStep DEF StepFails
  <2> QED BY <1>1, <2>1 DEF CommandStep, LifecycleInv
<1> QED BY <1>2, <1>3

LEMMA States == \A c, r : DbState(c, r) \in Sources
BY DEF DbState, Sources

LEMMA StartStep ==
  ASSUME LifecycleInv, NEW p \in Commands, StartUpgrade(p) \/ StartInit(p)
  PROVE  CommandStep
<1>1. /\ Kept /\ UNCHANGED <<release, backups, faults>> /\ started' \in 0..MaxCommands
      /\ files' = files /\ files' \in Seq(Sound) /\ Grows(files, files') /\ Len(files') \in Nat
  BY Bounds, SameGrows, FilesFacts DEF StartUpgrade, StartInit, CanStart, Kept, LifecycleInv
<1>2. ASSUME NEW step \in {"done", "failed", "backup", "migrate"}, NEW source \in Sources,
             NEW at \in LegacyVersions, Start(p, step, source, at)
      PROVE  CommandStep
  <2>1. CASE step \in {"done", "failed"}
    <3>1. [Idle EXCEPT !.step = step] \in Rows(files')
      BY <1>1, <2>1, IdleRow DEF Ended
    <3>2. cmd' = [cmd EXCEPT ![p] = [Idle EXCEPT !.step = step]]
      BY <1>2, <2>1 DEF Start, Ended
    <3> QED BY <1>1, <3>1, <3>2, CmdStep DEF CommandStep, FileStep, LifecycleInv
  <2>2. CASE step \in {"backup", "migrate"}
    <3> DEFINE row == Started(cmd[p], step, release, path, at, source)
    <3>1. /\ cmd[p] \in Row(Len(files)) /\ step \in Steps /\ release \in Versions
          /\ path \in 0..Len(files) /\ path >= 1 /\ release >= 1
      BY <1>1, <2>2, Memory, Bounds DEF LifecycleInv, Steps, Versions
    <3>2. row \in Row(Len(files)) /\ row.step = step /\ row.release = release /\ row.file = path
      BY <3>1, RowStarted
    <3>3. cmd' = [cmd EXCEPT ![p] = row]
      BY <1>2, <2>2 DEF Start, Ended, Started
    <3> HIDE DEF row
    <3>4. row \in Rows(files')
      BY <1>1, <2>2, <3>1, <3>2 DEF Rows
    <3> QED BY <1>1, <3>3, <3>4, CmdStep DEF CommandStep, FileStep, LifecycleInv
  <2> QED BY <2>1, <2>2
<1>3. 0 \in LegacyVersions /\ LegacyTop \in LegacyVersions /\ Here.legacy \in LegacyVersions
  BY Bounds, Memory, Fields DEF LegacyVersions
<1> DEFINE st == DbState(Here, release)
<1>4. st \in Sources
  BY States
<1>5. CASE StartUpgrade(p)
  <2>1. \/ Start(p, IF Here.journal < release THEN "backup" ELSE "migrate", st, LegacyTop)
        \/ Start(p, "backup", st, Here.legacy)
        \/ Start(p, "failed", st, 0)
    BY <1>5 DEF StartUpgrade
  <2> HIDE DEF st
  <2> QED BY <1>2, <1>3, <1>4, <2>1
<1>6. CASE StartInit(p)
  <2>1. \E step \in {"migrate", "done", "failed"} : Start(p, step, st, 0)
    BY <1>6 DEF StartInit
  <2> HIDE DEF st
  <2> QED BY <1>2, <1>3, <1>4, <2>1
<1> QED BY <1>5, <1>6

LEMMA StartRestoreStep ==
  ASSUME LifecycleInv, NEW p \in Commands, StartRestore(p)
  PROVE  CommandStep
<1> DEFINE v == ManifestFor(Here, release)
           step == IF Backable(Here, release, v) THEN "replace" ELSE "failed"
<1>1. /\ Kept /\ UNCHANGED <<release, faults>> /\ started' \in 0..MaxCommands
      /\ files' = files /\ files' \in Seq(Sound) /\ Grows(files, files')
  BY Bounds, SameGrows DEF StartRestore, CanStart, Kept, LifecycleInv
<1>2. PICK b \in backups :
        /\ cmd' = [cmd EXCEPT ![p] = RestoreStarted(cmd[p], step, release, path, v, b)]
        /\ backups' = IF Backable(Here, release, v) THEN backups \cup {Here} ELSE backups
  BY DEF StartRestore, RestoreStarted
<1>3. b \in Sound /\ b \in HeldBackups /\ b # NoBackup /\ backups' \subseteq Sound
  BY <1>2, Memory, Fields DEF LifecycleInv, HeldBackups, NoBackup
<1>4. v \in LegacyVersions
  BY Bounds, Memory, Fields DEF ManifestFor, LegacyVersions
<1>5. step \in {"replace", "failed"} /\ step \in Steps
  BY DEF Steps, Ended
<1> HIDE DEF v, step
<1> DEFINE row == RestoreStarted(cmd[p], step, release, path, v, b)
<1>6. /\ cmd[p] \in Row(Len(files)) /\ release \in Versions
      /\ path \in 0..Len(files) /\ path >= 1 /\ release >= 1
  BY Memory, Bounds, FilesFacts DEF LifecycleInv, Versions
<1>7. /\ row \in Row(Len(files)) /\ row.step = step /\ row.release = release
      /\ row.file = path /\ row.backup = b
  BY <1>3, <1>4, <1>5, <1>6, RowRestoreStarted
<1>8. cmd' = [cmd EXCEPT ![p] = row]
  BY <1>2
<1> HIDE DEF row
<1>9. row \in Rows(files')
  BY <1>1, <1>3, <1>5, <1>6, <1>7 DEF Rows
<1>10. cmd' \in [Commands -> Rows(files')]
  BY <1>1, <1>8, <1>9, CmdStep
<1>11. release' = release /\ faults' \in 0..MaxFaults /\ FileStep
  BY <1>1 DEF LifecycleInv, FileStep
<1> QED BY <1>1, <1>3, <1>10, <1>11 DEF CommandStep

\* Every step of a command, its start and its faults included.
LEMMA AnyCommandStep ==
  ASSUME LifecycleInv, NEW p \in Commands,
         \/ StartInit(p) \/ StartUpgrade(p) \/ StartRestore(p)
         \/ Step(p) \/ Crash(p) \/ StepFails(p)
  PROVE  CommandStep
BY StartStep, StartRestoreStep, FaultStep, BackupStep, HopStep, SeedStep, ReadStep, ApplyStep,
   SyncStep, QuietStep, MarkStep, InitControlStep, RenameStep DEF Step

-----------------------------------------------------------------------------
(* The invariant                                                           *)

LEMMA LifecycleInit == Init => LifecycleInv
<1> SUFFICES ASSUME Init PROVE LifecycleInv
  OBVIOUS
<1>1. EmptyFile \in Sound /\ \A v \in 1..LegacyTop : LegacyFile(v) \in Sound
  BY Bounds DEF EmptyFile, LegacyFile, Content, Sound, Contents, NoTable, ControlTrusted, Official
<1>2. PICK c \in Sound : files = <<c>>
  BY <1>1 DEF Init
<1>3. files \in Seq(Sound) /\ Len(files) = 1
  BY <1>2
<1>4. Idle \in Rows(files)
  <2>1. [Idle EXCEPT !.step = "idle"] \in Rows(files)
    BY <1>3, IdleRow
  <2>2. [Idle EXCEPT !.step = "idle"] = Idle
    BY DEF Idle
  <2> QED BY <2>1, <2>2
<1>5. cmd \in [Commands -> Rows(files)]
  BY <1>4 DEF Init
<1>6. Gated
  BY DEF Init, Gated
<1>7. /\ release \in FirstRelease..MaxRelease /\ path = 1 /\ backups \subseteq Sound
      /\ started \in 0..MaxCommands /\ faults \in 0..MaxFaults
  BY Bounds, ReleaseAssumption DEF Init
<1>8. writer \in [Sessions -> 0..Len(files)]
  BY <1>3 DEF Init
<1> QED BY <1>3, <1>5, <1>6, <1>7, <1>8 DEF LifecycleInv

\* A session that begins, commits, or gives up.
LEMMA SessionStep ==
  ASSUME LifecycleInv, NEW s \in Sessions, BeginSession(s) \/ CommitSession(s) \/ RollbackSession(s)
  PROVE  LifecycleInv'
<1>0. /\ UNCHANGED <<release, path, backups, cmd, faults, started>>
      /\ Len(files) \in Nat /\ writer \in [Sessions -> 0..Len(files)] /\ path = Len(files) /\ path >= 1
  BY FilesFacts DEF BeginSession, CommitSession, RollbackSession, LifecycleInv
<1>1. CASE BeginSession(s)
  <2>1. files' = files /\ writer' = [writer EXCEPT ![s] = path]
    BY <1>1 DEF BeginSession
  <2>2. writer' \in [Sessions -> 0..Len(files)]
    BY <1>0, <2>1
  <2>3. Gated'
    BY <1>0, <1>1, <2>1 DEF Gated, LifecycleInv, BeginSession, Here
  <2> QED BY <1>0, <2>1, <2>2, <2>3 DEF LifecycleInv
<1>2. CASE RollbackSession(s)
  <2>1. files' = files /\ writer' = [writer EXCEPT ![s] = 0]
    BY <1>2 DEF RollbackSession
  <2>2. writer' \in [Sessions -> 0..Len(files)]
    BY <1>0, <2>1
  <2>3. Gated'
    BY <1>0, <2>1 DEF Gated, LifecycleInv
  <2> QED BY <1>0, <2>1, <2>2, <2>3 DEF LifecycleInv
<1>3. CASE CommitSession(s)
  <2> DEFINE f == writer[s]
             c == files[f]
             new == [c EXCEPT !.data = @ \cup {s}]
  <2>1. f \in 1..Len(files) /\ SetFile(f, new) /\ writer' = [writer EXCEPT ![s] = 0]
    BY <1>0, <1>3 DEF CommitSession
  <2>2. c \in Sound /\ c \in Contents
    BY <2>1, FilesFacts, Fields DEF LifecycleInv
  <2>3. /\ new \in Contents /\ new.journal = c.journal /\ new.legacy = c.legacy
        /\ new.control = c.control /\ new.state = c.state
    BY <2>2 DEF Contents
  <2>4. c.journal \in Int
    BY <2>2, Fields
  <2> HIDE DEF new
  <2>5. new \in Sound
    BY <2>2, <2>3 DEF Sound, ControlTrusted
  <2>6. /\ files' \in Seq(Sound) /\ Len(files') = Len(files)
        /\ \A g \in 1..Len(files) : files'[g] = IF g = f THEN new ELSE files[g]
        /\ Grows(files, files')
    BY <2>1, <2>3, <2>4, <2>5, SetStep
  <2>7. cmd' \in [Commands -> Rows(files')]
    BY <1>0, <2>6, CmdSame
  <2>8. Gated'
    <3>1. \A q \in Sessions : writer'[q] # 0 =>
            /\ writer'[q] = writer[q] /\ writer[q] \in 1..Len(files)
            /\ files'[writer'[q]].state = files[writer[q]].state
            /\ files'[writer'[q]].journal = files[writer[q]].journal
            /\ files'[writer'[q]].legacy = files[writer[q]].legacy
            /\ files'[writer'[q]].control = files[writer[q]].control
      BY <1>0, <2>1, <2>3, <2>6
    <3> QED BY <1>0, <3>1 DEF Gated, LifecycleInv, GateOpen
  <2>9. writer' \in [Sessions -> 0..Len(files')]
    BY <1>0, <2>1, <2>6
  <2> QED BY <1>0, <2>6, <2>7, <2>8, <2>9 DEF LifecycleInv
<1> QED BY <1>1, <1>2, <1>3

LEMMA LifecycleStep == LifecycleInv /\ [Next]_vars => LifecycleInv'
<1> SUFFICES ASSUME LifecycleInv, [Next]_vars PROVE LifecycleInv'
  OBVIOUS
<1>1. ASSUME NEW p \in Commands,
             \/ StartInit(p) \/ StartUpgrade(p) \/ StartRestore(p)
             \/ Step(p) \/ Crash(p) \/ StepFails(p)
      PROVE  LifecycleInv'
  <2>1. CommandStep
    BY <1>1, AnyCommandStep
  <2>2. FilesInv /\ Gated'
    BY <2>1, FileStepInv DEF CommandStep
  <2> QED BY <2>1, <2>2 DEF CommandStep, FilesInv, LifecycleInv
<1>2. CASE CreateBackup
  <2>1. backups' \subseteq Sound
    BY <1>2, FilesFacts DEF CreateBackup, LifecycleInv, Here
  <2> QED BY <1>2, <2>1 DEF CreateBackup, LifecycleInv, Gated
<1>3. CASE InstallRelease
  <2>1. release' \in FirstRelease..MaxRelease /\ release <= release'
    BY <1>3, Bounds DEF InstallRelease, LifecycleInv
  <2>2. Gated'
    BY <1>3, <2>1, Bounds DEF InstallRelease, LifecycleInv, Gated
  <2> QED BY <1>3, <2>1, <2>2 DEF InstallRelease, LifecycleInv
<1>4. CASE UNCHANGED vars
  BY <1>4 DEF vars, LifecycleInv, Gated
<1> QED BY <1>1, <1>2, <1>3, <1>4, SessionStep DEF Next

LEMMA LifecycleInvariant == Spec => []LifecycleInv
BY LifecycleInit, LifecycleStep, PTL DEF Spec

-----------------------------------------------------------------------------
(* What follows                                                            *)

\* Every reachable state of the database and of its commands is well formed,
\* for all constants.
THEOREM LifecycleTypeCorrect == Spec => []LifecycleTypeOK
<1>1. ASSUME LifecycleInv PROVE LifecycleTypeOK
  <2>1. files \in Seq(Contents)
    <3>1. Sound \subseteq Contents
      BY DEF Sound
    <3> QED BY <1>1, <3>1, SeqMonotonic DEF LifecycleInv
  <2>2. backups \subseteq Contents
    BY <1>1 DEF LifecycleInv, Sound
  <2>3. \A p \in Commands : cmd[p] \in
          [step : Steps, release : 0..MaxRelease, file : 0..Len(files), at : 0..LegacyTop,
           seen : 0..MaxRelease, backup : Contents \cup {NoBackup},
           source : {"none", "EMPTY", "LEGACY", "MANAGED", "BRIDGED", "UNKNOWN"}]
    BY <1>1, Memory DEF Row, Versions, LegacyVersions, HeldBackups, Sources, Sound
  <2> QED BY <1>1, <2>1, <2>2, <2>3 DEF LifecycleInv, LifecycleTypeOK
<1> QED BY <1>1, LifecycleInvariant, PTL

\* The control row of no file and of no backup ever names a migration its
\* histories lack, whatever commands race or die (application.ts:197,
\* drizzle-baseline.ts:258).
THEOREM ControlIsNeverAhead == Spec => []ControlNeverAhead
<1>1. ASSUME LifecycleInv PROVE ControlNeverAhead
  <2>1. \A f \in DOMAIN files : files[f] \in Sound
    BY <1>1, FilesFacts DEF LifecycleInv
  <2> QED BY <1>1, <2>1 DEF LifecycleInv, ControlNeverAhead, Sound
<1> QED BY <1>1, LifecycleInvariant, PTL

\* A command changes no data and lifts no mark; a session has passed the gate
\* of the file it writes.
LEMMA FileEffects ==
  ASSUME LifecycleInv, [Next]_vars, NEW f \in DOMAIN files
  PROVE  /\ files[f].state = "RECOVERY_REQUIRED" => files'[f].state = "RECOVERY_REQUIRED"
         /\ \/ files'[f].data = files[f].data
            \/ \E r \in FirstRelease..release : GateOpen(files[f], r)
<1>0. DOMAIN files = 1..Len(files) /\ Len(files) \in Nat
  BY FilesFacts DEF LifecycleInv
<1>1. CASE files' = files
  BY <1>1
<1>2. ASSUME CommandStep
      PROVE  /\ files'[f].data = files[f].data
             /\ files[f].state = "RECOVERY_REQUIRED" => files'[f].state = "RECOVERY_REQUIRED"
  <2>1. CASE Kept
    BY <2>1 DEF Kept
  <2>2. ASSUME NEW g, NEW c, Rewrote(g, c)
        PROVE  /\ files'[f].data = files[f].data
               /\ files[f].state = "RECOVERY_REQUIRED" => files'[f].state = "RECOVERY_REQUIRED"
    <3>1. files'[f] = IF f = g THEN c ELSE files[f]
      BY <1>0, <2>2, SetStep DEF Rewrote
    <3> QED BY <2>2, <3>1 DEF Rewrote
  <2>3. ASSUME NEW b, Replaced(b)
        PROVE  /\ files'[f].data = files[f].data
               /\ files[f].state = "RECOVERY_REQUIRED" => files'[f].state = "RECOVERY_REQUIRED"
    BY <1>0, <2>3, ReplaceStep DEF Replaced
  <2> QED BY <1>2, <2>1, <2>2, <2>3 DEF CommandStep, FileStep
<1>3. ASSUME NEW s \in Sessions, CommitSession(s)
      PROVE  /\ files[f].state = "RECOVERY_REQUIRED" => files'[f].state = "RECOVERY_REQUIRED"
             /\ \/ files'[f].data = files[f].data
                \/ \E r \in FirstRelease..release : GateOpen(files[f], r)
  <2>1. CASE f = writer[s]
    <3>1. \E r \in FirstRelease..release : GateOpen(files[f], r)
      BY <1>3, <2>1 DEF CommitSession, LifecycleInv, Gated
    <3>2. files[f].state # "RECOVERY_REQUIRED"
      BY <3>1 DEF GateOpen
    <3> QED BY <3>1, <3>2
  <2>2. CASE f # writer[s]
    BY <1>0, <1>3, <2>2 DEF CommitSession, SetFile
  <2> QED BY <2>1, <2>2
<1>4. ASSUME NEW s \in Sessions, BeginSession(s) \/ RollbackSession(s)
      PROVE  files' = files
  BY <1>4 DEF BeginSession, RollbackSession
<1>5. CASE CreateBackup \/ InstallRelease \/ UNCHANGED vars
  BY <1>1, <1>5 DEF CreateBackup, InstallRelease, vars
<1> QED BY <1>1, <1>2, <1>3, <1>4, <1>5, AnyCommandStep DEF Next

\* A file marked RECOVERY_REQUIRED (application.ts:270) keeps its mark and its
\* data for ever; only another file, put over the path by a restore, replaces it.
THEOREM RecoveryFreezesFiles == Spec => RecoveryFreezes
<1>1. ASSUME LifecycleInv, [Next]_vars, NEW f \in DOMAIN files, files[f].state = "RECOVERY_REQUIRED"
      PROVE  files'[f].state = "RECOVERY_REQUIRED" /\ files'[f].data = files[f].data
  BY <1>1, FileEffects DEF GateOpen
<1>2. LifecycleInv /\ [Next]_vars =>
        [\A f \in DOMAIN files : files[f].state = "RECOVERY_REQUIRED" =>
           files'[f].state = "RECOVERY_REQUIRED" /\ files'[f].data = files[f].data]_vars
  BY <1>1
<1> QED BY <1>2, LifecycleInvariant, PTL DEF Spec, RecoveryFreezes

\* Whatever a business session commits goes into a file whose gate is open at
\* the moment of the commit (business-session-runner.ts:479).
THEOREM WritesPassTheOpenGate == Spec => WritesPassTheGate
<1>1. LifecycleInv /\ [Next]_vars =>
        [\A f \in DOMAIN files : files'[f].data # files[f].data =>
           \E r \in FirstRelease..release : GateOpen(files[f], r)]_vars
  BY FileEffects
<1> QED BY <1>1, LifecycleInvariant, PTL DEF Spec, WritesPassTheGate

-----------------------------------------------------------------------------
(* What a finished upgrade leaves                                          *)

\* An upgrade that is under way started from a database it recognised.
Recognised ==
  \A p \in Upgraders : Running(p) => cmd[p].source \in {"LEGACY", "MANAGED", "BRIDGED"}

LEMMA OthersStay ==
  ASSUME LifecycleInv, NEW q \in Commands, NEW p \in Commands \ {q},
         \/ StartInit(q) \/ StartUpgrade(q) \/ StartRestore(q)
         \/ Step(q) \/ Crash(q) \/ StepFails(q)
  PROVE  cmd'[p] = cmd[p]
<1>1. ASSUME NEW row, cmd' = [cmd EXCEPT ![q] = row] PROVE cmd'[p] = cmd[p]
  BY <1>1 DEF LifecycleInv
<1>2. ASSUME NEW step, Goto(q, step) PROVE cmd'[p] = cmd[p]
  BY <1>1, <1>2 DEF Goto
<1>3. ASSUME NEW step, NEW source, NEW at, Start(q, step, source, at) PROVE cmd'[p] = cmd[p]
  BY <1>1, <1>3 DEF Start
<1>4. CASE StartInit(q) \/ StartUpgrade(q) \/ StartRestore(q)
  BY <1>1, <1>3, <1>4 DEF StartInit, StartUpgrade, StartRestore
<1>5. CASE TakeBackup(q) \/ Hop(q) \/ ReadJournal(q)
  BY <1>1, <1>2, <1>5 DEF TakeBackup, Hop, ReadJournal, Fails, LifecycleInv
<1>6. CASE Seed(q) \/ ApplyPending(q) \/ Synchronize(q) \/ Verify(q) \/ LeaseTimesOut(q)
  BY <1>2, <1>6 DEF Seed, ApplyPending, Synchronize, Verify, LeaseTimesOut, Fails
<1>7. CASE RestoreBackup(q) \/ CheckRestored(q) \/ MarkRecovery(q)
  BY <1>2, <1>7 DEF RestoreBackup, CheckRestored, MarkRecovery
<1>8. CASE InitControl(q) \/ ReplaceByBackup(q) \/ InspectRestored(q) \/ Crash(q) \/ StepFails(q)
  BY <1>2, <1>8 DEF InitControl, ReplaceByBackup, InspectRestored, Crash, StepFails, Fails
<1> QED BY <1>4, <1>5, <1>6, <1>7, <1>8 DEF Step

LEMMA GotoKeepsSource ==
  ASSUME LifecycleInv, NEW p \in Commands, NEW step, Goto(p, step)
  PROVE  /\ cmd'[p].step = step
         /\ step \in Ended \/ cmd'[p].source = cmd[p].source
<1>1. cmd[p] \in Row(Len(files))
  BY Memory
<1>2. [Idle EXCEPT !.step = step].step = step
  BY DEF Idle
<1>3. /\ [cmd[p] EXCEPT !.step = step, !.seen = 0].step = step
      /\ [cmd[p] EXCEPT !.step = step, !.seen = 0].source = cmd[p].source
  BY <1>1 DEF Row
<1> QED BY <1>2, <1>3 DEF Goto, LifecycleInv

\* A command remembers what it started from until it ends.
LEMMA SourceStays ==
  ASSUME LifecycleInv, NEW p \in Commands, Step(p) \/ Crash(p) \/ StepFails(p)
  PROVE  /\ Running(p)
         /\ cmd'[p].step \in Ended \/ cmd'[p].source = cmd[p].source
<1>1. cmd[p] \in Row(Len(files))
  BY Memory
<1>2. CASE TakeBackup(p) \/ Hop(p) \/ ReadJournal(p)
  <2>1. Running(p)
    BY <1>2 DEF TakeBackup, Hop, ReadJournal, At, Running, Ended
  <2>2. ASSUME NEW row, cmd' = [cmd EXCEPT ![p] = row] PROVE cmd'[p] = row
    BY <2>2 DEF LifecycleInv
  <2>3. CASE TakeBackup(p)
    <3> DEFINE step == IF cmd[p].source = "LEGACY" THEN "hop" ELSE "migrate"
    <3>1. \/ cmd' = [cmd EXCEPT ![p] = BackedUp(cmd[p], step, Here)]
          \/ Goto(p, "failed")
      BY <2>3 DEF TakeBackup, BackedUp
    <3> HIDE DEF step
    <3>2. BackedUp(cmd[p], step, Here).source = cmd[p].source
      BY <1>1 DEF Row, BackedUp
    <3> QED BY <2>1, <2>2, <3>1, <3>2, GotoKeepsSource DEF Ended
  <2>4. CASE Hop(p)
    <3> DEFINE at == cmd[p].at + 1
    <3>1. \/ cmd' = [cmd EXCEPT ![p] = Hopped(cmd[p], at)]
          \/ \E step : Goto(p, step)
      BY <2>4 DEF Hop, Hopped
    <3> HIDE DEF at
    <3>2. Hopped(cmd[p], at).source = cmd[p].source
      BY <1>1 DEF Row, Hopped
    <3> QED BY <2>1, <2>2, <3>1, <3>2, GotoKeepsSource
  <2>5. CASE ReadJournal(p)
    <3>1. \/ \E seen : cmd' = [cmd EXCEPT ![p] = MovedTo(cmd[p], "apply", seen)]
          \/ \E step : Goto(p, step)
      <4>1. \A seen : [cmd EXCEPT ![p].seen = seen, ![p].step = "apply"]
                      = [cmd EXCEPT ![p] = MovedTo(cmd[p], "apply", seen)]
        BY DEF MovedTo, LifecycleInv
      <4> QED BY <2>5, <4>1 DEF ReadJournal, Fails
    <3>2. \A seen : MovedTo(cmd[p], "apply", seen).source = cmd[p].source
      BY <1>1 DEF Row, MovedTo
    <3> QED BY <2>1, <2>2, <3>1, <3>2, GotoKeepsSource
  <2> QED BY <1>2, <2>1, <2>3, <2>4, <2>5
<1>3. CASE Seed(p) \/ ApplyPending(p) \/ Synchronize(p) \/ Verify(p) \/ LeaseTimesOut(p)
  BY <1>3, GotoKeepsSource
     DEF Seed, ApplyPending, Synchronize, Verify, LeaseTimesOut, Fails, At, Running, Ended
<1>4. CASE RestoreBackup(p) \/ CheckRestored(p) \/ MarkRecovery(p)
  BY <1>4, GotoKeepsSource DEF RestoreBackup, CheckRestored, MarkRecovery, At, Running, Ended
<1>5. CASE InitControl(p) \/ ReplaceByBackup(p) \/ InspectRestored(p) \/ Crash(p) \/ StepFails(p)
  BY <1>5, GotoKeepsSource
     DEF InitControl, ReplaceByBackup, InspectRestored, Crash, StepFails, Fails, At, Running, Ended
<1> QED BY <1>2, <1>3, <1>4, <1>5 DEF Step

LEMMA RecognisedStep == LifecycleInv /\ Recognised /\ [Next]_vars => Recognised'
<1> SUFFICES ASSUME LifecycleInv, Recognised, [Next]_vars, NEW p \in Upgraders, Running(p)'
             PROVE  cmd'[p].source \in {"LEGACY", "MANAGED", "BRIDGED"}
  BY DEF Recognised
<1>0. p \in Commands /\ p \notin Initializers /\ p \notin Restorers
  BY CommandAssumption DEF Commands
<1>1. CASE cmd'[p] = cmd[p]
  BY <1>1 DEF Recognised, Running
<1>2. CASE StartUpgrade(p)
  <2>1. ASSUME NEW step, NEW source, NEW at, Start(p, step, source, at)
        PROVE  IF step \in Ended THEN cmd'[p].step = step ELSE cmd'[p].source = source
    <3>1. cmd[p] \in Row(Len(files)) /\ cmd \in [Commands -> Rows(files)]
      BY <1>0, Memory DEF LifecycleInv
    <3>2. CASE step \in Ended
      BY <1>0, <2>1, <3>1, <3>2 DEF Start, Idle
    <3>3. CASE step \notin Ended
      <4>1. [cmd[p] EXCEPT !.step = step, !.release = release, !.file = path,
                           !.at = at, !.source = source].source = source
        BY <3>1 DEF Row
      <4> QED BY <1>0, <2>1, <3>1, <3>3, <4>1 DEF Start
    <3> QED BY <3>2, <3>3
  <2>2. cmd'[p].step \notin Ended
    BY DEF Running
  <2> DEFINE st == DbState(Here, release)
  <2>3. \/ st \in DrizzleStates /\ \E step, at : Start(p, step, st, at)
        \/ st = "LEGACY" /\ \E step, at : Start(p, step, st, at)
        \/ Start(p, "failed", st, 0)
    BY <1>2 DEF StartUpgrade
  <2> HIDE DEF st
  <2>4. ASSUME NEW step, NEW at, Start(p, step, st, at) PROVE cmd'[p].source = st
    BY <2>1, <2>2, <2>4
  <2>5. ~Start(p, "failed", st, 0)
    BY <2>1, <2>2 DEF Ended
  <2> QED BY <2>3, <2>4, <2>5 DEF DrizzleStates
<1>3. CASE Step(p) \/ Crash(p) \/ StepFails(p)
  BY <1>0, <1>3, SourceStays DEF Recognised, Running
<1>4. ASSUME NEW q \in Commands,
             \/ StartInit(q) \/ StartUpgrade(q) \/ StartRestore(q)
             \/ Step(q) \/ Crash(q) \/ StepFails(q)
      PROVE  cmd'[p].source \in {"LEGACY", "MANAGED", "BRIDGED"}
  <2>1. CASE q # p
    BY <1>0, <1>1, <1>4, <2>1, OthersStay
  <2>2. CASE q = p
    BY <1>0, <1>2, <1>3, <1>4, <2>2 DEF StartInit, StartRestore
  <2> QED BY <2>1, <2>2
<1>5. CASE CreateBackup \/ InstallRelease \/ UNCHANGED vars
  BY <1>1, <1>5 DEF CreateBackup, InstallRelease, vars
<1>6. ASSUME NEW s \in Sessions, BeginSession(s) \/ CommitSession(s) \/ RollbackSession(s)
      PROVE  cmd'[p] = cmd[p]
  BY <1>6 DEF BeginSession, CommitSession, RollbackSession
<1> QED BY <1>1, <1>4, <1>5, <1>6 DEF Next

\* Only its final verification ends an upgrade that has come to it well.
LEMMA VerifiedStep ==
  ASSUME LifecycleInv, [Next]_vars, NEW p \in Upgraders, At(p, "verify"), cmd'[p].step = "done"
  PROVE  Verify(p)
<1>0. p \in Commands
  BY DEF Commands
<1>1. cmd'[p] # cmd[p]
  BY DEF At
<1>2. ~(StartInit(p) \/ StartUpgrade(p) \/ StartRestore(p))
  BY DEF StartInit, StartUpgrade, StartRestore, CanStart, At
<1>3. ~Crash(p)
  BY <1>0, GotoKeepsSource DEF Crash
<1>4. ~StepFails(p)
  <2>1. AfterFailure(p) # "done"
    BY DEF AfterFailure
  <2> QED BY <1>0, <2>1, GotoKeepsSource DEF StepFails, Fails
<1>5. Step(p) => Verify(p)
  BY DEF Step, At, TakeBackup, Hop, Seed, ReadJournal, ApplyPending, Synchronize, LeaseTimesOut,
         RestoreBackup, CheckRestored, MarkRecovery, InitControl, ReplaceByBackup, InspectRestored
<1>6. ~(CreateBackup \/ InstallRelease \/ UNCHANGED vars)
  BY <1>1 DEF CreateBackup, InstallRelease, vars
<1>7. \A s \in Sessions : ~(BeginSession(s) \/ CommitSession(s) \/ RollbackSession(s))
  BY <1>1 DEF BeginSession, CommitSession, RollbackSession
<1> QED BY <1>0, <1>1, <1>2, <1>3, <1>4, <1>5, <1>6, <1>7, OthersStay DEF Next

\* An upgrade that reports success on the file it opened leaves the journal and
\* the control row of its own release (application.ts:205), although its last
\* check compares only the name of a state and another upgrader, of another
\* release even, may have worked on the same file.
THEOREM UpgradesEndCurrent == Spec => UpgradedIsCurrent
<1>1. ASSUME LifecycleInv, Recognised, [Next]_vars, NEW p \in Upgraders,
             At(p, "verify"), cmd'[p].step = "done", path = cmd[p].file
      PROVE  Compatibility(Here, cmd[p].release) = "CURRENT"
  <2> DEFINE r == cmd[p].release
  <2>1. p \in Commands /\ Running(p)
    BY <1>1 DEF Commands, At, Running, Ended
  <2>2. /\ Here \in Sound /\ Here.journal \in Int /\ r \in 1..MaxRelease
        /\ r <= Here.journal
    BY <1>1, <2>1, Memory, Fields DEF Rows, At, Here, Mine
  <2>3. cmd[p].source \in {"LEGACY", "MANAGED", "BRIDGED"}
    BY <1>1, <2>1 DEF Recognised
  <2>4. Verify(p)
    BY <1>1, VerifiedStep
  <2>5. Known(p) = IF cmd[p].source = "LEGACY" THEN "BRIDGED" ELSE cmd[p].source
    <3>1. AfterFailure(p) # "done"
      BY DEF AfterFailure
    <3> QED BY <1>1, <2>1, <2>4, <3>1, GotoKeepsSource DEF Verify, Fails
  <2>6. DbState(Here, r) \in {"MANAGED", "BRIDGED"}
    BY <2>3, <2>5 DEF Known
  <2>7. Here.journal = r /\ Here.state = "READY"
    BY <2>2, <2>6, Bounds DEF DbState
  <2>8. Here.state # "RECOVERY_REQUIRED" /\ DbState(Here, r) # "EMPTY"
    BY <2>6, <2>7
  <2>9. DbState(Here, r) \in DrizzleStates
    BY <2>6 DEF DrizzleStates
  <2> DEFINE st == DbState(Here, r)
  <2> HIDE DEF st
  <2>10. /\ st \in {"MANAGED", "BRIDGED"} /\ DrizzleStates = {"MANAGED", "BRIDGED"}
    BY <2>6 DEF st, DrizzleStates
  <2>11. Compatibility(Here, r) =
           CASE st = "EMPTY" -> "UNINITIALIZED"
             [] st \in DrizzleStates /\ Here.journal = r -> "CURRENT"
             [] st \in DrizzleStates /\ Here.journal # r -> "UPGRADE_REQUIRED"
             [] st = "LEGACY" -> "UPGRADE_REQUIRED"
             [] OTHER -> "UNKNOWN_TAMPERED"
    BY <2>8 DEF Compatibility, st
  <2> QED BY <2>7, <2>10, <2>11
<1>2. LifecycleInv /\ Recognised /\ [Next]_vars =>
        [\A p \in Upgraders :
           /\ At(p, "verify") /\ cmd'[p].step = "done" /\ path = cmd[p].file
           => Compatibility(Here, cmd[p].release) = "CURRENT"]_vars
  BY <1>1
<1>3. Init => Recognised
  BY DEF Init, Recognised, Running, Idle, Commands
<1> QED BY <1>2, <1>3, LifecycleInvariant, RecognisedStep, PTL DEF Spec, UpgradedIsCurrent
=============================================================================
