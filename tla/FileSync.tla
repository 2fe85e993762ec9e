------------------------------ MODULE FileSync ------------------------------
(***************************************************************************)
(* The synchronisation of a program that has the data directory of its     *)
(* bitcoind: HistoricSync reads the blocks from blk*.dat with a            *)
(* BlockExtractor (prepareFileSync, getBlockFromFile), unless the stored   *)
(* tip is close to bitcoind's or the sync was started with forceRPC.       *)
(*                                                                         *)
(* bitcoind appends every block it accepts to its last file, or starts     *)
(* another: a file has parents before children and stale branches among    *)
(* the others.  insight saves the number of the file it reads from, seeks  *)
(* its tip from there after a restart, and goes on with the block behind.  *)
(* Files are numbered from 0, as in the code.                              *)
(***************************************************************************)
EXTENDS InsightSync, SequencesExt

CONSTANTS
    FirstDisks, \* the files that bitcoind may have when insight is first started
    MaxFiles    \* how many files it may come to have (a bound of the model)

Blocks(files) == UNION {ToSet(files[i]) : i \in DOMAIN files}

\* Is the l-th block of the k-th file before the j-th of the i-th?
Behind(k, l, i, j) == k < i \/ (k = i /\ l < j)

\* Genesis comes first, every other block after its parent, and none twice.
IsDisk(files) ==
    /\ files \in Seq(Seq(Block) \ {<<>>})
    /\ files # <<>>
    /\ files[1][1] = Genesis
    /\ \A i \in 1..Len(files) : \A j \in 1..Len(files[i]) :
          /\ files[i][j] = Genesis \/ \E k \in 1..Len(files) : \E l \in 1..Len(files[k]) :
                 Behind(k, l, i, j) /\ files[k][l] = ParentOf[files[i][j]]
          /\ \A k \in 1..Len(files) : \A l \in 1..Len(files[k]) :
                 files[k][l] = files[i][j] => k = i /\ l = j

ASSUME FileConstants ==
    /\ \A files \in FirstDisks : IsDisk(files)
    /\ MaxFiles \in Nat

VARIABLES
    disk,       \* bitcoind's files
    lastFile,   \* file-, the durable number of the last file; NoFile when absent
    file,       \* the BlockExtractor and the sync's use of it
    skipped     \* (history) did what came from elsewhere leave blocks of the files out?

fileVars == <<appVars, disk, lastFile, file, skipped>>

NoFile == -1

\* The buffer while the file is not in memory (no sequence of blocks).
Unread == <<Null>>

\* made:  blockExtractor is set
\* stage: of the running sync; "todo" before prepareFileSync, "seek" while it
\*        looks for startBlock, "go" after it; "...Put" in setLastFileIndex
\* at:    currentFileIndex, -1 behind the last file;  n: nfiles
\* buf:   what is left of the file in memory
\* got:   the block that waits for the put;  saved: bDb.lastFileIndexSaved
\* goal:  (history) bitcoind's branch when the files were listed
Files == [made : BOOLEAN, stage : {"todo", "seek", "seekPut", "go", "goPut"},
          at : Int, n : Nat, buf : Seq(Block) \cup {Unread},
          got : Block \cup {Null}, saved : Int, goal : SUBSET Block]

NotMade == [made |-> FALSE, stage |-> "todo", at |-> NoFile, n |-> 0, buf |-> Unread,
            got |-> Null, saved |-> NoFile, goal |-> {}]

\* Every variable has its type, what is read from a file and given to
\* storeTipBlock is a block, and the saved number is that of a file.
FileTypeOK ==
    /\ InsightTypeOK
    /\ disk \in Seq(Seq(Block) \ {<<>>})
    /\ lastFile \in NoFile..(Len(disk) - 1)
    /\ file \in Files
    /\ file.at < file.n \/ ~file.made
    /\ skipped \in BOOLEAN

FileInit ==
    /\ Init
    /\ disk \in FirstDisks
    /\ best \in {b \in Blocks(disk) : \A c \in Blocks(disk) : Depth[c] <= Depth[b]}
    /\ wire = <<>>
    /\ allowReorgs = FALSE
    /\ hist = Started(TRUE)
    /\ lastFile = NoFile
    /\ file = NotMade
    /\ skipped = FALSE

\* The blocks in the files up to the j-th of the i-th are stored.
StoredUpTo(i, j) ==
    \A k \in 1..Len(disk) : \A l \in 1..Len(disk[k]) :
        Behind(k, l, i, j + 1) => disk[k][l] \in Stored

\* What is in the files before the tip is stored.
TipInOrder ==
    tip = NoTip \/ \E i \in 1..Len(disk) : \E j \in 1..Len(disk[i]) :
                       disk[i][j] = tip.hash /\ StoredUpTo(i, j)

\* A block that did not come from the files became the tip, and blocks before
\* it, or before the file to start from, are not stored.
NoteSkipped ==
    skipped' = (skipped \/ (tip' # tip /\ ~(TipInOrder' /\ StoredUpTo(lastFile + 1, 0)')))

-----------------------------------------------------------------------------
(* bitcoind *)

\* The block of b's branch at depth d.
AtDepth(b, d) == CHOOSE c \in Branch[b] : Depth[c] = d

\* The blocks up to b that are not in a file, those deeper than m, are written:
\* the first k of them to the last file and the rest to a new one.
Write(b) ==
    \E m \in 0..Depth[b] :
       /\ \A d \in 0..Depth[b] : AtDepth(b, d) \in Blocks(disk) <=> d <= m
       /\ LET new == [i \in 1..(Depth[b] - m) |-> AtDepth(b, m + i)]
          IN  \E k \in 0..(Depth[b] - m) :
                 LET full == [disk EXCEPT ![Len(disk)] = @ \o SubSeq(new, 1, k)]
                 IN  /\ disk' = IF k = Depth[b] - m
                                THEN full
                                ELSE Append(full, SubSeq(new, k + 1, Depth[b] - m))
                     /\ Len(disk') <= MaxFiles

Mine(b) ==
    /\ NewBest(b)
    /\ Write(b)
    /\ UNCHANGED <<lastFile, file, skipped>>

-----------------------------------------------------------------------------
(* BlockExtractor *)

\* readCurrentFileSync: the file as it is now, if it is not in memory yet.
Loaded(f) == IF f.buf = Unread THEN disk[f.at + 1] ELSE f.buf

\* Mutant: the first block of the next file is lost on the way to it.
NextOfSkipping(f) ==
    IF f.at = NoFile
    THEN [blk |-> Null, file |-> f]
    ELSE IF Loaded(f) # <<>>
    THEN [blk |-> Head(Loaded(f)), file |-> [f EXCEPT !.buf = Tail(Loaded(f))]]
    ELSE IF f.at < f.n - 1 /\ Len(disk[f.at + 2]) > 1
    THEN [blk |-> disk[f.at + 2][2],
          file |-> [f EXCEPT !.at = @ + 1, !.buf = Tail(Tail(disk[f.at + 2]))]]
    ELSE [blk |-> Null, file |-> [f EXCEPT !.at = NoFile, !.buf = Unread]]

\* getNextBlock: the block (Null behind the last file) and the reader after it.
NextOf(f) ==
    IF f.at = NoFile
    THEN [blk |-> Null, file |-> f]
    ELSE IF Loaded(f) # <<>>
    THEN [blk |-> Head(Loaded(f)), file |-> [f EXCEPT !.buf = Tail(Loaded(f))]]
    ELSE IF f.at < f.n - 1
    THEN [blk |-> Head(disk[f.at + 2]),
          file |-> [f EXCEPT !.at = @ + 1, !.buf = Tail(disk[f.at + 2])]]
    ELSE [blk |-> Null, file |-> [f EXCEPT !.at = NoFile, !.buf = Unread]]

-----------------------------------------------------------------------------
(* HistoricSync *)

PERCENTAGE_TO_START_FROM_RPC == 96

FileAt(stage) == HistAt("getBlock") /\ file.stage = stage

\* forceRPC is the option of the syncs that PeerSync starts.
ByRpc == ~hist.boot \/ hist.height * 100 > hist.count * PERCENTAGE_TO_START_FROM_RPC

\* prepareFileSync up to getLastFileIndex's callback.  A sync by RPC leaves
\* blockExtractor as it is, and prepareRpcSync leaves getFn when there is one.
PrepareFiles ==
    /\ FileAt("todo")
    /\ file' = IF ByRpc
               THEN [file EXCEPT !.stage = "go"]
               ELSE [NotMade EXCEPT !.made = TRUE,
                                    !.stage = IF hist.cur = Genesis THEN "go" ELSE "seek",
                                    !.at = IF lastFile = NoFile THEN 0 ELSE lastFile,
                                    !.n = Len(disk), !.saved = file.saved,
                                    !.goal = Branch[best]]
    /\ UNCHANGED <<appVars, disk, lastFile, skipped>>

\* The block goes to the seeking loop, or to the loop of start().
SeekUntil(b, f) ==
    /\ file' = [f EXCEPT !.stage = IF b = hist.cur THEN "go" ELSE "seek", !.got = Null]
    /\ UNCHANGED <<vars, hist>>

StoreRead(b, f) ==
    /\ Call(Historic, [blk |-> b, allow |-> TRUE])
    /\ hist' = [hist EXCEPT !.pc = "store"]
    /\ file' = [f EXCEPT !.stage = "go", !.got = Null]

\* Mutant: the end of the files is taken for the starting block.
SeekFileGivesUp ==
    /\ FileAt("seek")
    /\ LET r == NextOf(file)
       IN  \/ /\ r.blk = Null \/ r.file.at = file.saved
              /\ file' = [r.file EXCEPT !.stage = IF r.blk \in {hist.cur, Null} THEN "go" ELSE "seek"]
              /\ UNCHANGED <<vars, hist>>
           \/ /\ r.blk # Null /\ r.file.at # file.saved
              /\ file' = [r.file EXCEPT !.stage = "seekPut", !.got = r.blk]
              /\ UNCHANGED <<vars, hist>>
    /\ UNCHANGED <<best, wire, allowReorgs, disk, lastFile, skipped>>

\* Mutant: the seeking loop does not look whether there was a block.
SeekFileForEver ==
    /\ FileAt("seek")
    /\ LET r == NextOf(file)
       IN  \/ /\ r.file.at = file.saved \/ r.blk = Null
              /\ SeekUntil(r.blk, r.file)
           \/ /\ r.blk # Null /\ r.file.at # file.saved
              /\ file' = [r.file EXCEPT !.stage = "seekPut", !.got = r.blk]
              /\ UNCHANGED <<vars, hist>>
    /\ UNCHANGED <<best, wire, allowReorgs, disk, lastFile, skipped>>

\* No block is left: "Could not find block" ends in prepareToSync, which does not
\* call back.
SeekFile ==
    /\ FileAt("seek")
    /\ LET r == NextOf(file)
       IN  \/ /\ r.blk = Null
              /\ hist' = [hist EXCEPT !.pc = "off", !.status = "error"]
              /\ file' = [r.file EXCEPT !.stage = "todo"]
              /\ UNCHANGED vars
           \/ /\ r.blk # Null /\ r.file.at = file.saved
              /\ SeekUntil(r.blk, r.file)
           \/ /\ r.blk # Null /\ r.file.at # file.saved
              /\ file' = [r.file EXCEPT !.stage = "seekPut", !.got = r.blk]
              /\ UNCHANGED <<vars, hist>>
    /\ UNCHANGED <<best, wire, allowReorgs, disk, lastFile, skipped>>

ReadFile ==
    /\ FileAt("go")
    /\ file.made
    /\ LET r == NextOf(file)
       IN  \/ /\ r.blk = Null
              /\ EndSync("finished")
              /\ file' = [r.file EXCEPT !.stage = "todo"]
              /\ UNCHANGED vars
           \/ /\ r.blk # Null /\ r.file.at = file.saved
              /\ StoreRead(r.blk, r.file)
              /\ UNCHANGED allowReorgs
           \/ /\ r.blk # Null /\ r.file.at # file.saved
              /\ file' = [r.file EXCEPT !.stage = "goPut", !.got = r.blk]
              /\ UNCHANGED <<vars, hist, allowReorgs>>
    /\ UNCHANGED <<best, wire, disk, lastFile, skipped>>

\* Mutant: the number saved is that of the next file to read.
SaveIndexOfNext ==
    /\ LET f == [file EXCEPT !.saved = file.at]
       IN  \/ FileAt("seekPut") /\ SeekUntil(file.got, f)
           \/ FileAt("goPut") /\ StoreRead(file.got, f)
    /\ lastFile' = file.at + 1
    /\ UNCHANGED <<best, wire, allowReorgs, disk, skipped>>

\* setLastFileIndex: the number is saved before the block is stored.
SaveIndex ==
    /\ LET f == [file EXCEPT !.saved = file.at]
       IN  \/ FileAt("seekPut") /\ SeekUntil(file.got, f)
           \/ FileAt("goPut") /\ StoreRead(file.got, f)
    /\ lastFile' = file.at
    /\ UNCHANGED <<best, wire, allowReorgs, disk, skipped>>

\* The rest of HistoricSync, which knows nothing of files.
WithoutFiles ==
    /\ \/ CheckNetwork \/ CountBlocks \/ ReadTip \/ TipInfo \/ TipNotMain \/ HistoricStep
       \/ FileAt("go") /\ ~file.made /\ GetBlock
    /\ file' = IF hist'.pc = "off" THEN [file EXCEPT !.stage = "todo"] ELSE file
    /\ UNCHANGED <<disk, lastFile>>
    /\ IF file.made THEN UNCHANGED skipped ELSE NoteSkipped

-----------------------------------------------------------------------------

\* The number of the last file and bitcoind's files outlive the process.
RestartFiles ==
    /\ RestartInsight
    /\ IF best' = best THEN UNCHANGED disk ELSE Write(best')
    /\ file' = NotMade
    /\ UNCHANGED <<lastFile, skipped>>

FromFiles == PrepareFiles \/ SeekFile \/ ReadFile \/ SaveIndex \/ WithoutFiles

FromPeers == PeerOwn /\ UNCHANGED <<disk, lastFile, file>> /\ NoteSkipped

FileNext ==
    \/ \E b \in Block : Mine(b)
    \/ FromFiles
    \/ FromPeers
    \/ RestartFiles

FileSpec == FileInit /\ [][FileNext]_fileVars

FairFileSpec == FileSpec /\ WF_fileVars(FromFiles) /\ WF_fileVars(FromPeers)

-----------------------------------------------------------------------------
(* Properties *)

\* A sync from files that ends as "finished" has stored bitcoind's whole branch, as
\* it was when the files were listed: wherever earlier processes were
\* killed, whatever file was saved then, and although bitcoind goes on writing;
\* as long as what came from elsewhere left no block of the files out.
FilesStored ==
    ~skipped /\ file.made /\ hist.status = "finished" => file.goal \subseteq Stored

\* A block read from a file never finds its parent missing (NEED_SYNC, which would
\* end the sync): the saved number and the seek leave out nothing that is needed,
\* as long as nothing else did.
ParentsFirst ==
    ~skipped /\ file.made /\ At(Historic, "has") =>
        Has(NewPrev(frame[Historic])) \/ NewPrev(frame[Historic]) = Zero

\* A sync from files ends, or the process does: the seeking loop and the
\* reading one reach the last file.
FileSyncEnds ==
    <>[][~RestartFiles]_fileVars => (hist.pc # "off" ~> (hist.pc = "off" \/ ~up))

\* "Force sync with RPC": when the sync that a block without a parent started
\* ({forceRPC:1}) is finished, that block's branch is stored.
Resynced ==
    Rest /\ hist.status = "finished" /\ ~hist.boot => Branch[best] \subseteq Stored
=============================================================================
