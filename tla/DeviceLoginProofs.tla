--------------------------- MODULE DeviceLoginProofs ---------------------------
(***************************************************************************)
(* Proofs about DeviceLogin, for any commands, deployments, process ids,   *)
(* expiry and interval: TypeOK, StoreSound and PollsHonest.                *)
(*                                                                         *)
(* The file: an update that did not overlap with another wrote over the    *)
(* store it had read, and every scratch file is that of a command which    *)
(* is writing it, died, or could not write it; no two living processes     *)
(* have one id.  The loop: the interval counts the slow_down answers, and  *)
(* what is left of a delay and the time since the last answer make it up.  *)
(***************************************************************************)
EXTENDS DeviceLogin, TLAPS

Writing == {"writing", "renaming"}

\* An open update wrote over nothing it did not read, unless it overlaps with another one.
SnapshotCurrent ==
    /\ \A c \in Command : at[c] \in File!Open => c \in blurred \/ seen[c] = file
    /\ \A c, d \in Command : at[c] \in File!Open /\ at[d] \in File!Open /\ c # d => c \in blurred

ResultAtEnd == \A c \in Command : result[c] # "none" => at[c] = "ended"

ScratchOwned ==
    \A q \in scratch : \E d \in Command :
        PidOf[d] = q /\ (at[d] \in Writing \/ at[d] = "dead" \/ result[d] = "error")

FileInv ==
    /\ File!TypeOK /\ SnapshotCurrent /\ ResultAtEnd /\ ScratchOwned
    /\ File!NoUpdateLost /\ File!OnlyLeftoversBlock

OneProcessPerId ==
    \A c, d \in Command :
        phase[c] \in Alive /\ phase[d] \in Alive /\ PidOf[c] = PidOf[d] => c = d

DelayKept ==
    \A c \in Command : phase[c] \in {"waiting", "polling"} =>
        /\ loop[c].interval = Interval * (1 + loop[c].slowDowns)
        /\ loop[c].late => loop[c].left = 0
        /\ phase[c] = "waiting" =>
              loop[c].quiet + loop[c].rest >= loop[c].interval /\ ~loop[c].late

Inv == TypeOK /\ FileInv /\ OneProcessPerId /\ DelayKept

USE DEF File!Open, Writing

-----------------------------------------------------------------------------

\* A whole update keeps the types of a store.
LEMMA UpdatedType ==
    ASSUME File!TypeOK, NEW c \in Command,
           NEW tokens \in [Origin -> SignIn \union {NoToken}]
    PROVE  File!Updated(c, tokens) \in [Origin -> SignIn \union {NoToken}]
BY DEF File!TypeOK, File!Updated

LEMMA NoTokensType == File!NoTokens \in [Origin -> SignIn \union {NoToken}]
BY DEF File!NoTokens

\* A command that comes to its update changes nothing yet.
LEMMA BeginKeeps ==
    ASSUME FileInv, NEW c \in Command, File!Begin(c)
    PROVE  FileInv'
<1> USE DEF FileInv, File!Begin, File!Moves
<1>1. File!TypeOK'
  BY DEF File!TypeOK
<1>2. SnapshotCurrent' /\ ResultAtEnd'
  BY DEF SnapshotCurrent, ResultAtEnd, File!TypeOK
<1>3. ScratchOwned'
  BY DEF ScratchOwned, File!TypeOK
<1>4. File!NoUpdateLost' /\ File!OnlyLeftoversBlock'
  BY DEF File!NoUpdateLost, File!OnlyLeftoversBlock, File!TypeOK
<1> QED BY <1>1, <1>2, <1>3, <1>4

\* A read marks every overlap, and what it cannot read.
LEMMA ReadKeeps ==
    ASSUME FileInv, NEW c \in Command, File!Read(c)
    PROVE  FileInv'
<1> DEFINE others == {d \in Command : at[d] \in File!Open}
<1>1. PICK tokens \in {file, File!NoTokens} :
        /\ seen' = [seen EXCEPT ![c] = tokens]
        /\ \/ File!Ends(c, "reading", "nothing")
           \/ File!Moves(c, "reading", "removing") /\ UNCHANGED result
           \/ File!Moves(c, "reading", "opening") /\ UNCHANGED result
        /\ blurred' = blurred \union others
               \union (IF others # {} \/ tokens # file THEN {c} ELSE {})
  BY DEF File!Read
<1>2. UNCHANGED <<target, file, scratch, atomic>>
  BY DEF File!Read
<1>3. /\ at[c] = "reading" /\ result[c] = "none"
      /\ \A d \in Command : d # c => at'[d] = at[d] /\ result'[d] = result[d] /\ seen'[d] = seen[d]
      /\ at'[c] \in {"ended", "removing", "opening"}
      /\ result'[c] \in {"none", "nothing"}
      /\ result'[c] = "nothing" => at'[c] = "ended"
      /\ seen'[c] = tokens
      /\ at' \in [Command -> File!Open \union {"idle", "reading", "ended", "dead"}]
      /\ result' \in [Command -> {"none", "nothing", "stored", "blocked", "error"}]
  BY <1>1 DEF FileInv, File!TypeOK, ResultAtEnd, File!Ends, File!Moves
<1>4. File!TypeOK'
  <2>1. seen' \in [Command -> [Origin -> SignIn \union {NoToken}]]
    BY <1>1, NoTokensType DEF FileInv, File!TypeOK
  <2>2. blurred' \subseteq Command
    BY <1>1 DEF FileInv, File!TypeOK
  <2> QED BY <1>2, <1>3, <2>1, <2>2 DEF FileInv, File!TypeOK
<1>5. SnapshotCurrent'
  <2>1. ASSUME NEW d \in Command, at'[d] \in File!Open
        PROVE  d \in blurred' \/ seen'[d] = file'
    BY <1>1, <1>2, <1>3, <2>1 DEF FileInv, SnapshotCurrent
  <2>2. ASSUME NEW d \in Command, NEW e \in Command, d # e,
               at'[d] \in File!Open, at'[e] \in File!Open
        PROVE  d \in blurred'
    BY <1>1, <1>3, <2>2 DEF FileInv, SnapshotCurrent
  <2> QED BY <2>1, <2>2 DEF SnapshotCurrent
<1>6. ResultAtEnd'
  BY <1>3 DEF FileInv, ResultAtEnd
<1>7. ScratchOwned'
  <2> SUFFICES ASSUME NEW q \in scratch
               PROVE  \E d \in Command : PidOf[d] = q
                        /\ (at'[d] \in Writing \/ at'[d] = "dead" \/ result'[d] = "error")
    BY <1>2 DEF ScratchOwned
  <2>1. PICK d \in Command : PidOf[d] = q
                        /\ (at[d] \in Writing \/ at[d] = "dead" \/ result[d] = "error")
    BY DEF FileInv, ScratchOwned
  <2>2. d # c
    BY <1>3, <2>1
  <2> QED BY <1>3, <2>1, <2>2
<1>8. File!NoUpdateLost'
  <2> SUFFICES ASSUME NEW o \in Origin, file[o] # atomic[o]
               PROVE  \E d \in blurred' :
                        result'[d] = "stored" /\ o \notin target[d] /\ file[o] = seen'[d][o]
    BY <1>2 DEF File!NoUpdateLost
  <2>1. PICK d \in blurred : result[d] = "stored" /\ o \notin target[d] /\ file[o] = seen[d][o]
    BY DEF FileInv, File!NoUpdateLost
  <2>2. d \in Command /\ d # c
    BY <1>3, <2>1 DEF FileInv, File!TypeOK
  <2> QED BY <1>1, <1>3, <2>1, <2>2
<1>9. File!OnlyLeftoversBlock'
  <2> SUFFICES ASSUME NEW d \in Command, result'[d] = "blocked"
               PROVE  \E e \in Command \ {d} :
                        PidOf[e] = PidOf[d] /\ (at'[e] = "dead" \/ result'[e] = "error")
    BY DEF File!OnlyLeftoversBlock
  <2>1. d # c /\ result[d] = "blocked"
    BY <1>3
  <2>2. PICK e \in Command \ {d} :
           PidOf[e] = PidOf[d] /\ (at[e] = "dead" \/ result[e] = "error")
    BY <2>1 DEF FileInv, File!OnlyLeftoversBlock
  <2> QED BY <1>3, <2>2
<1> QED BY <1>4, <1>5, <1>6, <1>7, <1>8, <1>9 DEF FileInv

\* A scratch file is created only when no other process of the id is writing one.
LEMMA OpenScratchKeeps ==
    ASSUME FileInv, NEW c \in Command, File!OpenScratch(c),
           \A d \in Command : d # c /\ PidOf[d] = PidOf[c] => at[d] \notin Writing
    PROVE  FileInv'
<1>1. /\ at[c] = "opening" /\ result[c] = "none"
      /\ \A d \in Command : d # c => at'[d] = at[d] /\ result'[d] = result[d]
      /\ \/ /\ PidOf[c] \notin scratch /\ scratch' = scratch \union {PidOf[c]}
            /\ at'[c] = "writing" /\ result'[c] = "none"
         \/ /\ PidOf[c] \in scratch /\ scratch' = scratch
            /\ at'[c] = "ended" /\ result'[c] = "blocked"
      /\ UNCHANGED <<target, file, seen, atomic, blurred>>
  BY DEF FileInv, File!TypeOK, ResultAtEnd, File!OpenScratch, File!Ends, File!Moves
<1>2. File!TypeOK'
  BY DEF FileInv, File!TypeOK, File!OpenScratch, File!Ends, File!Moves
<1>3. SnapshotCurrent'
  BY <1>1 DEF FileInv, SnapshotCurrent
<1>4. ResultAtEnd'
  BY <1>1 DEF FileInv, ResultAtEnd
<1>5. ScratchOwned'
  <2> SUFFICES ASSUME NEW q \in scratch'
               PROVE  \E d \in Command : PidOf[d] = q
                        /\ (at'[d] \in Writing \/ at'[d] = "dead" \/ result'[d] = "error")
    BY DEF ScratchOwned
  <2>1. CASE q \in scratch
    <3>1. PICK d \in Command : PidOf[d] = q
                        /\ (at[d] \in Writing \/ at[d] = "dead" \/ result[d] = "error")
      BY <2>1 DEF FileInv, ScratchOwned
    <3>2. d # c
      BY <1>1, <3>1
    <3> QED BY <1>1, <3>1, <3>2
  <2>2. CASE q \notin scratch
    BY <1>1, <2>2
  <2> QED BY <2>1, <2>2
<1>6. File!NoUpdateLost'
  <2> SUFFICES ASSUME NEW o \in Origin, file[o] # atomic[o]
               PROVE  \E d \in blurred :
                        result'[d] = "stored" /\ o \notin target[d] /\ file[o] = seen[d][o]
    BY <1>1 DEF File!NoUpdateLost
  <2>1. PICK d \in blurred : result[d] = "stored" /\ o \notin target[d] /\ file[o] = seen[d][o]
    BY DEF FileInv, File!NoUpdateLost
  <2>2. d \in Command /\ d # c
    BY <1>1, <2>1 DEF FileInv, File!TypeOK
  <2> QED BY <1>1, <2>1, <2>2
<1>7. File!OnlyLeftoversBlock'
  <2> SUFFICES ASSUME NEW d \in Command, result'[d] = "blocked"
               PROVE  \E e \in Command \ {d} :
                        PidOf[e] = PidOf[d] /\ (at'[e] = "dead" \/ result'[e] = "error")
    BY DEF File!OnlyLeftoversBlock
  <2>1. CASE d = c
    <3>1. PICK e \in Command : PidOf[e] = PidOf[c]
                        /\ (at[e] \in Writing \/ at[e] = "dead" \/ result[e] = "error")
      BY <1>1, <2>1 DEF FileInv, ScratchOwned
    <3>2. e # c
      BY <1>1, <3>1
    <3> QED BY <1>1, <2>1, <3>1, <3>2
  <2>2. CASE d # c
    <3>1. PICK e \in Command \ {d} :
             PidOf[e] = PidOf[d] /\ (at[e] = "dead" \/ result[e] = "error")
      BY <1>1, <2>2 DEF FileInv, File!OnlyLeftoversBlock
    <3> QED BY <1>1, <2>2, <3>1
  <2> QED BY <2>1, <2>2
<1> QED BY <1>2, <1>3, <1>4, <1>5, <1>6, <1>7 DEF FileInv

\* An update that did not overlap with another makes of the file what it makes of the whole store.
LEMMA CommitKeepsNoUpdateLost ==
    ASSUME FileInv, NEW c \in Command, at[c] \in File!Open, File!Commit(c),
           result' = [result EXCEPT ![c] = "stored"],
           UNCHANGED <<target, seen, blurred>>
    PROVE  File!NoUpdateLost'
<1> SUFFICES ASSUME NEW o \in Origin, file'[o] # atomic'[o]
             PROVE  \E d \in blurred :
                      result'[d] = "stored" /\ o \notin target[d] /\ file'[o] = seen[d][o]
  BY DEF File!NoUpdateLost
<1>1. o \notin target[c] /\ file'[o] = seen[c][o] /\ atomic'[o] = atomic[o]
  BY DEF File!Commit, File!Updated
<1>2. CASE c \in blurred
  BY <1>1, <1>2 DEF FileInv, File!TypeOK
<1>3. CASE c \notin blurred
  <2>1. file'[o] = file[o]
    BY <1>1, <1>3 DEF FileInv, SnapshotCurrent
  <2>2. PICK d \in blurred : result[d] = "stored" /\ o \notin target[d] /\ file[o] = seen[d][o]
    BY <1>1, <2>1 DEF FileInv, File!NoUpdateLost
  <2>3. d \in Command
    BY DEF FileInv, File!TypeOK
  <2> QED BY <1>3, <2>1, <2>2, <2>3 DEF FileInv, File!TypeOK
<1> QED BY <1>2, <1>3

\* A failed write, a rename, a removal or a death ends an open update.
LEMMA EndKeeps ==
    ASSUME FileInv, NEW c \in Command,
           at[c] \in File!Open \union {"reading"},
           \/ at' = [at EXCEPT ![c] = "ended"]
              /\ \E r \in {"stored", "error"} : result' = [result EXCEPT ![c] = r]
           \/ at' = [at EXCEPT ![c] = "dead"] /\ UNCHANGED result,
           \/ UNCHANGED scratch /\ (at'[c] = "dead" \/ result'[c] = "error" \/ at[c] = "removing")
           \/ at[c] = "renaming" /\ scratch' = scratch \ {PidOf[c]},
           \/ UNCHANGED <<file, atomic>> /\ result'[c] # "stored"
           \/ at[c] # "reading" /\ result'[c] = "stored" /\ File!Commit(c),
           UNCHANGED <<target, seen, blurred>>
    PROVE  FileInv'
<1>0. result[c] = "none"
  BY DEF FileInv, File!TypeOK, ResultAtEnd
<1>1. /\ result[c] = "none"
      /\ \A d \in Command : d # c => at'[d] = at[d] /\ result'[d] = result[d]
      /\ at'[c] \in {"ended", "dead"} /\ result'[c] \in {"none", "stored", "error"}
      /\ result'[c] # "none" => at'[c] = "ended"
      /\ at' \in [Command -> File!Open \union {"idle", "reading", "ended", "dead"}]
      /\ result' \in [Command -> {"none", "nothing", "stored", "blocked", "error"}]
  <2>1. CASE at' = [at EXCEPT ![c] = "dead"] /\ UNCHANGED result
    BY <1>0, <2>1 DEF FileInv, File!TypeOK
  <2>2. CASE /\ at' = [at EXCEPT ![c] = "ended"]
             /\ \E r \in {"stored", "error"} : result' = [result EXCEPT ![c] = r]
    <3>1. PICK r \in {"stored", "error"} : result' = [result EXCEPT ![c] = r]
      BY <2>2
    <3> QED BY <1>0, <2>2, <3>1 DEF FileInv, File!TypeOK
  <2> QED BY <2>1, <2>2
<1>2. File!TypeOK'
  <2>1. file' \in [Origin -> SignIn \union {NoToken}]
        /\ atomic' \in [Origin -> SignIn \union {NoToken}]
    BY UpdatedType DEF FileInv, File!TypeOK, File!Commit
  <2>2. scratch' \subseteq scratch
    OBVIOUS
  <2> QED BY <1>1, <2>1, <2>2 DEF FileInv, File!TypeOK
<1>3. SnapshotCurrent'
  <2>1. ASSUME NEW d \in Command, at'[d] \in File!Open
        PROVE  d \in blurred \/ seen[d] = file'
    <3>1. d # c /\ at[d] \in File!Open
      BY <1>1, <2>1
    <3>2. CASE UNCHANGED file
      BY <3>1, <3>2 DEF FileInv, SnapshotCurrent
    <3>3. CASE at[c] # "reading"
      BY <3>1, <3>3 DEF FileInv, SnapshotCurrent
    <3> QED BY <3>2, <3>3
  <2>2. ASSUME NEW d \in Command, NEW e \in Command, d # e,
               at'[d] \in File!Open, at'[e] \in File!Open
        PROVE  d \in blurred
    <3>1. d # c /\ e # c
      BY <1>1, <2>2
    <3> QED BY <1>1, <2>2, <3>1 DEF FileInv, SnapshotCurrent
  <2> QED BY <2>1, <2>2 DEF SnapshotCurrent
<1>4. ResultAtEnd'
  BY <1>1 DEF FileInv, ResultAtEnd
<1>5. ScratchOwned'
  <2> SUFFICES ASSUME NEW q \in scratch'
               PROVE  \E d \in Command : PidOf[d] = q
                        /\ (at'[d] \in Writing \/ at'[d] = "dead" \/ result'[d] = "error")
    BY DEF ScratchOwned
  <2>1. PICK d \in Command : PidOf[d] = q
                        /\ (at[d] \in Writing \/ at[d] = "dead" \/ result[d] = "error")
    BY DEF FileInv, ScratchOwned
  <2>2. CASE d # c
    BY <1>1, <2>1, <2>2
  <2>3. CASE d = c
    BY <1>1, <2>1, <2>3
  <2> QED BY <2>2, <2>3
<1>6. File!NoUpdateLost'
  <2>1. CASE UNCHANGED <<file, atomic>> /\ result'[c] # "stored"
    <3> SUFFICES ASSUME NEW o \in Origin, file[o] # atomic[o]
                 PROVE  \E d \in blurred :
                          result'[d] = "stored" /\ o \notin target[d] /\ file[o] = seen[d][o]
      BY <2>1 DEF File!NoUpdateLost
    <3>1. PICK d \in blurred :
             result[d] = "stored" /\ o \notin target[d] /\ file[o] = seen[d][o]
      BY DEF FileInv, File!NoUpdateLost
    <3>2. d \in Command /\ d # c
      BY <1>1, <3>1 DEF FileInv, File!TypeOK
    <3> QED BY <1>1, <3>1, <3>2
  <2>2. CASE at[c] # "reading" /\ result'[c] = "stored" /\ File!Commit(c)
    <3>1. result' = [result EXCEPT ![c] = "stored"]
      BY <1>1, <2>2 DEF FileInv, File!TypeOK
    <3> QED BY <2>2, <3>1, CommitKeepsNoUpdateLost
  <2> QED BY <2>1, <2>2
<1>7. File!OnlyLeftoversBlock'
  <2> SUFFICES ASSUME NEW d \in Command, result'[d] = "blocked"
               PROVE  \E e \in Command \ {d} :
                        PidOf[e] = PidOf[d] /\ (at'[e] = "dead" \/ result'[e] = "error")
    BY DEF File!OnlyLeftoversBlock
  <2>1. d # c /\ result[d] = "blocked"
    BY <1>1
  <2>2. PICK e \in Command \ {d} :
           PidOf[e] = PidOf[d] /\ (at[e] = "dead" \/ result[e] = "error")
    BY <2>1 DEF FileInv, File!OnlyLeftoversBlock
  <2>3. e # c
    BY <1>1, <2>2
  <2> QED BY <1>1, <2>2, <2>3
<1> QED BY <1>2, <1>3, <1>4, <1>5, <1>6, <1>7 DEF FileInv

\* The scratch file is written, and remains its writer's.
LEMMA WrittenKeeps ==
    ASSUME FileInv, NEW c \in Command, File!Moves(c, "writing", "renaming"),
           UNCHANGED <<target, file, scratch, seen, result, atomic, blurred>>
    PROVE  FileInv'
<1> USE DEF File!Moves
<1>1. File!TypeOK'
  BY DEF FileInv, File!TypeOK
<1>2. SnapshotCurrent' /\ ResultAtEnd'
  BY DEF FileInv, SnapshotCurrent, ResultAtEnd, File!TypeOK
<1>3. ScratchOwned'
  <2> SUFFICES ASSUME NEW q \in scratch
               PROVE  \E d \in Command : PidOf[d] = q
                        /\ (at'[d] \in Writing \/ at'[d] = "dead" \/ result[d] = "error")
    BY DEF ScratchOwned
  <2>1. PICK d \in Command : PidOf[d] = q
                        /\ (at[d] \in Writing \/ at[d] = "dead" \/ result[d] = "error")
    BY DEF FileInv, ScratchOwned
  <2> QED BY <2>1 DEF FileInv, File!TypeOK
<1>4. File!NoUpdateLost'
  BY DEF FileInv, File!NoUpdateLost
<1>5. File!OnlyLeftoversBlock'
  <2> SUFFICES ASSUME NEW d \in Command, result[d] = "blocked"
               PROVE  \E e \in Command \ {d} :
                        PidOf[e] = PidOf[d] /\ (at'[e] = "dead" \/ result[e] = "error")
    BY DEF File!OnlyLeftoversBlock
  <2>1. PICK e \in Command \ {d} :
           PidOf[e] = PidOf[d] /\ (at[e] = "dead" \/ result[e] = "error")
    BY DEF FileInv, File!OnlyLeftoversBlock
  <2> QED BY <2>1 DEF FileInv, File!TypeOK
<1> QED BY <1>1, <1>2, <1>3, <1>4, <1>5 DEF FileInv

\* Every step of an update keeps the file sound.
LEMMA UpdateKeeps ==
    ASSUME FileInv, NEW c \in Command, File!Update(c),
           \A d \in Command : d # c /\ PidOf[d] = PidOf[c] => at[d] \notin Writing
    PROVE  FileInv'
<1>1. CASE File!Read(c)
  BY <1>1, ReadKeeps
<1>2. CASE File!OpenScratch(c)
  BY <1>2, OpenScratchKeeps
<1>3. CASE File!WriteScratch(c)
  <2>1. CASE File!Moves(c, "writing", "renaming") /\ UNCHANGED result
    BY <1>3, <2>1, WrittenKeeps DEF File!WriteScratch
  <2>2. CASE File!Ends(c, "writing", "error")
    <3>1. result'[c] = "error"
      BY <2>2 DEF File!Ends, FileInv, File!TypeOK
    <3> QED BY <1>3, <2>2, <3>1, EndKeeps DEF File!WriteScratch, File!Ends, File!Moves
  <2> QED BY <1>3, <2>1, <2>2 DEF File!WriteScratch
<1>4. CASE File!Rename(c)
  <2>1. CASE File!Ends(c, "renaming", "stored") /\ File!Commit(c)
    <3>1. result'[c] = "stored"
      BY <2>1 DEF File!Ends, FileInv, File!TypeOK
    <3> QED BY <1>4, <2>1, <3>1, EndKeeps DEF File!Rename, File!Ends, File!Moves
  <2>2. CASE File!Ends(c, "renaming", "error") /\ UNCHANGED <<file, atomic>>
    <3>1. result'[c] = "error"
      BY <2>2 DEF File!Ends, FileInv, File!TypeOK
    <3> QED BY <1>4, <2>2, <3>1, EndKeeps DEF File!Rename, File!Ends, File!Moves
  <2> QED BY <1>4, <2>1, <2>2 DEF File!Rename
<1>5. CASE File!Remove(c)
  <2>1. CASE File!Ends(c, "removing", "stored") /\ File!Commit(c)
    <3>1. result'[c] = "stored"
      BY <2>1 DEF File!Ends, FileInv, File!TypeOK
    <3> QED BY <1>5, <2>1, <3>1, EndKeeps DEF File!Remove, File!Ends, File!Moves
  <2>2. CASE File!Ends(c, "removing", "error") /\ UNCHANGED <<file, atomic>>
    <3>1. result'[c] = "error"
      BY <2>2 DEF File!Ends, FileInv, File!TypeOK
    <3> QED BY <1>5, <2>2, <3>1, EndKeeps DEF File!Remove, File!Ends, File!Moves
  <2> QED BY <1>5, <2>1, <2>2 DEF File!Remove
<1> QED BY <1>1, <1>2, <1>3, <1>4, <1>5 DEF File!Update

\* A command that dies leaves the store as it is.
LEMMA DieKeeps ==
    ASSUME FileInv, NEW c \in Command, File!Die(c)
    PROVE  FileInv'
<1>1. at'[c] = "dead" /\ result'[c] # "stored"
  BY DEF File!Die, FileInv, File!TypeOK, ResultAtEnd
<1> QED BY <1>1, EndKeeps DEF File!Die

LEMMA StoreUnchanged ==
    ASSUME FileInv, UNCHANGED store
    PROVE  FileInv'
BY DEF FileInv, store, File!TypeOK, SnapshotCurrent, ResultAtEnd, ScratchOwned,
       File!NoUpdateLost, File!OnlyLeftoversBlock

\* Only a start makes a process live.
LEMMA NoNewProcess ==
    ASSUME OneProcessPerId, \A c \in Command : phase'[c] \in Alive => phase[c] \in Alive
    PROVE  OneProcessPerId'
BY DEF OneProcessPerId

-----------------------------------------------------------------------------

\* The second slow_down, and every other, adds the interval once more.
LEMMA OneMoreInterval ==
    \A i, n \in Nat : i * (1 + n) + i = i * (1 + (n + 1)) /\ i * (1 + n) \in Nat
OBVIOUS

LEMMA LoopType ==
    NoLoop \in [left : 0 .. Expiry, interval : Nat, rest : Nat, cancelled : BOOLEAN,
                quiet : Nat, slowDowns : Nat, late : BOOLEAN]
BY LoginAssumption DEF NoLoop, NewLoop

\* What a command may do to its phase and its loop: Moves with the loop kept, or Leave.
PhaseType ==
    phase \in [Command -> Alive \union
        {"idle", "cancelled", "denied", "expired", "failed", "reported", "killed"}]

LoopOK ==
    loop \in [Command -> [left : 0 .. Expiry, interval : Nat, rest : Nat, cancelled : BOOLEAN,
                          quiet : Nat, slowDowns : Nat, late : BOOLEAN]]

Linked ==
    \A c \in Command : phase[c] = "updating" <=> at[c] \in File!Open \union {"reading"}

LEMMA TypeParts == TypeOK <=> File!TypeOK /\ PhaseType /\ Linked /\ LoopOK
BY DEF TypeOK, PhaseType, Linked, LoopOK

\* A command that leaves its loop, and is not in a loop afterwards, breaks nothing of it.
LEMMA LeaveKeeps ==
    ASSUME PhaseType, LoopOK, DelayKept, OneProcessPerId, NEW c \in Command,
           NEW from \in Alive,
           NEW to \in {"updating", "cancelled", "denied", "expired", "failed", "reported", "killed"},
           Leave(c, from, to)
    PROVE  PhaseType' /\ LoopOK' /\ DelayKept' /\ OneProcessPerId'
<1>1. PhaseType'
  BY DEF PhaseType, Leave, Moves, Alive
<1>2. LoopOK'
  BY LoopType DEF LoopOK, Leave
<1>3. DelayKept'
  BY DEF DelayKept, Leave, Moves, PhaseType, LoopOK
<1>4. OneProcessPerId'
  BY NoNewProcess DEF Leave, Moves, PhaseType
<1> QED BY <1>1, <1>2, <1>3, <1>4

LEMMA InitHolds == Init => Inv
<1> SUFFICES ASSUME Init PROVE Inv
  OBVIOUS
<1> USE DEF Init, File!Init
<1>1. File!TypeOK
  <2>1. target \in [Command -> SUBSET Origin]
    OBVIOUS
  <2> QED BY <2>1, NoTokensType DEF File!TypeOK
<1>2. PhaseType /\ Linked
  BY DEF PhaseType, Linked
<1>3. LoopOK
  BY LoopType DEF LoopOK
<1>4. FileInv
  BY <1>1 DEF FileInv, SnapshotCurrent, ResultAtEnd, ScratchOwned, File!NoUpdateLost,
              File!OnlyLeftoversBlock
<1>5. OneProcessPerId /\ DelayKept
  BY DEF OneProcessPerId, DelayKept, Alive
<1> QED BY <1>1, <1>2, <1>3, <1>4, <1>5, TypeParts DEF Inv

\* The steps that leave the store alone: where the command is not, and does not come, to its update,
\* what remains to show is about its loop.
LEMMA StoreAside ==
    ASSUME Inv, UNCHANGED store, PhaseType', LoopOK', DelayKept', OneProcessPerId',
           \A c \in Command : phase'[c] = "updating" <=> phase[c] = "updating"
    PROVE  Inv'
<1>1. FileInv'
  BY StoreUnchanged DEF Inv
<1>2. Linked'
  BY TypeParts DEF Inv, Linked, store
<1> QED BY <1>1, <1>2 DEF Inv, FileInv, TypeOK, PhaseType, Linked, LoopOK

\* The steps of a loop that goes on.
LEMMA LoopKeeps ==
    ASSUME Inv, NEW c \in Command, CodeIssued(c) \/ Pass(c) \/ Cancel(c)
    PROVE  Inv'
<1> USE LoginAssumption
<1>0. PhaseType /\ LoopOK /\ DelayKept /\ OneProcessPerId
  BY TypeParts DEF Inv
<1>1. CASE CodeIssued(c)
  <2>1. PhaseType' /\ OneProcessPerId'
        /\ \A d \in Command : phase'[d] = "updating" <=> phase[d] = "updating"
    BY <1>0, <1>1, NoNewProcess DEF CodeIssued, Moves, PhaseType, Alive
  <2>2. LoopOK'
    <3>1. NewLoop(Expiry, Interval)
            \in [left : 0 .. Expiry, interval : Nat, rest : Nat, cancelled : BOOLEAN,
                quiet : Nat, slowDowns : Nat, late : BOOLEAN]
      BY DEF NewLoop
    <3> QED BY <1>0, <1>1, <3>1 DEF CodeIssued, LoopOK
  <2>3. DelayKept'
    BY <1>0, <1>1 DEF CodeIssued, Moves, PhaseType, LoopOK, NewLoop, DelayKept
  <2> QED BY <1>1, <2>1, <2>2, <2>3, StoreAside DEF CodeIssued
<1>2. CASE Pass(c)
  <2>1. PhaseType' /\ OneProcessPerId' /\ UNCHANGED phase
    BY <1>0, <1>2 DEF Pass, PhaseType, OneProcessPerId
  <2>2. LoopOK'
    BY <1>0, <1>2 DEF Pass, LoopOK, Less
  <2>3. DelayKept'
    BY <1>0, <1>2 DEF Pass, LoopOK, DelayKept, Less
  <2> QED BY <1>2, <2>1, <2>2, <2>3, StoreAside DEF Pass
<1>3. CASE Cancel(c)
  <2>1. PhaseType' /\ OneProcessPerId' /\ UNCHANGED phase
    BY <1>0, <1>3 DEF Cancel, PhaseType, OneProcessPerId
  <2>2. LoopOK'
    BY <1>0, <1>3 DEF Cancel, LoopOK
  <2>3. DelayKept'
    BY <1>0, <1>3 DEF Cancel, LoopOK, DelayKept
  <2> QED BY <1>3, <2>1, <2>2, <2>3, StoreAside DEF Cancel
<1> QED BY <1>1, <1>2, <1>3

\* A loop left without an update.
LEMMA LeftKeeps ==
    ASSUME Inv, NEW c \in Command, NEW from \in Alive \ {"updating"},
           NEW to \in {"cancelled", "denied", "expired", "failed", "killed"},
           Leave(c, from, to), UNCHANGED store
    PROVE  Inv'
<1>1. PhaseType' /\ LoopOK' /\ DelayKept' /\ OneProcessPerId'
  BY TypeParts, LeaveKeeps DEF Inv
<1>2. \A d \in Command : phase'[d] = "updating" <=> phase[d] = "updating"
  BY TypeParts DEF Inv, PhaseType, Leave, Moves
<1> QED BY <1>1, <1>2, StoreAside

LEMMA WakeKeeps ==
    ASSUME Inv, NEW c \in Command, Wake(c)
    PROVE  Inv'
<1>0. PhaseType /\ LoopOK /\ DelayKept /\ OneProcessPerId
  BY TypeParts DEF Inv
<1>1. CASE Leave(c, "waiting", "cancelled")
  BY <1>1, LeftKeeps DEF Wake, Alive
<1>2. CASE /\ Moves(c, "waiting", "polling")
           /\ loop' = [loop EXCEPT ![c].late = loop[c].left = 0]
  <2>1. PhaseType' /\ OneProcessPerId'
        /\ \A d \in Command : phase'[d] = "updating" <=> phase[d] = "updating"
    BY <1>0, <1>2, NoNewProcess DEF Moves, PhaseType, Alive
  <2>2. LoopOK'
    BY <1>0, <1>2 DEF LoopOK
  <2>3. DelayKept'
    BY <1>0, <1>2 DEF Moves, PhaseType, LoopOK, DelayKept
  <2> QED BY <2>1, <2>2, <2>3, StoreAside DEF Wake
<1> QED BY <1>1, <1>2 DEF Wake

\* The loop goes on only with the deadline ahead: then no poll was late.
LEMMA ContinueKeeps ==
    ASSUME Inv, NEW c \in Command, NEW wait \in Nat, NEW slowDowns \in Nat,
           wait = Interval * (1 + slowDowns), Continue(c, wait, slowDowns)
    PROVE  Inv'
<1>0. PhaseType /\ LoopOK /\ DelayKept /\ OneProcessPerId
  BY TypeParts DEF Inv
<1>1. CASE loop[c].left = 0 /\ Leave(c, "polling", "expired")
  BY <1>1, LeftKeeps DEF Continue, Alive
<1>2. CASE /\ loop[c].left > 0
           /\ Moves(c, "polling", "waiting")
           /\ loop' = [loop EXCEPT ![c].interval = wait, ![c].rest = wait,
                                   ![c].slowDowns = slowDowns, ![c].quiet = 0]
  <2>1. PhaseType' /\ OneProcessPerId'
        /\ \A d \in Command : phase'[d] = "updating" <=> phase[d] = "updating"
    BY <1>0, <1>2, NoNewProcess DEF Moves, PhaseType, Alive
  <2>2. LoopOK'
    <3>1. loop'[c] = [left |-> loop[c].left, interval |-> wait, rest |-> wait,
                      cancelled |-> loop[c].cancelled, quiet |-> 0,
                      slowDowns |-> slowDowns, late |-> loop[c].late]
      <4>1. loop[c] \in [left : 0 .. Expiry, interval : Nat, rest : Nat, cancelled : BOOLEAN,
                         quiet : Nat, slowDowns : Nat, late : BOOLEAN]
        BY <1>0 DEF LoopOK
      <4>2. loop'[c] = [loop[c] EXCEPT !.interval = wait, !.rest = wait,
                                       !.slowDowns = slowDowns, !.quiet = 0]
        BY <1>0, <1>2 DEF LoopOK
      <4> QED BY <4>1, <4>2
    <3>2. loop' = [d \in Command |-> loop'[d]] /\ \A d \in Command : d # c => loop'[d] = loop[d]
      BY <1>0, <1>2 DEF LoopOK
    <3> QED BY <1>0, <3>1, <3>2 DEF LoopOK
  <2>3. DelayKept'
    <3>1. loop'[c].quiet + loop'[c].rest >= loop'[c].interval
      BY <1>0, <1>2 DEF LoopOK
    <3>2. ~loop'[c].late
      BY <1>0, <1>2 DEF LoopOK, DelayKept, Moves
    <3>3. loop'[c].interval = Interval * (1 + loop'[c].slowDowns)
      BY <1>0, <1>2 DEF LoopOK
    <3>4. \A d \in Command : d # c => phase'[d] = phase[d] /\ loop'[d] = loop[d]
      BY <1>0, <1>2 DEF Moves, PhaseType, LoopOK
    <3> HIDE <1>2
    <3> QED BY <1>0, <3>1, <3>2, <3>3, <3>4 DEF DelayKept
  <2> QED BY <2>1, <2>2, <2>3, StoreAside DEF Continue
<1> QED BY <1>1, <1>2 DEF Continue

LEMMA PollKeeps ==
    ASSUME Inv, NEW c \in Command, Pending(c) \/ SlowDown(c)
    PROVE  Inv'
<1>0. PhaseType /\ LoopOK /\ DelayKept
  BY TypeParts DEF Inv
<1>1. phase[c] = "polling"
  BY DEF Pending, SlowDown, Continue, Leave, Moves
<1>2. /\ loop[c].slowDowns \in Nat /\ loop[c].interval \in Nat
      /\ loop[c].interval = Interval * (1 + loop[c].slowDowns)
  BY <1>0, <1>1 DEF LoopOK, DelayKept
<1>3. CASE Pending(c)
  BY <1>2, <1>3, ContinueKeeps DEF Pending
<1>4. CASE SlowDown(c)
  <2>1. loop[c].interval + Interval = Interval * (1 + (loop[c].slowDowns + 1))
    BY <1>2, OneMoreInterval, LoginAssumption
  <2>2. loop[c].interval + Interval \in Nat /\ loop[c].slowDowns + 1 \in Nat
    BY <1>2, LoginAssumption
  <2> QED BY <1>4, <2>1, <2>2, ContinueKeeps DEF SlowDown
<1> QED BY <1>3, <1>4

\* A process starts under an id that no living one has.
LEMMA StartKeeps ==
    ASSUME Inv, NEW c \in Command, Start(c)
    PROVE  Inv'
<1>0. PhaseType /\ LoopOK /\ DelayKept /\ OneProcessPerId /\ Linked
  BY TypeParts DEF Inv
<1>1. phase[c] = "idle" /\ \E to \in {"requesting", "updating"} : Moves(c, "idle", to)
  BY DEF Start, Moves
<1>2. PhaseType'
  BY <1>0, <1>1 DEF PhaseType, Moves, Alive
<1>3. LoopOK' /\ DelayKept'
  BY <1>0, <1>1 DEF Start, LoopOK, DelayKept, Moves, PhaseType
<1>4. OneProcessPerId'
  BY <1>0, <1>1 DEF Start, OneProcessPerId, Moves, PhaseType
<1>5. CASE UNCHANGED store /\ Moves(c, "idle", "requesting")
  <2>1. \A d \in Command : phase'[d] = "updating" <=> phase[d] = "updating"
    BY <1>0, <1>5 DEF Moves, PhaseType
  <2> QED BY <1>2, <1>3, <1>4, <1>5, <2>1, StoreAside
<1>6. CASE File!Begin(c) /\ Moves(c, "idle", "updating")
  <2>1. FileInv'
    BY <1>6, BeginKeeps DEF Inv
  <2>2. Linked'
    BY <1>0, <1>6 DEF Linked, Moves, PhaseType, File!Begin, File!Moves, Inv, FileInv, File!TypeOK
  <2> QED BY <1>2, <1>3, <1>4, <2>1, <2>2
          DEF Inv, FileInv, TypeOK, PhaseType, Linked, LoopOK
<1> QED BY <1>5, <1>6 DEF Start

LEMMA GrantKeeps ==
    ASSUME Inv, NEW c \in Command, TokenGranted(c)
    PROVE  Inv'
<1>0. PhaseType /\ LoopOK /\ DelayKept /\ OneProcessPerId /\ Linked
  BY TypeParts DEF Inv
<1>1. PhaseType' /\ LoopOK' /\ DelayKept' /\ OneProcessPerId'
  BY <1>0, LeaveKeeps DEF TokenGranted, Alive
<1>2. FileInv'
  BY BeginKeeps DEF Inv, TokenGranted
<1>3. Linked'
  BY <1>0 DEF TokenGranted, Leave, Linked, Moves, PhaseType, File!Begin, File!Moves, Inv, FileInv,
              File!TypeOK
<1> QED BY <1>1, <1>2, <1>3 DEF Inv, FileInv, TypeOK, PhaseType, Linked, LoopOK

\* A step of an update: the process is alive, so no other one of its id is writing.
LEMMA UpdatingKeeps ==
    ASSUME Inv, NEW c \in Command, Update(c)
    PROVE  Inv'
<1>0. PhaseType /\ LoopOK /\ DelayKept /\ OneProcessPerId /\ Linked
  BY TypeParts DEF Inv
<1>1. \A d \in Command : d # c /\ PidOf[d] = PidOf[c] => at[d] \notin Writing
  BY <1>0 DEF OneProcessPerId, Linked, Alive, Update
<1>2. FileInv'
  BY <1>1, UpdateKeeps DEF Inv, Update
<1>3. /\ \A d \in Command : d # c => at'[d] = at[d]
      /\ at'[c] \in File!Open \union {"ended"}
  BY DEF Inv, FileInv, File!TypeOK, Update, File!Update, File!Read, File!OpenScratch,
         File!WriteScratch, File!Rename, File!Remove, File!Ends, File!Moves
<1>4. /\ \A d \in Command : d # c => phase'[d] = phase[d]
      /\ phase'[c] = IF at'[c] = "ended" THEN "reported" ELSE "updating"
      /\ PhaseType'
  BY <1>0 DEF Update, PhaseType, Alive
<1>5. Linked'
  BY <1>0, <1>3, <1>4 DEF Linked
<1>6. LoopOK' /\ DelayKept'
  BY <1>0, <1>4 DEF Update, LoopOK, DelayKept
<1>7. OneProcessPerId'
  BY <1>0, <1>4, NoNewProcess DEF Update, Alive
<1> QED BY <1>2, <1>4, <1>5, <1>6, <1>7 DEF Inv, FileInv, TypeOK, PhaseType, Linked, LoopOK

LEMMA CrashKeeps ==
    ASSUME Inv, NEW c \in Command, Crash(c)
    PROVE  Inv'
<1>0. PhaseType /\ LoopOK /\ DelayKept /\ OneProcessPerId /\ Linked
  BY TypeParts DEF Inv
<1>1. PICK from \in Alive : Leave(c, from, "killed")
  BY DEF Crash
<1>2. phase[c] = from
  BY <1>1 DEF Leave, Moves
<1>3. CASE from # "updating"
  BY <1>1, <1>2, <1>3, LeftKeeps DEF Crash
<1>4. CASE from = "updating"
  <2>1. PhaseType' /\ LoopOK' /\ DelayKept' /\ OneProcessPerId'
    BY <1>0, <1>1, LeaveKeeps
  <2>2. FileInv'
    BY <1>2, <1>4, DieKeeps DEF Inv, Crash
  <2>3. Linked'
    BY <1>0, <1>1, <1>2, <1>4 DEF Crash, Leave, Linked, Moves, PhaseType, File!Die, Inv, FileInv,
              File!TypeOK
  <2> QED BY <2>1, <2>2, <2>3 DEF Inv, FileInv, TypeOK, PhaseType, Linked, LoopOK
<1> QED BY <1>3, <1>4

\* The invariant of the sign-in loop and of the credential file is inductive.
LEMMA Inductive == Inv /\ [Next]_vars => Inv'
<1> SUFFICES ASSUME Inv, [Next]_vars PROVE Inv'
  OBVIOUS
<1>1. ASSUME NEW c \in Command, CodeRefused(c) \/ PollRefused(c) PROVE Inv'
  BY <1>1, LeftKeeps DEF CodeRefused, PollRefused, Alive
<1>2. CASE UNCHANGED vars
  <2>1. PhaseType' /\ LoopOK' /\ DelayKept' /\ OneProcessPerId'
    BY <1>2, TypeParts DEF Inv, vars, PhaseType, LoopOK, DelayKept, OneProcessPerId
  <2> QED BY <1>2, <2>1, StoreAside DEF vars
<1>3. ASSUME NEW c \in Command, Proceed(c) PROVE Inv'
  BY <1>1, <1>3, LoopKeeps, WakeKeeps, GrantKeeps, PollKeeps, UpdatingKeeps DEF Proceed
<1> QED BY <1>2, <1>3, StartKeeps, LoopKeeps, CrashKeeps DEF Next

\* The inductive invariant holds in every state.
THEOREM Invariant == Spec => []Inv
BY InitHolds, Inductive, PTL DEF Spec

\* Type correctness of sign-ins and sign-outs, for any commands, deployments and process ids.
THEOREM TypeCorrect == Spec => []TypeOK
<1>1. Inv => TypeOK
  BY DEF Inv
<1> QED BY <1>1, Invariant, PTL

\* Whatever commands overlap, fail or die: the credential file differs from what whole updates make
\* of it only by what an overlapping update had read, and only leftovers block a scratch file.
THEOREM StoreStaysSound == Spec => []StoreSound
<1>1. Inv => StoreSound
  BY DEF Inv, FileInv, StoreSound
<1> QED BY <1>1, Invariant, PTL

\* For any expiry and interval a poll leaves the deployment alone for as long as it asked, and at most
\* one begins after the deadline.
THEOREM PollsAreHonest == Spec => PollsHonest
<1> DEFINE Honest(c) ==
        phase[c] # "polling" /\ phase'[c] = "polling" =>
          /\ loop[c].quiet >= Interval * (1 + loop[c].slowDowns)
          /\ ~loop[c].cancelled
          /\ loop[c].left = 0 => ~loop[c].late
<1>1. Inv /\ [Next]_vars => [\A c \in Command : Honest(c)]_vars
  <2> SUFFICES ASSUME Inv, Next, NEW c \in Command, phase[c] # "polling", phase'[c] = "polling"
               PROVE  Honest(c)
    BY DEF vars
  <2>1. PhaseType /\ LoopOK /\ DelayKept
    BY TypeParts DEF Inv
  <2>2. Wake(c)
    BY <2>1 DEF Next, Start, Proceed, CodeIssued, CodeRefused, Pass, Cancel, Continue, Pending,
                SlowDown, PollRefused, TokenGranted, Update, Crash, Leave, Moves, PhaseType, Wake
  <2>3. phase[c] = "waiting" /\ loop[c].rest = 0 /\ ~loop[c].cancelled
    BY <2>1, <2>2 DEF Wake, Leave, Moves, PhaseType
  <2> QED BY <2>1, <2>3, OneMoreInterval, LoginAssumption DEF LoopOK, DelayKept
<1> QED BY <1>1, Invariant, PTL DEF Spec, PollsHonest

-----------------------------------------------------------------------------

\* How far a command has come: the part of signIn() or signOut() it is in; whether Ctrl-C can still
\* be pressed; the time to the deadline; and what is left to do before that time moves on, after it
\* is up, or of the update.
Stage(p) ==
    CASE p = "idle" -> 4
      [] p = "requesting" -> 3
      [] p \in {"waiting", "polling"} -> 2
      [] p = "updating" -> 1
      [] OTHER -> 0

Pace(p, l, a) ==
    CASE p = "polling" -> 1
      [] p = "waiting" /\ l.left = 0 -> l.rest + 2
      [] p = "waiting" /\ l.left # 0 /\ l.rest = 0 -> 2
      [] p = "updating" /\ a = "reading" -> 4
      [] p = "updating" /\ a = "opening" -> 3
      [] p = "updating" /\ a = "writing" -> 2
      [] p = "updating" /\ a \in {"renaming", "removing"} -> 1
      [] OTHER -> 0

Remaining(p, l, a) == <<Stage(p), IF l.cancelled THEN 0 ELSE 1, l.left, Pace(p, l, a)>>

\* The order of such tuples: the first number that differs decides.
Below(r, s) == \E i \in 1..4 : r[i] < s[i] /\ \A j \in 1..4 : j < i => r[j] = s[j]

Advances(c) ==
    \/ UNCHANGED <<phase[c], loop[c], at[c]>>
    \/ Below(Remaining(phase'[c], loop'[c], at'[c]), Remaining(phase[c], loop[c], at[c]))

\* Every step of a command brings it closer to its end, the passing of time and a poll the
\* deployment answers with "not yet" or "slow down" included: it cannot poll for ever, and it does
\* nothing once it has ended.
CommandAdvances == [][\A c \in Command : Advances(c)]_vars

\* What is left is counted in natural numbers, so it cannot get less for ever.
RemainingCounts ==
    \A c \in Command : \A i \in 1..4 : Remaining(phase[c], loop[c], at[c])[i] \in Nat

\* A poll begins after its delay is over, and after each answer there is a delay.
Rested ==
    \A c \in Command :
        /\ phase[c] = "polling" => loop[c].rest = 0
        /\ phase[c] \in {"waiting", "polling"} => loop[c].interval > 0

LEMMA InitRested == Init => Rested
BY DEF Init, Rested

\* A delay and its answers keep the interval above zero, and a poll finds the delay over.
LEMMA NextRested == Inv /\ Rested /\ [Next]_vars => Rested'
<1> SUFFICES ASSUME Inv, Rested, [Next]_vars PROVE Rested'
  OBVIOUS
<1>0. PhaseType /\ LoopOK /\ Interval \in Nat \ {0}
  BY TypeParts, LoginAssumption DEF Inv
<1>1. ASSUME NEW c \in Command, Pass(c) \/ Cancel(c) PROVE Rested'
  BY <1>0, <1>1 DEF Pass, Cancel, Less, Rested, PhaseType, LoopOK
<1>2. ASSUME NEW c \in Command, CodeIssued(c) PROVE Rested'
  BY <1>0, <1>2 DEF CodeIssued, Moves, NewLoop, Rested, PhaseType, LoopOK
<1>3. ASSUME NEW c \in Command, NEW from \in Alive,
             NEW to \in {"updating", "cancelled", "denied", "expired", "failed", "reported",
                         "killed"}, Leave(c, from, to)
      PROVE  Rested'
  BY <1>0, <1>3 DEF Leave, Moves, Rested, PhaseType, LoopOK
<1>4. ASSUME NEW c \in Command, Wake(c) PROVE Rested'
  <2>1. CASE Leave(c, "waiting", "cancelled")
    BY <1>3, <2>1 DEF Alive
  <2>2. CASE /\ Moves(c, "waiting", "polling")
             /\ loop' = [loop EXCEPT ![c].late = loop[c].left = 0]
    BY <1>0, <1>4, <2>2 DEF Wake, Moves, Rested, PhaseType, LoopOK
  <2> QED BY <1>4, <2>1, <2>2 DEF Wake
<1>5. ASSUME NEW c \in Command, NEW wait \in Nat \ {0}, NEW n \in Nat, Continue(c, wait, n)
      PROVE  Rested'
  <2>1. CASE Leave(c, "polling", "expired")
    BY <1>3, <2>1 DEF Alive
  <2>2. CASE /\ Moves(c, "polling", "waiting")
             /\ loop' = [loop EXCEPT ![c].interval = wait, ![c].rest = wait,
                                     ![c].slowDowns = n, ![c].quiet = 0]
    BY <1>0, <2>2 DEF Moves, Rested, PhaseType, LoopOK
  <2> QED BY <1>5, <2>1, <2>2 DEF Continue
<1>6. ASSUME NEW c \in Command, Pending(c) \/ SlowDown(c) PROVE Rested'
  <2>1. phase[c] = "polling"
    BY <1>6 DEF Pending, SlowDown, Continue, Leave, Moves
  <2>2. /\ loop[c].interval \in Nat \ {0} /\ loop[c].slowDowns \in Nat
        /\ loop[c].interval + Interval \in Nat \ {0} /\ loop[c].slowDowns + 1 \in Nat
    BY <1>0, <2>1 DEF Rested, LoopOK
  <2> QED BY <1>5, <1>6, <2>2 DEF Pending, SlowDown
<1>7. ASSUME NEW c \in Command, Start(c) \/ Update(c) PROVE Rested'
  BY <1>0, <1>7 DEF Start, Update, Moves, Rested, PhaseType, LoopOK
<1>8. CASE UNCHANGED vars
  BY <1>8 DEF vars, Rested
<1>9. ASSUME NEW c \in Command, CodeRefused(c) \/ TokenGranted(c) \/ PollRefused(c) \/ Crash(c)
      PROVE  Rested'
  BY <1>3, <1>9 DEF CodeRefused, TokenGranted, PollRefused, Crash, Alive
<1> QED BY <1>1, <1>2, <1>4, <1>6, <1>7, <1>8, <1>9 DEF Next, Proceed

\* The four ways a command comes closer to its end.
LEMMA Lower ==
    ASSUME NEW p, NEW l, NEW a, NEW q, NEW m, NEW b,
           \/ Stage(q) < Stage(p)
           \/ Stage(q) = Stage(p) /\ ~l.cancelled /\ m.cancelled
           \/ Stage(q) = Stage(p) /\ m.cancelled = l.cancelled /\ m.left < l.left
           \/ /\ Stage(q) = Stage(p) /\ m.cancelled = l.cancelled /\ m.left = l.left
              /\ Pace(q, m, b) < Pace(p, l, a)
    PROVE  Below(Remaining(q, m, b), Remaining(p, l, a))
<1> DEFINE r == Remaining(q, m, b)
           s == Remaining(p, l, a)
<1>1. /\ r[1] = Stage(q) /\ s[1] = Stage(p)
      /\ r[2] = (IF m.cancelled THEN 0 ELSE 1) /\ s[2] = (IF l.cancelled THEN 0 ELSE 1)
      /\ r[3] = m.left /\ s[3] = l.left
      /\ r[4] = Pace(q, m, b) /\ s[4] = Pace(p, l, a)
  BY DEF Remaining
<1>2. CASE Stage(q) < Stage(p)
  <2>1. r[1] < s[1] /\ \A j \in 1..4 : j < 1 => r[j] = s[j]
    BY <1>1, <1>2
  <2> QED BY <2>1 DEF Below
<1>3. CASE Stage(q) = Stage(p) /\ ~l.cancelled /\ m.cancelled
  <2>1. r[2] < s[2] /\ \A j \in 1..4 : j < 2 => r[j] = s[j]
    BY <1>1, <1>3
  <2> QED BY <2>1 DEF Below
<1>4. CASE Stage(q) = Stage(p) /\ m.cancelled = l.cancelled /\ m.left < l.left
  <2>1. r[3] < s[3] /\ \A j \in 1..4 : j < 3 => r[j] = s[j]
    BY <1>1, <1>4
  <2> QED BY <2>1 DEF Below
<1>5. CASE /\ Stage(q) = Stage(p) /\ m.cancelled = l.cancelled /\ m.left = l.left
           /\ Pace(q, m, b) < Pace(p, l, a)
  <2>1. r[4] < s[4] /\ \A j \in 1..4 : j < 4 => r[j] = s[j]
    BY <1>1, <1>5
  <2> QED BY <2>1 DEF Below
<1> QED BY <1>2, <1>3, <1>4, <1>5

\* The stages, and what the polling loop has left in them.
LEMMA StageOrder ==
    /\ Stage("idle") = 4 /\ Stage("requesting") = 3
    /\ Stage("waiting") = 2 /\ Stage("polling") = 2 /\ Stage("updating") = 1
    /\ \A p \in {"cancelled", "denied", "expired", "failed", "reported", "killed"} : Stage(p) = 0
BY DEF Stage

LEMMA PollPace ==
    ASSUME NEW l, NEW a
    PROVE  /\ Pace("polling", l, a) = 1
           /\ l.left = 0 => Pace("waiting", l, a) = l.rest + 2
           /\ l.left # 0 /\ l.rest = 0 => Pace("waiting", l, a) = 2
           /\ l.left # 0 /\ l.rest # 0 => Pace("waiting", l, a) = 0
BY DEF Pace

LEMMA UpdatePace ==
    ASSUME NEW l
    PROVE  /\ Pace("updating", l, "reading") = 4
           /\ Pace("updating", l, "opening") = 3
           /\ Pace("updating", l, "writing") = 2
           /\ Pace("updating", l, "renaming") = 1
           /\ Pace("updating", l, "removing") = 1
BY DEF Pace

LEMMA LeaveAdvances ==
    ASSUME NEW c \in Command, NEW from \in Alive, PhaseType,
           NEW to \in {"updating", "cancelled", "denied", "expired", "failed", "reported", "killed"},
           Leave(c, from, to), from # to
    PROVE  Advances(c)
<1>1. phase[c] = from /\ phase'[c] = to
  BY DEF Leave, Moves, PhaseType
<1>2. Stage(to) < Stage(from)
  BY StageOrder DEF Alive
<1> QED BY <1>1, <1>2, Lower DEF Advances

\* Time passes: towards the deadline, or through the delay that the deadline fell into.
LEMMA PassAdvances ==
    ASSUME NEW c \in Command, PhaseType, LoopOK, Rested, Pass(c)
    PROVE  Advances(c)
<1>1. /\ phase'[c] = phase[c] /\ phase[c] \in {"waiting", "polling"}
      /\ loop'[c].cancelled = loop[c].cancelled
      /\ loop'[c].left = Less(loop[c].left) /\ loop'[c].rest = Less(loop[c].rest)
      /\ loop[c].left \in Nat /\ loop[c].rest \in Nat
      /\ loop[c].left > 0 \/ loop[c].rest > 0
  BY DEF Pass, PhaseType, LoopOK
<1>2. CASE loop[c].left > 0
  <2>1. loop'[c].left < loop[c].left
    BY <1>1, <1>2 DEF Less
  <2> QED BY <1>1, <2>1, Lower DEF Advances
<1>3. CASE loop[c].left = 0
  <2>1. /\ phase[c] = "waiting" /\ loop'[c].left = 0
        /\ loop'[c].rest = loop[c].rest - 1
    BY <1>1, <1>3 DEF Less, Rested
  <2>2. /\ Pace("waiting", loop[c], at[c]) = loop[c].rest + 2
        /\ Pace("waiting", loop'[c], at'[c]) = loop'[c].rest + 2
    BY <1>3, <2>1, PollPace
  <2>3. Pace("waiting", loop'[c], at'[c]) < Pace("waiting", loop[c], at[c])
    BY <1>1, <2>1, <2>2
  <2> QED BY <1>1, <1>3, <2>1, <2>3, Lower DEF Advances
<1> QED BY <1>1, <1>2, <1>3

LEMMA WakeAdvances ==
    ASSUME NEW c \in Command, PhaseType, LoopOK, Wake(c)
    PROVE  Advances(c)
<1>1. CASE Leave(c, "waiting", "cancelled")
  BY <1>1, LeaveAdvances DEF Alive
<1>2. CASE /\ Moves(c, "waiting", "polling")
           /\ loop' = [loop EXCEPT ![c].late = loop[c].left = 0]
  <2>1. /\ phase[c] = "waiting" /\ phase'[c] = "polling" /\ loop[c].rest = 0
        /\ loop'[c].cancelled = loop[c].cancelled /\ loop'[c].left = loop[c].left
    BY <1>2 DEF Wake, Moves, PhaseType, LoopOK
  <2>2. Pace("waiting", loop[c], at[c]) = 2 /\ Pace("polling", loop'[c], at'[c]) = 1
    BY <2>1, PollPace
  <2> QED BY <2>1, <2>2, StageOrder, Lower DEF Advances
<1> QED BY <1>1, <1>2 DEF Wake

\* "Not yet" begins another delay, and is answered only while the deadline is ahead.
LEMMA ContinueAdvances ==
    ASSUME NEW c \in Command, PhaseType, LoopOK, NEW wait \in Nat \ {0}, NEW n,
           Continue(c, wait, n)
    PROVE  Advances(c)
<1>1. CASE Leave(c, "polling", "expired")
  BY <1>1, LeaveAdvances DEF Alive
<1>2. CASE /\ loop[c].left > 0
           /\ Moves(c, "polling", "waiting")
           /\ loop' = [loop EXCEPT ![c].interval = wait, ![c].rest = wait,
                                   ![c].slowDowns = n, ![c].quiet = 0]
  <2>1. /\ phase[c] = "polling" /\ phase'[c] = "waiting" /\ loop[c].left # 0
        /\ loop'[c].rest = wait
        /\ loop'[c].cancelled = loop[c].cancelled /\ loop'[c].left = loop[c].left
    BY <1>2 DEF Moves, PhaseType, LoopOK
  <2>2. Pace("waiting", loop'[c], at'[c]) = 0 /\ Pace("polling", loop[c], at[c]) = 1
    BY <2>1, PollPace
  <2> QED BY <2>1, <2>2, StageOrder, Lower DEF Advances
<1> QED BY <1>1, <1>2 DEF Continue

LEMMA UpdateAdvances ==
    ASSUME NEW c \in Command, PhaseType, LoopOK, File!TypeOK, Update(c)
    PROVE  Advances(c)
<1>1. /\ phase[c] = "updating" /\ loop'[c] = loop[c]
      /\ phase'[c] = IF at'[c] = "ended" THEN "reported" ELSE "updating"
  BY DEF Update, PhaseType
<1>2. \/ at'[c] = "ended"
      \/ at[c] = "reading" /\ at'[c] \in {"opening", "removing"}
      \/ at[c] = "opening" /\ at'[c] = "writing"
      \/ at[c] = "writing" /\ at'[c] = "renaming"
  BY DEF Update, File!Update, File!Read, File!OpenScratch, File!WriteScratch, File!Rename,
         File!Remove, File!Ends, File!Moves, File!TypeOK
<1>3. CASE at'[c] = "ended"
  BY <1>1, <1>3, StageOrder, Lower DEF Advances
<1>4. CASE at'[c] # "ended"
  <2>1. phase'[c] = "updating"
    BY <1>1, <1>4
  <2>2. Pace("updating", loop'[c], at'[c]) < Pace("updating", loop[c], at[c])
    BY <1>2, <1>4, UpdatePace
  <2> QED BY <1>1, <2>1, <2>2, Lower DEF Advances
<1> QED BY <1>3, <1>4

\* A command's step, and every other command as it was.
LEMMA StepAdvances ==
    ASSUME Inv, Rested, NEW c \in Command,
           Start(c) \/ Proceed(c) \/ Pass(c) \/ Cancel(c) \/ Crash(c)
    PROVE  Advances(c)
<1>0. PhaseType /\ LoopOK /\ File!TypeOK
  BY TypeParts DEF Inv
<1>1. CASE Start(c)
  <2>1. phase[c] = "idle" /\ phase'[c] \in {"requesting", "updating"}
    BY <1>0, <1>1 DEF Start, Moves, PhaseType
  <2>2. Stage(phase'[c]) < Stage(phase[c])
    BY <2>1, StageOrder
  <2> QED BY <2>2, Lower DEF Advances
<1>2. CASE CodeIssued(c)
  <2>1. phase[c] = "requesting" /\ phase'[c] = "waiting"
    BY <1>0, <1>2 DEF CodeIssued, Moves, PhaseType
  <2>2. Stage(phase'[c]) < Stage(phase[c])
    BY <2>1, StageOrder
  <2> QED BY <2>2, Lower DEF Advances
<1>3. CASE CodeRefused(c) \/ TokenGranted(c) \/ PollRefused(c)
  BY <1>0, <1>3, LeaveAdvances DEF CodeRefused, TokenGranted, PollRefused, Alive
<1>4. CASE Crash(c)
  BY <1>0, <1>4, LeaveAdvances DEF Crash, Alive
<1>5. CASE Cancel(c)
  <2>1. phase'[c] = phase[c] /\ ~loop[c].cancelled /\ loop'[c].cancelled
    BY <1>0, <1>5 DEF Cancel, LoopOK
  <2> QED BY <2>1, Lower DEF Advances
<1>6. CASE Pending(c) \/ SlowDown(c)
  <2>1. phase[c] = "polling"
    BY <1>6 DEF Pending, SlowDown, Continue, Leave, Moves
  <2>2. loop[c].interval \in Nat \ {0} /\ loop[c].interval + Interval \in Nat \ {0}
    BY <1>0, <2>1, LoginAssumption DEF Rested, LoopOK
  <2> QED BY <1>0, <1>6, <2>2, ContinueAdvances DEF Pending, SlowDown
<1> QED BY <1>0, <1>1, <1>2, <1>3, <1>4, <1>5, <1>6, PassAdvances, WakeAdvances, UpdateAdvances
        DEF Proceed

LEMMA OthersStay ==
    ASSUME Inv, NEW c \in Command, NEW d \in Command, d # c,
           Start(c) \/ Proceed(c) \/ Pass(c) \/ Cancel(c) \/ Crash(c)
    PROVE  UNCHANGED <<phase[d], loop[d], at[d]>>
<1>0. PhaseType /\ LoopOK /\ File!TypeOK
  BY TypeParts DEF Inv
<1>1. phase'[d] = phase[d]
  BY <1>0 DEF Start, Proceed, CodeIssued, CodeRefused, Pass, Cancel, Continue, Pending, SlowDown,
              PollRefused, TokenGranted, Update, Crash, Leave, Moves, PhaseType, Wake
<1>2. loop'[d] = loop[d]
  BY <1>0 DEF Start, Proceed, CodeIssued, CodeRefused, Pass, Cancel, Continue, Pending, SlowDown,
              PollRefused, TokenGranted, Update, Crash, Leave, LoopOK, Wake
<1>3. at'[d] = at[d]
  <2>1. CASE UNCHANGED store
    BY <2>1 DEF store
  <2>2. CASE File!Begin(c) \/ File!Die(c)
    BY <1>0, <2>2 DEF File!Begin, File!Die, File!Moves, File!TypeOK
  <2>3. CASE File!Update(c)
    BY <1>0, <2>3 DEF File!Update, File!Read, File!OpenScratch, File!WriteScratch, File!Rename,
                      File!Remove, File!Ends, File!Moves, File!TypeOK
  <2> QED BY <2>1, <2>2, <2>3
          DEF Start, Proceed, CodeIssued, CodeRefused, Pass, Cancel, Continue, Pending, SlowDown,
              PollRefused, TokenGranted, Update, Crash, Wake
<1> QED BY <1>1, <1>2, <1>3

\* "zero login" and "zero logout" end, but for fairness: for any expiry, interval and number of
\* commands, each of their steps comes closer to the end in an order that has no infinite descent,
\* so an endless "not yet" of the deployment cannot keep a sign-in polling (signIn()).
THEOREM CommandsAdvance == Spec => CommandAdvances /\ []RemainingCounts
<1>1. Inv /\ Rested /\ [Next]_vars => [\A c \in Command : Advances(c)]_vars
  BY StepAdvances, OthersStay DEF Next, Advances
<1>2. Spec => []Rested
  BY InitRested, NextRested, Invariant, PTL DEF Spec
<1>3. Inv => RemainingCounts
  <2> SUFFICES ASSUME Inv, NEW c \in Command, NEW i \in 1..4
               PROVE  Remaining(phase[c], loop[c], at[c])[i] \in Nat
    BY DEF RemainingCounts
  <2>1. LoopOK
    BY TypeParts DEF Inv
  <2>2. Stage(phase[c]) \in Nat
    BY DEF Stage
  <2>3. loop[c].left \in Nat /\ loop[c].rest \in Nat
    BY <2>1 DEF LoopOK
  <2>4. Pace(phase[c], loop[c], at[c]) \in Nat
    BY <2>3 DEF Pace
  <2> QED BY <2>2, <2>3, <2>4 DEF Remaining
<1> QED BY <1>1, <1>2, <1>3, Invariant, PTL DEF Spec, CommandAdvances

=============================================================================
