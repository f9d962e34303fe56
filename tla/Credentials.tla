------------------------------ MODULE Credentials ------------------------------
(***************************************************************************)
(* The credential file of packages/cli/src/credentials.ts under the        *)
(* commands that update it: saveCredential() and forgetCredential() read   *)
(* the whole store, write what it becomes to a scratch file of their own   *)
(* process id and rename that over the store, or remove the store when     *)
(* nothing remains.  No lock spans the read and the rename.                *)
(*                                                                         *)
(* A token is the sign-in that obtained it; an absent file is an empty     *)
(* store.  DeviceLogin says when a command comes to its update.            *)
(***************************************************************************)
CONSTANTS
    Command,    \* runs of "zero login" and "zero logout"
    SignIn,     \* those that sign in; the others sign out
    Origin,     \* deployments
    PidOf,      \* process id of each command; one may be used again
    NoToken

VARIABLES
    target,     \* the deployments a command is about: one, or all of them
    file,       \* the stored token of each deployment
    scratch,    \* process ids whose scratch file exists
    at,         \* the await of the update a command is at
    seen,       \* the store it read
    result,     \* what the update reported
    atomic,     \* what the file would be if updates took effect whole, in the order they did
    blurred     \* commands whose update overlapped with another, or that could not read the file

cvars == <<target, file, scratch, at, seen, result, atomic, blurred>>

NoTokens == [o \in Origin |-> NoToken]

\* Between the read and the rename or removal.
Open == {"opening", "writing", "renaming", "removing"}

Updated(c, store) ==
    [o \in Origin |-> IF o \notin target[c] THEN store[o]
                      ELSE IF c \in SignIn THEN c ELSE NoToken]

Init ==
    /\ target \in [Command -> {{o} : o \in Origin} \union {Origin}]
    /\ \A c \in SignIn : \E o \in Origin : target[c] = {o}
    /\ file = NoTokens
    /\ scratch = {}
    /\ at = [c \in Command |-> "idle"]
    /\ seen = [c \in Command |-> NoTokens]
    /\ result = [c \in Command |-> "none"]
    /\ atomic = NoTokens
    /\ blurred = {}

Moves(c, from, to) == at[c] = from /\ at' = [at EXCEPT ![c] = to]

Ends(c, from, what) ==
    /\ Moves(c, from, "ended")
    /\ result' = [result EXCEPT ![c] = what]

\* saveCredential() or forgetCredential() is called.
Begin(c) ==
    /\ Moves(c, "idle", "reading")
    /\ UNCHANGED <<target, file, scratch, seen, result, atomic, blurred>>

\* readCredentials() cannot tell an absent file from one it fails to read.  A sign-out that finds
\* nothing to forget ends; one that would leave nothing removes the file.
Read(c) ==
    /\ \E store \in {file, NoTokens} :
        /\ seen' = [seen EXCEPT ![c] = store]
        /\ CASE c \notin SignIn /\ Updated(c, store) = store -> Ends(c, "reading", "nothing")
             [] c \notin SignIn /\ Updated(c, store) # store /\ Updated(c, store) = NoTokens ->
                    Moves(c, "reading", "removing") /\ UNCHANGED result
             [] OTHER -> Moves(c, "reading", "opening") /\ UNCHANGED result
        /\ LET others == {d \in Command : at[d] \in Open}
           IN  blurred' = blurred \union others
                   \union (IF others # {} \/ store # file THEN {c} ELSE {})
    /\ UNCHANGED <<target, file, scratch, atomic>>

\* Mutant: the scratch file has one name for all processes.
MutOpenScratch(c) ==
    /\ \/ /\ scratch = {}
          /\ scratch' = scratch \union {PidOf[c]}
          /\ Moves(c, "opening", "writing")
          /\ UNCHANGED result
       \/ scratch # {} /\ Ends(c, "opening", "blocked") /\ UNCHANGED scratch
    /\ UNCHANGED <<target, file, seen, atomic, blurred>>

\* open(temporaryPath, 'wx') fails on a scratch file that exists.
OpenScratch(c) ==
    /\ \/ /\ PidOf[c] \notin scratch
          /\ scratch' = scratch \union {PidOf[c]}
          /\ Moves(c, "opening", "writing")
          /\ UNCHANGED result
       \/ PidOf[c] \in scratch /\ Ends(c, "opening", "blocked") /\ UNCHANGED scratch
    /\ UNCHANGED <<target, file, seen, atomic, blurred>>

\* writeFile() and close(): a failure leaves the scratch file behind.
WriteScratch(c) ==
    /\ \/ Moves(c, "writing", "renaming") /\ UNCHANGED result
       \/ Ends(c, "writing", "error")
    /\ UNCHANGED <<target, file, scratch, seen, atomic, blurred>>

Commit(c) ==
    /\ file' = Updated(c, seen[c])
    /\ atomic' = Updated(c, atomic)

\* Mutant: the scratch file holds this session alone, and other entries are not carried over.
MutRename(c) ==
    /\ scratch' = scratch \ {PidOf[c]}
    /\ Ends(c, "renaming", "stored")
    /\ file' = Updated(c, NoTokens)
    /\ atomic' = Updated(c, atomic)
    /\ UNCHANGED <<target, seen, blurred>>

\* rename(); when it fails the scratch file is removed.
Rename(c) ==
    /\ scratch' = scratch \ {PidOf[c]}
    /\ \/ Ends(c, "renaming", "stored") /\ Commit(c)
       \/ Ends(c, "renaming", "error") /\ UNCHANGED <<file, atomic>>
    /\ UNCHANGED <<target, seen, blurred>>

\* rm(path)
Remove(c) ==
    /\ \/ Ends(c, "removing", "stored") /\ Commit(c)
       \/ Ends(c, "removing", "error") /\ UNCHANGED <<file, atomic>>
    /\ UNCHANGED <<target, scratch, seen, blurred>>

\* The process dies: a scratch file it made stays.
Die(c) ==
    /\ at[c] \in Open \union {"reading"}
    /\ at' = [at EXCEPT ![c] = "dead"]
    /\ UNCHANGED <<target, file, scratch, seen, result, atomic, blurred>>

Update(c) == Read(c) \/ OpenScratch(c) \/ WriteScratch(c) \/ Rename(c) \/ Remove(c)

-----------------------------------------------------------------------------

TypeOK ==
    /\ target \in [Command -> SUBSET Origin]
    /\ file \in [Origin -> SignIn \union {NoToken}]
    /\ scratch \subseteq {PidOf[c] : c \in Command}
    /\ at \in [Command -> Open \union {"idle", "reading", "ended", "dead"}]
    /\ seen \in [Command -> [Origin -> SignIn \union {NoToken}]]
    /\ result \in [Command -> {"none", "nothing", "stored", "blocked", "error"}]
    /\ atomic \in [Origin -> SignIn \union {NoToken}]
    /\ blurred \subseteq Command

\* "Two processes racing to save different origins can still lose one entry", and nothing else can:
\* as long as no two updates overlap and the file can be read the store is what whole updates make
\* of it, and when they do overlap an entry is off only by what an overlapping command had read.
NoUpdateLost ==
    \A o \in Origin :
        \/ file[o] = atomic[o]
        \/ \E c \in blurred : result[c] = "stored" /\ o \notin target[c] /\ file[o] = seen[c][o]

\* "The temporary name carries the process id so two concurrent writers do not clobber each other's
\* scratch file": a command is kept from its scratch file only by what an earlier process of its id
\* left, which died with it or could not write it.
OnlyLeftoversBlock ==
    \A c \in Command : result[c] = "blocked" =>
        \E d \in Command \ {c} :
            PidOf[d] = PidOf[c] /\ (at[d] = "dead" \/ result[d] = "error")

=============================================================================
