-------------------------- MODULE SecretStoreProofs --------------------------
(***************************************************************************)
(* Proofs about SecretStore, for any names, secrets, passwords and lines   *)
(* of .env.  Types hold of any number of processes; what the file holds    *)
(* is as it should be if no two commands run at once, which is as much as  *)
(* the code gives (MCSecretShared.cfg).                                    *)
(***************************************************************************)
EXTENDS SecretStore, SequenceTheorems, TLAPS

----------------------------------------------------------------------------
(* Types.                                                                  *)

Pcs == {"idle", "open", "write", "replace", "rename"}
Lines == Keys \X Values
Proc == [pc : Pcs, n : Nat, edits : Seq(Edit), vault : Vault, fd : 0..Inodes,
         migrate : BOOLEAN]

\* What an edit makes of a map: its own entry, the others, and the password.
LEMMA ApplyType ==
  ASSUME NEW vault \in Vault, NEW e \in Edit
  PROVE  /\ Apply(vault, e) \in Vault
         /\ \A n \in Names : Apply(vault, e).data[n] =
              IF n = e.name /\ e.kind = "set" THEN e.value
              ELSE IF n = e.name /\ e.kind = "rm" THEN NoSecret ELSE vault.data[n]
<1>1. /\ e.kind \in {"set", "rm", "rotate"} /\ e.name \in Names /\ e.value \in Values
      /\ e.pw \in Passwords
  BY DEF Edit
<1>2. vault.data \in [Names -> Values \cup {NoSecret}] /\ vault.pw \in Passwords
  BY DEF Vault
<1>3. CASE e.kind = "set"
  <2>1. Apply(vault, e) = [vault EXCEPT !.data[e.name] = e.value]
    BY <1>3 DEF Apply
  <2>2. QED
    BY <1>1, <1>2, <1>3, <2>1 DEF Vault
<1>4. CASE e.kind = "rm"
  <2>1. Apply(vault, e) = [vault EXCEPT !.data[e.name] = NoSecret]
    BY <1>4 DEF Apply
  <2>2. QED
    BY <1>1, <1>2, <1>4, <2>1 DEF Vault
<1>5. CASE e.kind = "rotate"
  <2>1. Apply(vault, e) = [vault EXCEPT !.pw = e.pw]
    BY <1>5 DEF Apply
  <2>2. QED
    BY <1>1, <1>2, <1>5, <2>1 DEF Vault
<1>6. QED
  BY <1>1, <1>3, <1>4, <1>5

LEMMA FreshType == NoVault \in Vault /\ \A pw \in Passwords : Fresh(pw) \in Vault
<1>1. (CHOOSE pw \in Passwords : TRUE) \in Passwords
  BY SecretsAssumption
<1>2. QED
  BY <1>1 DEF NoVault, Fresh, Vault

LEMMA IdleType ==
  ASSUME NEW n \in Nat
  PROVE  /\ Idle(n) \in Proc /\ Idle(n).pc = "idle" /\ Idle(n).n = n
         /\ Idle(n).edits = <<>> /\ ~Idle(n).migrate
BY FreshType, BoundsAssumption, EmptySeq DEF Idle, Proc, Pcs

LEMMA ProcType ==
  ASSUME TypeOK, NEW p \in Procs
  PROVE  /\ proc \in [Procs -> Proc] /\ proc[p] \in Proc
         /\ proc[p].pc \in Pcs /\ proc[p].n \in Nat /\ proc[p].edits \in Seq(Edit)
         /\ proc[p].vault \in Vault /\ proc[p].fd \in 0..Inodes
         /\ proc[p].migrate \in BOOLEAN /\ legacy \in Seq(Lines)
<1>1. proc \in [Procs -> Proc] /\ legacy \in Seq(Lines)
  BY DEF TypeOK, Proc, Pcs, Lines
<1>2. QED
  BY <1>1 DEF Proc

LEMMA EditsType ==
  ASSUME NEW s \in Seq(Edit), s # <<>>
  PROVE  Head(s) \in Edit /\ Tail(s) \in Seq(Edit)
BY HeadTailProperties

\* What a command unlocks is a map.
LEMMA UnlockedType ==
  ASSUME TypeOK, NEW pw \in Passwords, Unlocks(pw)
  PROVE  /\ Unlocked(pw) \in Vault
         /\ Unlocked(pw) = IF secrets = 0 THEN Fresh(pw) ELSE blob[secrets]
<1>1. CASE secrets = 0
  BY <1>1, FreshType DEF Unlocked
<1>2. CASE secrets # 0
  <2>1. secrets \in 1..Inodes /\ blob \in [1..Inodes -> Vault \cup {Torn}]
    BY <1>2, BoundsAssumption DEF TypeOK
  <2>2. blob[secrets] \in Vault \cup {Torn} /\ blob[secrets] # Torn
    BY <1>2, <2>1 DEF Unlocks, Unlocked
  <2>3. QED
    BY <1>2, <2>2 DEF Unlocked
<1>3. QED
  BY <1>1, <1>2

----------------------------------------------------------------------------
(* The steps.                                                              *)

\* The edits of a migration: one for each line of the .env.
Imports(pw) == [i \in DOMAIN legacy |->
                  [kind |-> "set", name |-> Imported[legacy[i][1]], value |-> legacy[i][2],
                   pw |-> pw]]

LEMMA ImportsType ==
  ASSUME TypeOK, NEW pw \in Passwords, legacy # <<>>
  PROVE  /\ Imports(pw) \in Seq(Edit) /\ Imports(pw) # <<>>
         /\ DOMAIN Imports(pw) = DOMAIN legacy
         /\ \A i \in DOMAIN legacy : /\ Imports(pw)[i].kind = "set"
                                     /\ Imports(pw)[i].name = Imported[legacy[i][1]]
<1>1. legacy \in Seq(Lines) /\ DOMAIN legacy = 1..Len(legacy) /\ Len(legacy) \in Nat
  BY DEF TypeOK, Lines
<1>2. ASSUME NEW i \in DOMAIN legacy
      PROVE  [kind |-> "set", name |-> Imported[legacy[i][1]], value |-> legacy[i][2],
              pw |-> pw] \in Edit
  <2>1. legacy[i] \in Lines
    BY <1>1
  <2>2. legacy[i][1] \in Keys /\ legacy[i][2] \in Values
    BY <2>1 DEF Lines
  <2>3. QED
    BY <2>2, NamesAssumption DEF Edit
<1>3. Imports(pw) \in [1..Len(legacy) -> Edit]
  BY <1>1, <1>2 DEF Imports
<1>4. Imports(pw) \in Seq(Edit) /\ Len(Imports(pw)) = Len(legacy)
  BY <1>1, <1>3, SeqDef, LenProperties
<1>5. Len(legacy) # 0
  BY <1>1, EmptySeq
<1>6. Imports(pw) # <<>>
  BY <1>4, <1>5
<1>7. QED
  BY <1>1, <1>4, <1>6 DEF Imports

\* A command begins with the edits it has to make.
Starts(p) ==
  \E pw \in Passwords, edits \in Seq(Edit), migrate \in BOOLEAN :
    /\ Begin(p, pw, edits, migrate) /\ edits # <<>>
    /\ migrate => legacy # <<>> /\ edits = Imports(pw)

LEMMA CommandStarts ==
  ASSUME TypeOK, NEW p \in Procs, NEW pw \in Passwords,
         \/ \E n \in Names : SecretRm(p, pw, n) \/ (\E v \in Values : SecretSet(p, pw, n, v))
         \/ \E new \in Passwords : RotatePassword(p, pw, new)
         \/ MigrateLegacyEnv(p, pw)
  PROVE  Starts(p)
<1>1. ASSUME NEW e \in Edit, Begin(p, pw, <<e>>, FALSE) PROVE Starts(p)
  <2>1. <<e>> \in Seq(Edit) /\ <<e>> # <<>>
    OBVIOUS
  <2>2. QED
    BY <1>1, <2>1 DEF Starts
<1>2. ASSUME NEW n \in Names, SecretRm(p, pw, n) PROVE Starts(p)
  <2>1. Unlocked(pw) \in Vault /\ Unlocked(pw).data[n] # NoSecret
    BY <1>2, UnlockedType DEF SecretRm
  <2>2. [kind |-> "rm", name |-> n, value |-> Unlocked(pw).data[n], pw |-> pw] \in Edit
    BY <2>1 DEF Vault, Edit
  <2>3. QED
    BY <1>1, <1>2, <2>2 DEF SecretRm
<1>3. ASSUME NEW n \in Names, NEW v \in Values, SecretSet(p, pw, n, v) PROVE Starts(p)
  <2>1. [kind |-> "set", name |-> n, value |-> v, pw |-> pw] \in Edit
    BY DEF Edit
  <2>2. QED
    BY <1>1, <1>3, <2>1 DEF SecretSet
<1>4. ASSUME NEW new \in Passwords, RotatePassword(p, pw, new) PROVE Starts(p)
  <2>1. (CHOOSE n \in Names : TRUE) \in Names /\ (CHOOSE v \in Values : TRUE) \in Values
    BY SecretsAssumption
  <2>2. [kind |-> "rotate", name |-> CHOOSE n \in Names : TRUE,
         value |-> CHOOSE v \in Values : TRUE, pw |-> new] \in Edit
    BY <2>1 DEF Edit
  <2>3. QED
    BY <1>1, <1>4, <2>2 DEF RotatePassword
<1>5. ASSUME MigrateLegacyEnv(p, pw) PROVE Starts(p)
  BY <1>5, ImportsType DEF MigrateLegacyEnv, Starts, Imports
<1>6. QED
  BY <1>2, <1>3, <1>4, <1>5

\* A step of p leaves the other processes where they are.
Becomes(p, new) == new \in Proc /\ proc' = [proc EXCEPT ![p] = new]

LEMMA StartMoves ==
  ASSUME TypeOK, NEW p \in Procs, Starts(p)
  PROVE  \E new, pw :
           /\ Becomes(p, new) /\ proc[p].pc = "idle" /\ new.pc = "open" /\ new.edits # <<>>
           /\ pw \in Passwords /\ new.vault = IF secrets = 0 THEN Fresh(pw) ELSE blob[secrets]
           /\ new.migrate => legacy # <<>> /\ new.edits = Imports(pw)
           /\ UNCHANGED <<blob, created, secrets, tmp, legacy, truth>>
<1>1. PICK pw \in Passwords, edits \in Seq(Edit), migrate \in BOOLEAN :
        /\ Begin(p, pw, edits, migrate) /\ edits # <<>>
        /\ migrate => legacy # <<>> /\ edits = Imports(pw)
  BY DEF Starts
<1>2. PICK vault \in Vault : /\ vault = Unlocked(pw)
                             /\ vault = IF secrets = 0 THEN Fresh(pw) ELSE blob[secrets]
  BY <1>1, UnlockedType DEF Begin
<1>3. PICK idle \in Proc : idle = Idle(proc[p].n + 1)
  BY ProcType, IdleType
<1>4. PICK new : new = [idle EXCEPT !.pc = "open", !.edits = edits, !.vault = vault,
                                    !.migrate = migrate]
  OBVIOUS
<1>5. /\ new \in Proc /\ new.pc = "open" /\ new.edits = edits /\ new.vault = vault
      /\ new.migrate = migrate
  BY <1>4 DEF Proc, Pcs
<1>6. proc' = [proc EXCEPT ![p] = new]
  BY <1>1, <1>2, <1>3, <1>4 DEF Begin
<1>7. QED
  BY <1>1, <1>2, <1>5, <1>6 DEF Begin, Becomes

\* A command that is not at its end has edits to make.
Writing == {"open", "write", "replace"}
HasEdits == \A p \in Procs : proc[p].pc \in Writing => proc[p].edits # <<>>
TypeInv == TypeOK /\ HasEdits

LEMMA EditedType ==
  ASSUME TypeInv, NEW p \in Procs, proc[p].pc \in Writing
  PROVE  /\ Head(proc[p].edits) \in Edit /\ Tail(proc[p].edits) \in Seq(Edit)
         /\ Edited(p) \in Vault /\ Edited(p) = Apply(proc[p].vault, Head(proc[p].edits))
<1>1. proc[p].edits \in Seq(Edit) /\ proc[p].edits # <<>> /\ proc[p].vault \in Vault
  BY ProcType DEF TypeInv, HasEdits
<1>2. Head(proc[p].edits) \in Edit /\ Tail(proc[p].edits) \in Seq(Edit)
  BY <1>1, EditsType
<1>3. QED
  BY <1>1, <1>2, ApplyType DEF Edited

\* The same command, a step later.
GoesOn(p, new) ==
  /\ Becomes(p, new) /\ new.edits = proc[p].edits /\ new.vault = proc[p].vault
  /\ new.migrate = proc[p].migrate

LEMMA OpenMoves ==
  ASSUME TypeInv, NEW p \in Procs, Open(p)
  PROVE  \E new, i :
           /\ GoesOn(p, new) /\ proc[p].pc = "open" /\ new.pc = "write" /\ new.fd = i
           /\ i \in 1..Inodes /\ i = IF tmp = 0 THEN created + 1 ELSE tmp
           /\ blob' = [blob EXCEPT ![i] = Torn] /\ tmp' = i
           /\ created' = IF i > created THEN i ELSE created
           /\ UNCHANGED <<secrets, legacy, truth>>
<1>1. /\ created \in 0..Inodes /\ tmp \in 0..Inodes /\ Inodes \in Nat /\ proc[p] \in Proc
      /\ Opened(p) <= Inodes
  BY ProcType, BoundsAssumption DEF TypeInv, TypeOK, Open
<1>2. PICK i \in 1..Inodes : i = Opened(p) /\ i = IF tmp = 0 THEN created + 1 ELSE tmp
  BY <1>1 DEF Opened
<1>3. PICK new : new = [proc[p] EXCEPT !.pc = "write", !.fd = i]
  OBVIOUS
<1>4. /\ new \in Proc /\ new.pc = "write" /\ new.fd = i /\ new.edits = proc[p].edits
      /\ new.vault = proc[p].vault /\ new.migrate = proc[p].migrate
  <2>1. i \in 0..Inodes
    BY <1>1, <1>2
  <2>2. QED
    BY <1>1, <1>3, <2>1 DEF Proc, Pcs
<1>5. proc' = [proc EXCEPT ![p] = new]
  <2>1. proc' = [proc EXCEPT ![p].pc = "write", ![p].fd = i] /\ proc \in [Procs -> Proc]
    BY <1>2, ProcType DEF Open, TypeInv
  <2>2. QED
    BY <1>1, <1>3, <2>1 DEF Proc
<1>6. QED
  BY <1>2, <1>4, <1>5 DEF Open, GoesOn, Becomes

LEMMA WriteMoves ==
  ASSUME TypeInv, NEW p \in Procs, Write(p)
  PROVE  \E new, content :
           /\ GoesOn(p, new) /\ proc[p].pc = "write" /\ new.pc = "replace"
           /\ content = Edited(p) \/ (content = Torn /\ blob[proc[p].fd] # Torn)
           /\ content \in Vault \cup {Torn}
           /\ blob' = [blob EXCEPT ![proc[p].fd] = content]
           /\ UNCHANGED <<created, secrets, tmp, legacy, truth>>
<1>1. proc[p] \in Proc /\ proc[p].pc = "write" /\ proc \in [Procs -> Proc]
  BY ProcType DEF TypeInv, Write
<1>2. PICK content : /\ content = Edited(p) \/ (content = Torn /\ blob[proc[p].fd] # Torn)
                     /\ blob' = [blob EXCEPT ![proc[p].fd] = content]
  BY DEF Write
<1>3. content \in Vault \cup {Torn}
  BY <1>1, <1>2, EditedType DEF Writing
<1>4. PICK new : new = [proc[p] EXCEPT !.pc = "replace"]
  OBVIOUS
<1>5. /\ new \in Proc /\ new.pc = "replace" /\ new.edits = proc[p].edits
      /\ new.vault = proc[p].vault /\ new.migrate = proc[p].migrate
  BY <1>1, <1>4 DEF Proc, Pcs
<1>6. proc' = [proc EXCEPT ![p] = new]
  BY <1>4 DEF Write
<1>7. QED
  BY <1>1, <1>2, <1>3, <1>5, <1>6 DEF Write, GoesOn, Becomes

\* A rename finds the temporary file, or it has been renamed by somebody else.
Renames(p, new) ==
  /\ tmp # 0 /\ secrets' = tmp /\ tmp' = 0
  /\ truth' = Apply(IF secrets = 0 THEN proc[p].vault ELSE truth, Head(proc[p].edits))
  /\ \/ /\ new.pc = "open" /\ new.edits = Tail(proc[p].edits) /\ new.edits # <<>>
        /\ new.vault = Edited(p) /\ new.migrate = proc[p].migrate
     \/ /\ new.pc = "rename" /\ Tail(proc[p].edits) = <<>> /\ proc[p].migrate
     \/ new.pc = "idle"

LEMMA ReplaceMoves ==
  ASSUME TypeInv, NEW p \in Procs, Replace(p)
  PROVE  \E new :
           /\ Becomes(p, new) /\ proc[p].pc = "replace"
           /\ \/ tmp = 0 /\ new.pc = "idle" /\ UNCHANGED <<secrets, tmp, truth>>
              \/ Renames(p, new)
           /\ UNCHANGED <<blob, created, legacy>>
<1>1. proc[p] \in Proc /\ proc[p].pc = "replace" /\ proc[p].n \in Nat
  BY ProcType DEF TypeInv, Replace
<1>2. /\ Edited(p) \in Vault /\ Tail(proc[p].edits) \in Seq(Edit)
  BY <1>1, EditedType DEF Writing
<1>3. PICK idle \in Proc : idle = Idle(proc[p].n) /\ idle.pc = "idle"
  BY <1>1, IdleType
<1>4. CASE tmp = 0
  BY <1>1, <1>3, <1>4 DEF Replace, Becomes
<1>5. CASE tmp # 0
  <2>1. PICK rest \in Seq(Edit), vault \in Vault : rest = Tail(proc[p].edits) /\ vault = Edited(p)
    BY <1>2
  <2>2. CASE rest # <<>>
    <3>1. PICK new : new = [proc[p] EXCEPT !.pc = "open", !.edits = rest, !.vault = vault]
      OBVIOUS
    <3>2. /\ new \in Proc /\ new.pc = "open" /\ new.edits = rest /\ new.vault = vault
          /\ new.migrate = proc[p].migrate
      BY <1>1, <3>1 DEF Proc, Pcs
    <3>3. proc' = [proc EXCEPT ![p] = new]
      BY <1>5, <2>1, <2>2, <3>1 DEF Replace
    <3>4. Renames(p, new) /\ UNCHANGED <<blob, created, legacy>>
      BY <1>5, <2>1, <2>2, <3>2 DEF Replace, Renames
    <3>5. QED
      BY <1>1, <3>2, <3>3, <3>4 DEF Becomes
  <2>3. CASE rest = <<>> /\ proc[p].migrate
    <3>1. PICK new : new = [proc[p] EXCEPT !.pc = "rename"]
      OBVIOUS
    <3>2. new \in Proc /\ new.pc = "rename"
      BY <1>1, <3>1 DEF Proc, Pcs
    <3>3. proc' = [proc EXCEPT ![p] = new]
      BY <1>5, <2>1, <2>3, <3>1 DEF Replace
    <3>4. Renames(p, new) /\ UNCHANGED <<blob, created, legacy>>
      BY <1>5, <2>1, <2>3, <3>2 DEF Replace, Renames
    <3>5. QED
      BY <1>1, <3>2, <3>3, <3>4 DEF Becomes
  <2>4. CASE rest = <<>> /\ ~proc[p].migrate
    <3>1. proc' = [proc EXCEPT ![p] = idle]
      BY <1>3, <1>5, <2>1, <2>4 DEF Replace
    <3>2. Renames(p, idle) /\ UNCHANGED <<blob, created, legacy>>
      BY <1>3, <1>5 DEF Replace, Renames
    <3>3. QED
      BY <1>1, <1>3, <3>1, <3>2 DEF Becomes
  <2>5. QED
    BY <2>2, <2>3, <2>4
<1>6. QED
  BY <1>4, <1>5

LEMMA EndMoves ==
  ASSUME TypeInv, NEW p \in Procs, RenameEnv(p) \/ Crash(p)
  PROVE  \E new : /\ Becomes(p, new) /\ new.pc = "idle"
                  /\ legacy' = legacy \/ (proc[p].pc = "rename" /\ legacy' = <<>>)
                  /\ UNCHANGED <<blob, created, secrets, tmp, truth>>
<1>1. PICK idle \in Proc : idle = Idle(proc[p].n) /\ idle.pc = "idle"
  BY ProcType, IdleType DEF TypeInv
<1>2. CASE RenameEnv(p)
  BY <1>1, <1>2 DEF RenameEnv, AllImported, Becomes
<1>3. CASE Crash(p)
  BY <1>1, <1>3 DEF Crash, Becomes
<1>4. QED
  BY <1>2, <1>3

LEMMA NextType == TypeInv /\ [Next]_vars => TypeInv'
<1> SUFFICES ASSUME TypeInv, [Next]_vars PROVE TypeInv'
  OBVIOUS
<1>0. TypeOK /\ HasEdits /\ proc \in [Procs -> Proc] /\ Inodes \in Nat
  BY BoundsAssumption DEF TypeInv, TypeOK, Proc, Pcs, Lines
<1>1. ASSUME NEW p \in Procs, NEW new, Becomes(p, new), new.pc \in Writing => new.edits # <<>>,
             blob' \in [1..Inodes -> Vault \cup {Torn}], truth' \in Vault,
             created' \in 0..Inodes, secrets' \in 0..Inodes, tmp' \in 0..Inodes,
             legacy' \in Seq(Lines)
      PROVE  TypeInv'
  <2>1. proc' \in [Procs -> Proc]
    BY <1>0, <1>1 DEF Becomes
  <2>2. HasEdits'
    BY <1>0, <1>1 DEF Becomes, HasEdits
  <2>3. QED
    BY <1>1, <2>1, <2>2 DEF TypeInv, TypeOK, Proc, Pcs, Lines
<1>2. ASSUME NEW p \in Procs, Starts(p) PROVE TypeInv'
  BY <1>0, <1>1, <1>2, StartMoves DEF TypeOK, Lines
<1>3. ASSUME NEW p \in Procs, Open(p) PROVE TypeInv'
  <2>1. PICK new, i :
           /\ GoesOn(p, new) /\ proc[p].pc = "open" /\ new.pc = "write" /\ new.fd = i
           /\ i \in 1..Inodes
           /\ blob' = [blob EXCEPT ![i] = Torn] /\ tmp' = i
           /\ created' = IF i > created THEN i ELSE created
           /\ UNCHANGED <<secrets, legacy, truth>>
    BY <1>3, OpenMoves
  <2>2. blob' \in [1..Inodes -> Vault \cup {Torn}] /\ created' \in 0..Inodes /\ tmp' \in 0..Inodes
    BY <1>0, <2>1 DEF TypeOK
  <2>3. QED
    BY <1>0, <1>1, <2>1, <2>2 DEF GoesOn, HasEdits, TypeOK, Lines, Writing
<1>4. ASSUME NEW p \in Procs, Write(p) PROVE TypeInv'
  <2>1. PICK new, content :
           /\ GoesOn(p, new) /\ proc[p].pc = "write" /\ new.pc = "replace"
           /\ content \in Vault \cup {Torn}
           /\ blob' = [blob EXCEPT ![proc[p].fd] = content]
           /\ UNCHANGED <<created, secrets, tmp, legacy, truth>>
    BY <1>4, WriteMoves
  <2>2. blob' \in [1..Inodes -> Vault \cup {Torn}]
    BY <1>0, <2>1 DEF TypeOK
  <2>3. QED
    BY <1>0, <1>1, <2>1, <2>2 DEF GoesOn, HasEdits, TypeOK, Lines, Writing
<1>5. ASSUME NEW p \in Procs, Replace(p) PROVE TypeInv'
  <2>1. PICK new :
           /\ Becomes(p, new) /\ proc[p].pc = "replace"
           /\ \/ tmp = 0 /\ new.pc = "idle" /\ UNCHANGED <<secrets, tmp, truth>>
              \/ Renames(p, new)
           /\ UNCHANGED <<blob, created, legacy>>
    BY <1>5, ReplaceMoves
  <2>2. CASE Renames(p, new)
    <3>1. Head(proc[p].edits) \in Edit /\ proc[p].vault \in Vault /\ truth \in Vault
      BY <1>0, <2>1, ProcType, EditedType DEF Writing, TypeInv, TypeOK
    <3>2. truth' \in Vault
      BY <2>2, <3>1, ApplyType DEF Renames
    <3>3. new.pc \in Writing => new.edits # <<>>
      BY <2>2 DEF Renames, Writing
    <3>4. secrets' \in 0..Inodes /\ tmp' \in 0..Inodes
      BY <1>0, <2>2 DEF Renames, TypeOK
    <3>5. QED
      BY <1>0, <1>1, <2>1, <3>2, <3>3, <3>4 DEF TypeOK, Lines
  <2>3. CASE new.pc = "idle" /\ UNCHANGED <<secrets, tmp, truth>>
    BY <1>0, <1>1, <2>1, <2>3 DEF TypeOK, Lines, Writing
  <2>4. QED
    BY <2>1, <2>2, <2>3
<1>6. ASSUME NEW p \in Procs, RenameEnv(p) \/ Crash(p) PROVE TypeInv'
  <2>1. PICK new : /\ Becomes(p, new) /\ new.pc = "idle"
                   /\ legacy' = legacy \/ legacy' = <<>>
                   /\ UNCHANGED <<blob, created, secrets, tmp, truth>>
    BY <1>6, EndMoves
  <2>2. legacy' \in Seq(Lines)
    BY <1>0, <2>1, EmptySeq DEF TypeOK, Lines
  <2>3. QED
    BY <1>0, <1>1, <2>1, <2>2 DEF TypeOK, Writing
<1>7. CASE UNCHANGED vars
  BY <1>7 DEF vars, TypeInv, TypeOK, HasEdits
<1>8. QED
  BY <1>0, <1>2, <1>3, <1>4, <1>5, <1>6, <1>7, CommandStarts DEF Next

LEMMA InitType == Init => TypeInv
<1> SUFFICES ASSUME Init PROVE TypeInv
  OBVIOUS
<1>1. Idle(0) \in Proc /\ Idle(0).pc = "idle"
  BY IdleType
<1>2. proc \in [Procs -> Proc] /\ \A p \in Procs : proc[p].pc = "idle"
  BY <1>1 DEF Init
<1>3. /\ blob \in [1..Inodes -> Vault \cup {Torn}] /\ truth \in Vault
      /\ created \in 0..Inodes /\ secrets \in 0..Inodes /\ tmp \in 0..Inodes
      /\ legacy \in Seq(Lines)
  BY FreshType, LegacyAssumption, BoundsAssumption DEF Init, Lines
<1>4. QED
  BY <1>2, <1>3 DEF TypeInv, TypeOK, HasEdits, Writing, Proc, Pcs, Lines

\* Every variable keeps its type: a file holds a whole map or is being written,
\* whatever processes, crashes and migrations there are (secretstore.py:221).
THEOREM TypeCorrect == Spec => []TypeOK
<1>1. Spec => []TypeInv
  BY InitType, NextType, PTL DEF Spec
<1>2. TypeInv => TypeOK
  BY DEF TypeInv
<1>3. QED
  BY <1>1, <1>2, PTL

----------------------------------------------------------------------------
(* One command at a time.                                                  *)

Alone == \E p : Procs = {p}

\* The command that runs knows what the store holds, and writes a file nobody
\* reads.
KnowsStore(p) ==
  /\ proc[p].pc \in Writing /\ secrets # 0 => proc[p].vault = truth
  /\ proc[p].pc = "write" => proc[p].fd = tmp /\ tmp # 0 /\ blob[tmp] = Torn
  /\ proc[p].pc = "replace" => tmp # 0 /\ blob[tmp] = Edited(p)

\* What is left to import is in its edits, and what is not is in its map, from
\* the first line of the .env to the rename.
KeepsLines(p) ==
  /\ proc[p].pc \in Writing /\ proc[p].migrate =>
       /\ \A j \in DOMAIN proc[p].edits : proc[p].edits[j].kind = "set"
       /\ \A i \in DOMAIN legacy : LET n == Imported[legacy[i][1]] IN
            \/ proc[p].vault.data[n] # NoSecret
            \/ \E j \in DOMAIN proc[p].edits : proc[p].edits[j].name = n
  /\ proc[p].pc = "rename" =>
       /\ secrets # 0
       /\ \A i \in DOMAIN legacy : truth.data[Imported[legacy[i][1]]] # NoSecret

StoreInv ==
  /\ TypeInv /\ StoreIsExact
  /\ secrets <= created /\ tmp <= created /\ (tmp # 0 => tmp # secrets)
  /\ \A p \in Procs : KnowsStore(p) /\ KeepsLines(p)

LEMMA Only == ASSUME Alone, NEW p \in Procs, NEW q \in Procs PROVE q = p
  BY DEF Alone

\* The one command moves on: what the invariant asks of where it gets.
LEMMA AloneMoves ==
  ASSUME Alone, StoreInv, TypeInv', NEW p \in Procs, NEW new, Becomes(p, new),
         StoreIsExact', secrets' <= created', tmp' <= created', tmp' # 0 => tmp' # secrets',
         new.pc \in Writing /\ secrets' # 0 => new.vault = truth',
         new.pc = "write" => new.fd = tmp' /\ tmp' # 0 /\ blob'[tmp'] = Torn,
         new.pc = "replace" => tmp' # 0 /\ blob'[tmp'] = Apply(new.vault, Head(new.edits)),
         new.pc \in Writing /\ new.migrate =>
           /\ \A j \in DOMAIN new.edits : new.edits[j].kind = "set"
           /\ \A i \in DOMAIN legacy' : LET n == Imported[legacy'[i][1]] IN
                \/ new.vault.data[n] # NoSecret
                \/ \E j \in DOMAIN new.edits : new.edits[j].name = n,
         new.pc = "rename" =>
           /\ secrets' # 0
           /\ \A i \in DOMAIN legacy' : truth'.data[Imported[legacy'[i][1]]] # NoSecret
  PROVE  StoreInv'
<1>1. proc'[p] = new
  BY ProcType DEF Becomes, StoreInv, TypeInv
<1>2. Edited(p)' = Apply(new.vault, Head(new.edits))
  BY <1>1 DEF Edited
<1>3. KnowsStore(p)'
  BY <1>1, <1>2 DEF KnowsStore
<1>4. KeepsLines(p)'
  BY <1>1 DEF KeepsLines
<1>5. \A q \in Procs : KnowsStore(q)' /\ KeepsLines(q)'
  BY <1>3, <1>4, Only
<1>6. QED
  BY <1>5 DEF StoreInv

\* The inode of the store is not the one that is written.
LEMMA StoreApart ==
  ASSUME StoreInv, NEW i \in 1..Inodes, NEW content, i # secrets,
         blob' = [blob EXCEPT ![i] = content], UNCHANGED <<secrets, truth>>
  PROVE  StoreIsExact'
<1>1. blob \in [1..Inodes -> Vault \cup {Torn}] /\ secrets \in 0..Inodes /\ Inodes \in Nat
  BY BoundsAssumption DEF StoreInv, TypeInv, TypeOK
<1>2. secrets # 0 => blob'[secrets] = blob[secrets]
  BY <1>1
<1>3. QED
  BY <1>2 DEF StoreInv, StoreIsExact

LEMMA StoreTypes ==
  ASSUME StoreInv
  PROVE  /\ blob \in [1..Inodes -> Vault \cup {Torn}] /\ truth \in Vault
         /\ created \in 0..Inodes /\ secrets \in 0..Inodes /\ tmp \in 0..Inodes
         /\ legacy \in Seq(Lines) /\ Inodes \in Nat /\ TypeInv /\ TypeOK
         /\ StoreIsExact /\ secrets <= created /\ tmp <= created /\ (tmp # 0 => tmp # secrets)
         /\ DOMAIN legacy = 1..Len(legacy) /\ Len(legacy) \in Nat
         /\ \A i \in DOMAIN legacy : legacy[i][1] \in Keys /\ Imported[legacy[i][1]] \in Names
         /\ \A p \in Procs : KnowsStore(p) /\ KeepsLines(p)
<1>1. /\ blob \in [1..Inodes -> Vault \cup {Torn}] /\ truth \in Vault
      /\ created \in 0..Inodes /\ secrets \in 0..Inodes /\ tmp \in 0..Inodes
      /\ legacy \in Seq(Lines) /\ Inodes \in Nat /\ TypeInv /\ TypeOK
  BY BoundsAssumption DEF StoreInv, TypeInv, TypeOK, Lines
<1>2. DOMAIN legacy = 1..Len(legacy) /\ Len(legacy) \in Nat
  BY <1>1
<1>3. \A i \in DOMAIN legacy : legacy[i] \in Lines
  BY <1>1, <1>2
<1>4. \A i \in DOMAIN legacy : legacy[i][1] \in Keys /\ Imported[legacy[i][1]] \in Names
  BY <1>3, NamesAssumption DEF Lines
<1>5. QED
  BY <1>1, <1>2, <1>4 DEF StoreInv

LEMMA StartKeeps ==
  ASSUME Alone, StoreInv, TypeInv', NEW p \in Procs, Starts(p)
  PROVE  StoreInv'
<1>1. PICK new, pw :
        /\ Becomes(p, new) /\ proc[p].pc = "idle" /\ new.pc = "open" /\ new.edits # <<>>
        /\ pw \in Passwords /\ new.vault = IF secrets = 0 THEN Fresh(pw) ELSE blob[secrets]
        /\ new.migrate => legacy # <<>> /\ new.edits = Imports(pw)
        /\ UNCHANGED <<blob, created, secrets, tmp, legacy, truth>>
  BY StartMoves, StoreTypes
<1>2. StoreIsExact'
  BY <1>1, StoreTypes DEF StoreIsExact
<1>3. secrets # 0 => new.vault = truth
  BY <1>1, StoreTypes DEF StoreIsExact
<1>4. ASSUME new.migrate
      PROVE  /\ \A j \in DOMAIN new.edits : new.edits[j].kind = "set"
             /\ \A i \in DOMAIN legacy :
                  \E j \in DOMAIN new.edits : new.edits[j].name = Imported[legacy[i][1]]
  BY <1>1, <1>4, ImportsType, StoreTypes
<1>5. QED
  BY <1>1, <1>2, <1>3, <1>4, StoreTypes, AloneMoves

LEMMA OpenKeeps ==
  ASSUME Alone, StoreInv, TypeInv', NEW p \in Procs, Open(p)
  PROVE  StoreInv'
<1>1. PICK new, i :
        /\ GoesOn(p, new) /\ proc[p].pc = "open" /\ new.pc = "write" /\ new.fd = i
        /\ i \in 1..Inodes /\ i = IF tmp = 0 THEN created + 1 ELSE tmp
        /\ blob' = [blob EXCEPT ![i] = Torn] /\ tmp' = i
        /\ created' = IF i > created THEN i ELSE created
        /\ UNCHANGED <<secrets, legacy, truth>>
  BY OpenMoves, StoreTypes
<1>2. i # secrets /\ i \in Nat /\ i # 0 /\ secrets <= created' /\ i <= created'
  BY <1>1, StoreTypes
<1>3. StoreIsExact'
  BY <1>1, <1>2, StoreApart
<1>4. blob'[i] = Torn
  BY <1>1, StoreTypes
<1>5. KnowsStore(p) /\ KeepsLines(p)
  BY StoreTypes
<1>6. secrets # 0 => new.vault = truth
  BY <1>1, <1>5 DEF KnowsStore, GoesOn, Writing
<1>7. new.migrate =>
        /\ \A j \in DOMAIN new.edits : new.edits[j].kind = "set"
        /\ \A k \in DOMAIN legacy :
             \/ new.vault.data[Imported[legacy[k][1]]] # NoSecret
             \/ \E j \in DOMAIN new.edits : new.edits[j].name = Imported[legacy[k][1]]
  BY <1>1, <1>5 DEF KeepsLines, GoesOn, Writing
<1>8. QED
  BY <1>1, <1>2, <1>3, <1>4, <1>6, <1>7, AloneMoves DEF GoesOn

LEMMA WriteKeeps ==
  ASSUME Alone, StoreInv, TypeInv', NEW p \in Procs, Write(p)
  PROVE  StoreInv'
<1>1. PICK new, content :
        /\ GoesOn(p, new) /\ proc[p].pc = "write" /\ new.pc = "replace"
        /\ content = Edited(p) \/ (content = Torn /\ blob[proc[p].fd] # Torn)
        /\ blob' = [blob EXCEPT ![proc[p].fd] = content]
        /\ UNCHANGED <<created, secrets, tmp, legacy, truth>>
  BY WriteMoves, StoreTypes
<1>2. KnowsStore(p) /\ KeepsLines(p)
  BY StoreTypes
<1>3. proc[p].fd = tmp /\ tmp \in 1..Inodes /\ tmp # 0 /\ tmp # secrets /\ blob[tmp] = Torn
  BY <1>1, <1>2, StoreTypes DEF KnowsStore
<1>4. content = Apply(new.vault, Head(new.edits))
  BY <1>1, <1>3 DEF Edited, GoesOn
<1>5. StoreIsExact' /\ blob'[tmp] = content
  BY <1>1, <1>3, StoreApart, StoreTypes
<1>6. secrets # 0 => new.vault = truth
  BY <1>1, <1>2 DEF KnowsStore, GoesOn, Writing
<1>7. new.migrate =>
        /\ \A j \in DOMAIN new.edits : new.edits[j].kind = "set"
        /\ \A k \in DOMAIN legacy :
             \/ new.vault.data[Imported[legacy[k][1]]] # NoSecret
             \/ \E j \in DOMAIN new.edits : new.edits[j].name = Imported[legacy[k][1]]
  BY <1>1, <1>2 DEF KeepsLines, GoesOn, Writing
<1>8. QED
  BY <1>1, <1>3, <1>4, <1>5, <1>6, <1>7, StoreTypes, AloneMoves DEF GoesOn

\* A secret that is in the map stays there, unless the edit removes it, and one
\* that is set is there.
LEMMA ApplyKeeps ==
  ASSUME NEW vault \in Vault, NEW e \in Edit, NEW n \in Names
  PROVE  /\ vault.data[n] # NoSecret /\ ~(e.kind = "rm" /\ e.name = n) =>
              Apply(vault, e).data[n] # NoSecret
         /\ e.kind = "set" /\ e.name = n => Apply(vault, e).data[n] # NoSecret
<1>1. e.value \in Values /\ e.value # NoSecret
  BY TornAssumption DEF Edit
<1>2. QED
  BY <1>1, ApplyType

LEMMA ReplaceKeeps ==
  ASSUME Alone, StoreInv, TypeInv', NEW p \in Procs, Replace(p)
  PROVE  StoreInv'
<1>1. PICK new :
        /\ Becomes(p, new) /\ proc[p].pc = "replace"
        /\ \/ tmp = 0 /\ new.pc = "idle" /\ UNCHANGED <<secrets, tmp, truth>>
           \/ Renames(p, new)
        /\ UNCHANGED <<blob, created, legacy>>
  BY ReplaceMoves, StoreTypes
<1>2. KnowsStore(p) /\ KeepsLines(p)
  BY StoreTypes
<1>3. Renames(p, new) /\ tmp # 0 /\ blob[tmp] = Edited(p)
  BY <1>1, <1>2 DEF KnowsStore
<1>4. PICK e \in Edit, rest \in Seq(Edit), vault \in Vault, edits \in Seq(Edit) :
        /\ edits = proc[p].edits /\ edits # <<>> /\ e = Head(edits) /\ rest = Tail(edits)
        /\ vault = proc[p].vault
  BY <1>1, EditedType, ProcType, StoreTypes DEF Writing, TypeInv, HasEdits
<1>5. /\ e = edits[1] /\ 1 \in DOMAIN edits
      /\ \A j \in DOMAIN rest : j + 1 \in DOMAIN edits /\ rest[j] = edits[j + 1]
      /\ \A j \in DOMAIN edits : j # 1 => j - 1 \in DOMAIN rest /\ rest[j - 1] = edits[j]
  <2>1. Len(edits) \in Nat /\ DOMAIN edits = 1..Len(edits) /\ Len(edits) >= 1
    BY <1>4, EmptySeq
  <2>2. Len(rest) = Len(edits) - 1 /\ DOMAIN rest = 1..(Len(edits) - 1)
        /\ \A j \in 1..Len(rest) : rest[j] = edits[j + 1]
    BY <1>4, <2>1, HeadTailProperties
  <2>3. QED
    BY <1>4, <2>1, <2>2
<1>6. PICK after \in Vault : after = Apply(vault, e)
  BY ApplyType
<1>7. Edited(p) = after /\ truth' = after
  <2>1. Edited(p) = after
    BY <1>4, <1>6 DEF Edited
  <2>2. secrets # 0 => truth = vault
    BY <1>1, <1>2, <1>4 DEF KnowsStore, Writing
  <2>3. truth' = Apply(IF secrets = 0 THEN vault ELSE truth, e)
    BY <1>3, <1>4 DEF Renames
  <2>4. QED
    BY <1>6, <2>1, <2>2, <2>3
<1>8. secrets' = tmp /\ tmp' = 0 /\ StoreIsExact'
  <2>1. secrets' = tmp /\ tmp' = 0
    BY <1>3 DEF Renames
  <2>2. QED
    BY <1>1, <1>3, <1>7, <2>1 DEF StoreIsExact
<1>9. secrets' <= created' /\ tmp' <= created'
  BY <1>1, <1>8, StoreTypes
<1>10. ASSUME proc[p].migrate, NEW i \in DOMAIN legacy, NEW n \in Names, n = Imported[legacy[i][1]]
       PROVE  \/ after.data[n] # NoSecret
              \/ \E j \in DOMAIN rest : rest[j].name = n
  <2>1. /\ \A j \in DOMAIN edits : edits[j].kind = "set"
        /\ vault.data[n] # NoSecret \/ \E j \in DOMAIN edits : edits[j].name = n
    BY <1>1, <1>2, <1>4, <1>10 DEF KeepsLines, Writing
  <2>2. e.kind = "set"
    BY <1>5, <2>1
  <2>3. CASE vault.data[n] # NoSecret \/ e.name = n
    BY <1>6, <2>2, <2>3, ApplyKeeps
  <2>4. CASE \E j \in DOMAIN edits : edits[j].name = n /\ j # 1
    BY <1>5, <2>4
  <2>5. QED
    BY <1>5, <2>1, <2>3, <2>4
<1>11. CASE new.pc = "open"
  <2>1. new.edits = rest /\ new.vault = after /\ new.migrate = proc[p].migrate
    BY <1>3, <1>4, <1>7, <1>11 DEF Renames
  <2>2. new.migrate =>
          /\ \A j \in DOMAIN rest : rest[j].kind = "set"
          /\ \A i \in DOMAIN legacy : LET n == Imported[legacy[i][1]] IN
               after.data[n] # NoSecret \/ \E j \in DOMAIN rest : rest[j].name = n
    <3>1. ASSUME new.migrate PROVE \A j \in DOMAIN rest : rest[j].kind = "set"
      BY <1>1, <1>2, <1>4, <1>5, <2>1, <3>1 DEF KeepsLines, Writing
    <3>2. QED
      BY <1>10, <2>1, <3>1, StoreTypes
  <2>3. QED
    BY <1>1, <1>7, <1>8, <1>9, <1>11, <2>1, <2>2, AloneMoves
<1>12. CASE new.pc = "rename"
  <2>1. rest = <<>> /\ proc[p].migrate
    BY <1>3, <1>4, <1>12 DEF Renames
  <2>2. \A i \in DOMAIN legacy : after.data[Imported[legacy[i][1]]] # NoSecret
    BY <1>10, <2>1, StoreTypes
  <2>3. QED
    BY <1>1, <1>3, <1>7, <1>8, <1>9, <1>12, <2>2, AloneMoves DEF Writing
<1>13. CASE new.pc = "idle"
  BY <1>1, <1>8, <1>9, <1>13, AloneMoves DEF Writing
<1>14. QED
  BY <1>3, <1>11, <1>12, <1>13 DEF Renames

LEMMA EndKeeps ==
  ASSUME Alone, StoreInv, TypeInv', NEW p \in Procs, RenameEnv(p) \/ Crash(p)
  PROVE  StoreInv'
<1>1. PICK new : /\ Becomes(p, new) /\ new.pc = "idle"
                 /\ UNCHANGED <<blob, created, secrets, tmp, truth>>
  BY EndMoves, StoreTypes
<1>2. StoreIsExact'
  BY <1>1, StoreTypes DEF StoreIsExact
<1>3. QED
  BY <1>1, <1>2, StoreTypes, AloneMoves DEF Writing

LEMMA NextStore == Alone /\ StoreInv /\ [Next]_vars => StoreInv'
<1> SUFFICES ASSUME Alone, StoreInv, [Next]_vars PROVE StoreInv'
  OBVIOUS
<1>1. TypeInv'
  BY StoreTypes, NextType
<1>2. CASE UNCHANGED vars
  BY <1>2 DEF vars, StoreInv, TypeInv, TypeOK, HasEdits, StoreIsExact, KnowsStore, KeepsLines,
              Edited
<1>3. QED
  BY <1>1, <1>2, StoreTypes, CommandStarts, StartKeeps, OpenKeeps, WriteKeeps, ReplaceKeeps,
     EndKeeps DEF Next

LEMMA InitStore == Init => StoreInv
<1> SUFFICES ASSUME Init PROVE StoreInv
  OBVIOUS
<1>1. TypeInv
  BY InitType
<1>2. \A p \in Procs : proc[p].pc = "idle"
  BY IdleType DEF Init
<1>3. QED
  BY <1>1, <1>2 DEF Init, StoreInv, StoreIsExact, KnowsStore, KeepsLines, Writing

\* As long as no two commands run at once, the file is what the finished rewrites
\* ask for, whichever of them is killed at which step (secretstore.py:235).
THEOREM StoreIsExactForOne == ASSUME Alone PROVE Spec => []StoreIsExact
<1>1. Init => StoreInv
  BY InitStore
<1>2. StoreInv /\ [Next]_vars => StoreInv'
  BY NextStore
<1>3. StoreInv => StoreIsExact
  BY StoreTypes
<1>4. QED
  BY <1>1, <1>2, <1>3, PTL DEF Spec

----------------------------------------------------------------------------
(* What is served.                                                         *)

\* The name a legacy variable is imported under is the name it is looked up for.
\* Names of lower-case letters, digits and hyphens are: config.py:55 makes the
\* variable of a name, and secretstore.py:297 the name of a variable.
ImportsBack == \A n \in Names : Imported[EnvKey[n]] = n

\* What a process started now can read.
LEMMA Readable ==
  ASSUME StoreInv, NEW n \in Names
  PROVE  Serves(n) <=> \/ secrets # 0 /\ truth.data[n] # NoSecret
                       \/ \E i \in DOMAIN legacy : legacy[i][1] = EnvKey[n]
<1>1. secrets # 0 => blob[secrets] = truth /\ truth # Torn
  BY StoreTypes, TornAssumption DEF StoreIsExact
<1>2. QED
  BY <1>1 DEF Serves

LEMMA NextServes ==
  ASSUME Alone, ImportsBack, StoreInv, [Next]_vars, NEW n \in Names, Serves(n)
  PROVE  Serves(n)' \/ Removing(n)
<1>1. StoreInv'
  BY NextStore
<1>2. Serves(n)' <=> \/ secrets' # 0 /\ truth'.data[n] # NoSecret
                     \/ \E i \in DOMAIN legacy' : legacy'[i][1] = EnvKey[n]
  <2>1. /\ Serves(n)' <=> \/ secrets' # 0 /\ blob'[secrets'] # Torn
                             /\ blob'[secrets'].data[n] # NoSecret
                          \/ \E i \in DOMAIN legacy' : legacy'[i][1] = EnvKey[n]
        /\ secrets' # 0 => blob'[secrets'] = truth'
        /\ truth' \in Vault
    BY <1>1 DEF Serves, StoreInv, StoreIsExact, TypeInv, TypeOK
  <2>2. QED
    BY <2>1, TornAssumption
<1>3. CASE UNCHANGED <<secrets, truth, legacy>>
  BY <1>2, <1>3, Readable
<1>4. ASSUME NEW p \in Procs, Replace(p)
      PROVE  Serves(n)' \/ Removing(n)
  <2>1. PICK new :
          /\ proc[p].pc = "replace" /\ legacy' = legacy
          /\ UNCHANGED <<secrets, truth>> \/ Renames(p, new)
    BY <1>4, ReplaceMoves, StoreTypes
  <2>2. CASE UNCHANGED <<secrets, truth>>
    BY <1>3, <2>1, <2>2
  <2>3. CASE secrets # 0 /\ truth.data[n] # NoSecret /\ Renames(p, new)
    <3>1. PICK e \in Edit : e = Head(proc[p].edits)
      BY <2>1, EditedType, StoreTypes DEF Writing
    <3>2. truth' = Apply(truth, e) /\ secrets' # 0
      BY <2>3, <3>1 DEF Renames
    <3>3. CASE e.kind = "rm" /\ e.name = n
      BY <2>1, <3>1, <3>3 DEF Removing
    <3>4. CASE ~(e.kind = "rm" /\ e.name = n)
      BY <1>2, <2>3, <3>2, <3>4, StoreTypes, ApplyKeeps
    <3>5. QED
      BY <3>3, <3>4
  <2>4. CASE \E i \in DOMAIN legacy : legacy[i][1] = EnvKey[n]
    BY <1>2, <2>1, <2>4
  <2>5. QED
    BY <2>1, <2>2, <2>3, <2>4, Readable
<1>5. ASSUME NEW p \in Procs, RenameEnv(p) \/ Crash(p)
      PROVE  Serves(n)'
  <2>1. /\ legacy' = legacy \/ (proc[p].pc = "rename" /\ legacy' = <<>>)
        /\ UNCHANGED <<secrets, truth>>
    BY <1>5, EndMoves, StoreTypes
  <2>2. CASE proc[p].pc = "rename" /\ ~(secrets # 0 /\ truth.data[n] # NoSecret)
    <3>1. PICK i \in DOMAIN legacy : legacy[i][1] = EnvKey[n]
      BY <2>2, Readable
    <3>2. secrets # 0 /\ truth.data[Imported[legacy[i][1]]] # NoSecret
      BY <2>2, StoreTypes DEF KeepsLines
    <3>3. QED
      BY <2>2, <3>1, <3>2 DEF ImportsBack
  <2>3. QED
    BY <1>2, <2>1, <2>2, Readable
<1>6. ASSUME NEW p \in Procs, Starts(p) \/ Open(p) \/ Write(p)
      PROVE  UNCHANGED <<secrets, truth, legacy>>
  BY <1>6 DEF Starts, Begin, Open, Write
<1>7. QED
  BY <1>3, <1>4, <1>5, <1>6, CommandStarts, StoreTypes DEF Next, vars

\* A target that has its secret keeps it through rotations, migrations and
\* crashes until someone removes it, for names that are imported as they are
\* looked up (secretstore.py:282).
THEOREM StaysServedForOne == ASSUME Alone, ImportsBack PROVE Spec => StaysServed
<1> DEFINE Kept == \A n \in Names : Serves(n) => Serves(n)' \/ Removing(n)
<1>1. Init => StoreInv
  BY InitStore
<1>2. StoreInv /\ [Next]_vars => StoreInv'
  BY NextStore
<1>3. StoreInv /\ [Next]_vars => [Kept]_vars
  BY NextServes
<1> HIDE DEF Kept
<1>4. Spec => [][Kept]_vars
  BY <1>1, <1>2, <1>3, PTL DEF Spec
<1>5. QED
  BY <1>4 DEF Kept, StaysServed
=============================================================================
