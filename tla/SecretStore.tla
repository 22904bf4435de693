---------------------------- MODULE SecretStore ----------------------------
(***************************************************************************)
(* The encrypted credential store, secrets.enc, and the commands that      *)
(* rewrite it: secret set, rm, rotate-password and migrate.                *)
(*                                                                         *)
(* A process unlocks the store (reads and decrypts the whole file),        *)
(* derives a new map, and persists it: it opens secrets.enc.tmp, writes    *)
(* it, and renames it over secrets.enc.  There is no lock, and every       *)
(* process uses the same temporary name, so files are modelled as inodes:  *)
(* a rename moves the name and leaves open descriptors where they are.     *)
(* migrate does one such rewrite for each secret of the plaintext .env,    *)
(* and then renames the .env.                                              *)
(*                                                                         *)
(* Bounds: MaxCmds[p] commands of process p, Inodes temporary files.       *)
(* Abstractions: the key, the salt and the ciphertext of a file are the    *)
(* password that opens it and its map; commands that are refused (wrong    *)
(* password, no such secret, empty value) change nothing and are left out. *)
(***************************************************************************)
EXTENDS Naturals, Sequences

CONSTANTS
  Procs, MaxCmds,
  Names,      \* target names of config.yaml
  Keys,       \* what PROXY_<KEY>_SECRET can be in the environment
  EnvKey,     \* EnvKey[n]: the key _secret_env_key gives a name
  Imported,   \* Imported[k]: the name migrate_legacy_env gives a key
  Values,     \* secrets
  NoSecret,   \* the map has no entry for the name
  Passwords,  \* master passwords
  LegacyEnv,  \* the lines of .env when the store is first used: <<key, value>>
  Inodes,     \* bound: temporary files created
  Torn        \* what an opened and truncated file holds

Vault == [pw : Passwords, data : [Names -> Values \cup {NoSecret}]]

ASSUME NamesAssumption == EnvKey \in [Names -> Keys] /\ Imported \in [Keys -> Names]
ASSUME SecretsAssumption == Names # {} /\ Values # {} /\ Passwords # {}
ASSUME LegacyAssumption == LegacyEnv \in Seq(Keys \X Values)
ASSUME TornAssumption == Torn \notin Vault /\ NoSecret \notin Values
ASSUME BoundsAssumption == MaxCmds \in [Procs -> Nat] /\ Inodes \in Nat

VARIABLES
  blob,     \* blob[i]: what inode i holds
  created,  \* the number of inodes created
  secrets,  \* the inode named secrets.enc, or 0
  tmp,      \* the inode named secrets.enc.tmp, or 0
  legacy,   \* .env: its lines; empty once it has been renamed
  proc,     \* proc[p]: the command process p runs
  truth     \* history: the store the finished rewrites ask for, in their order

vars == <<blob, created, secrets, tmp, legacy, proc, truth>>

Edit == [kind : {"set", "rm", "rotate"}, name : Names, value : Values, pw : Passwords]

TypeOK ==
  /\ blob \in [1..Inodes -> Vault \cup {Torn}]
  /\ created \in 0..Inodes /\ secrets \in 0..Inodes /\ tmp \in 0..Inodes
  /\ legacy \in Seq(Keys \X Values)
  /\ proc \in [Procs -> [pc : {"idle", "open", "write", "replace", "rename"}, n : Nat,
                         edits : Seq(Edit), vault : Vault, fd : 0..Inodes,
                         migrate : BOOLEAN]]
  /\ truth \in Vault

Fresh(pw) == [pw |-> pw, data |-> [n \in Names |-> NoSecret]]
NoVault == Fresh(CHOOSE pw \in Passwords : TRUE)
Idle(n) == [pc |-> "idle", n |-> n, edits |-> <<>>, vault |-> NoVault, fd |-> 0,
            migrate |-> FALSE]

Init ==
  /\ blob = [i \in 1..Inodes |-> Torn] /\ created = 0
  /\ secrets = 0 /\ tmp = 0
  /\ legacy = LegacyEnv
  /\ proc = [p \in Procs |-> Idle(0)]
  /\ truth = NoVault
----------------------------------------------------------------------------
(* unlock, and the maps derived from it.                                   *)

\* A store that does not exist yet opens with any password.
Unlocked(pw) == IF secrets = 0 THEN Fresh(pw) ELSE blob[secrets]
Unlocks(pw) == Unlocked(pw) # Torn /\ Unlocked(pw).pw = pw

Forgotten(vault, e) ==  \* mutant: a rotation does not take the map along
  CASE e.kind = "set" -> [vault EXCEPT !.data[e.name] = e.value]
    [] e.kind = "rm" -> [vault EXCEPT !.data[e.name] = NoSecret]
    [] OTHER -> [pw |-> e.pw, data |-> NoSecret]
Apply(vault, e) ==
  CASE e.kind = "set" -> [vault EXCEPT !.data[e.name] = e.value]
    [] e.kind = "rm" -> [vault EXCEPT !.data[e.name] = NoSecret]
    [] OTHER -> [vault EXCEPT !.pw = e.pw]

\* A command has unlocked the store with pw and has these edits to make.
Begin(p, pw, edits, migrate) ==
  /\ proc[p].pc = "idle" /\ proc[p].n < MaxCmds[p]
  /\ Unlocks(pw)
  /\ proc' = [proc EXCEPT ![p] = [Idle(proc[p].n + 1) EXCEPT
                !.pc = "open", !.edits = edits, !.vault = Unlocked(pw),
                !.migrate = migrate]]
  /\ UNCHANGED <<blob, created, secrets, tmp, legacy, truth>>

SecretSet(p, pw, n, v) ==
  Begin(p, pw, <<[kind |-> "set", name |-> n, value |-> v, pw |-> pw]>>, FALSE)

SecretRm(p, pw, n) ==
  /\ Unlocks(pw) /\ Unlocked(pw).data[n] # NoSecret
  /\ Begin(p, pw, <<[kind |-> "rm", name |-> n, value |-> Unlocked(pw).data[n],
                     pw |-> pw]>>, FALSE)

\* The prompts for the new password come after the unlock.
RotatePassword(p, pw, new) ==
  Begin(p, pw, <<[kind |-> "rotate", name |-> CHOOSE n \in Names : TRUE,
                  value |-> CHOOSE v \in Values : TRUE, pw |-> new]>>, FALSE)

MigrateLegacyEnv(p, pw) ==
  /\ legacy # <<>>
  /\ Begin(p, pw, [i \in DOMAIN legacy |->
       [kind |-> "set", name |-> Imported[legacy[i][1]], value |-> legacy[i][2],
        pw |-> pw]], TRUE)
----------------------------------------------------------------------------
(* _persist, once for each edit.                                           *)

InPlace(p) ==  \* mutant: secrets.enc itself is opened for writing
  IF secrets = 0 THEN created + 1 ELSE secrets
Opened(p) == IF tmp = 0 THEN created + 1 ELSE tmp

\* write_text opens secrets.enc.tmp: a new file, or one that is truncated.
Open(p) ==
  LET i == Opened(p) IN
  /\ proc[p].pc = "open" /\ i <= Inodes
  /\ blob' = [blob EXCEPT ![i] = Torn]
  /\ created' = IF i > created THEN i ELSE created
  /\ tmp' = i
  /\ proc' = [proc EXCEPT ![p].pc = "write", ![p].fd = i]
  /\ UNCHANGED <<secrets, legacy, truth>>

\* The store after the next edit.
Edited(p) == Apply(proc[p].vault, Head(proc[p].edits))

\* ... and writes it: what another process wrote there since may stick out
\* behind the end.
Write(p) ==
  LET i == proc[p].fd IN
  /\ proc[p].pc = "write"
  /\ \E content \in {Edited(p)} \cup (IF blob[i] = Torn THEN {} ELSE {Torn}) :
       blob' = [blob EXCEPT ![i] = content]
  /\ proc' = [proc EXCEPT ![p].pc = "replace"]
  /\ UNCHANGED <<created, secrets, tmp, legacy, truth>>

\* tmp.replace(SECRETS_FILE); it fails when another process has renamed the file.
Replace(p) ==
  LET edit == Head(proc[p].edits)
      rest == Tail(proc[p].edits)
  IN
  /\ proc[p].pc = "replace"
  /\ \/ /\ tmp = 0
        /\ proc' = [proc EXCEPT ![p] = Idle(@.n)]
        /\ UNCHANGED <<secrets, tmp, truth>>
     \/ /\ tmp # 0
        /\ secrets' = tmp /\ tmp' = 0
        /\ truth' = Apply(IF secrets = 0 THEN proc[p].vault ELSE truth, edit)
        /\ proc' = [proc EXCEPT ![p] =
             CASE rest # <<>> -> [@ EXCEPT !.pc = "open", !.edits = rest,
                                           !.vault = Edited(p)]
               [] rest = <<>> /\ proc[p].migrate -> [@ EXCEPT !.pc = "rename"]
               [] OTHER -> Idle(@.n)]
  /\ UNCHANGED <<blob, created, legacy>>

\* The .env becomes .env.migrated once every secret is imported.
Early(p) ==  \* mutant: the .env is renamed before its last secret is imported
  proc[p].migrate /\ proc[p].pc = "open" /\ Len(proc[p].edits) = 1
AllImported(p) == proc[p].pc = "rename"
RenameEnv(p) ==
  /\ AllImported(p)
  /\ legacy' = <<>>
  /\ proc' = [proc EXCEPT ![p] = Idle(@.n)]
  /\ UNCHANGED <<blob, created, secrets, tmp, truth>>

\* The process is killed; its temporary file stays.
Crash(p) ==
  /\ proc[p].pc # "idle"
  /\ proc' = [proc EXCEPT ![p] = Idle(@.n)]
  /\ UNCHANGED <<blob, created, secrets, tmp, legacy, truth>>

Next == \E p \in Procs :
  \/ \E pw \in Passwords :
       \/ \E n \in Names : SecretRm(p, pw, n) \/ (\E v \in Values : SecretSet(p, pw, n, v))
       \/ \E new \in Passwords : RotatePassword(p, pw, new)
       \/ MigrateLegacyEnv(p, pw)
  \/ Open(p) \/ Write(p) \/ Replace(p) \/ RenameEnv(p) \/ Crash(p)

Spec == Init /\ [][Next]_vars
----------------------------------------------------------------------------
(* Properties.                                                             *)

\* The file is, at every moment and after every crash, exactly what the finished
\* rewrites ask for: readable, under the last password, with every secret set
\* and none removed (secretstore.py:131: "every mutation returns a new
\* SecretStore after re-encrypting to disk").
StoreIsExact == secrets # 0 => blob[secrets] = truth

\* _lookup_secret for a process started now, with what .env exports: the store
\* first, then the legacy variable.  A store that cannot be read counts as one
\* without the secret.
Serves(n) ==
  \/ secrets # 0 /\ blob[secrets] # Torn /\ blob[secrets].data[n] # NoSecret
  \/ \E i \in DOMAIN legacy : legacy[i][1] = EnvKey[n]

Removing(n) == \E p \in Procs : /\ proc[p].pc = "replace"
                                /\ Head(proc[p].edits).kind = "rm"
                                /\ Head(proc[p].edits).name = n

\* A target that has its secret keeps it, through rotations, migrations and
\* crashes, until someone removes it (secretstore.py:282: "so nothing is
\* silently lost").
StaysServed == [][\A n \in Names : Serves(n) => Serves(n)' \/ Removing(n)]_vars
=============================================================================
