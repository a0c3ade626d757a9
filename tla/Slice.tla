------------------------------- MODULE Slice -------------------------------
(***************************************************************************)
(* One machine of a deployment as cli/slice.ts runs it: `slice up` and     *)
(* `slice down`, the guard that launchd keeps alive and that brings the    *)
(* stack back, the daily backup, `slice restore`, and the move of the      *)
(* master key into the keychain, with the server's own choice of key       *)
(* (server/src/config.ts).                                                 *)
(*                                                                         *)
(* The operator gives one command at a time.  The guard is a process of    *)
(* its own and runs `slice up` as a child it waits for, so two starts of   *)
(* the stack, and a start and a restore, can be under way together.        *)
(***************************************************************************)
EXTENDS Naturals, Sequences

CONSTANTS Keys,             \* master keys
          NoKey,
          Guarded,          \* BOOLEAN: autostart is installed
          MaxCommands,      \* the operator's commands
          MaxCrashes,       \* the server, the supervisor or Postgres dies
          MaxFaults,        \* a step of a command fails
          Keep              \* backups kept (14 in the code)

Starters == {"operator", "guard"}

VARIABLES postgres, supervisor, server,   \* running?
          database,         \* what the database holds
          backups,          \* the dumps in ~/.slice/backups, newest last
          envKey, keychain, \* KEY_ENCRYPTION_KEY's two homes
          serverKey,        \* the key the running server read at its start
          sealed,           \* the keys rows of the vault are sealed under
          up,               \* each starter's progress through `slice up`
          command,          \* the operator's other command, in progress
          restored,         \* what the last restore said, and what is there
          guard, due,       \* the guard's loop; is the daily work due?
          commands, crashes, faults

stackVars == <<postgres, supervisor, server, serverKey>>
keyVars == <<envKey, keychain, sealed>>
dataVars == <<database, backups, restored>>
guardVars == <<guard, due>>
countVars == <<commands, crashes, faults>>
vars == <<stackVars, keyVars, dataVars, guardVars, countVars, up, command>>

(***************************************************************************)
(* `init` wrote the first key; the stack has run and was backed up once.   *)
(***************************************************************************)
Init ==
  /\ postgres = FALSE /\ supervisor = FALSE /\ server = FALSE
  /\ database = "ours" /\ backups = <<"ours">>
  /\ \E k \in Keys : envKey = k /\ sealed = {k}
  /\ keychain = NoKey /\ serverKey = NoKey
  /\ up = [w \in Starters |-> "none"]
  /\ command = "none"
  /\ restored = [said |-> "nothing", is |-> "nothing"]
  /\ guard = IF Guarded THEN "look" ELSE "off"
  /\ due = TRUE
  /\ commands = 0 /\ crashes = 0 /\ faults = 0

Faulty == faults < MaxFaults /\ faults' = faults + 1

-----------------------------------------------------------------------------
(***************************************************************************)
(* `slice up`.  A database VM that is there but stopped is deleted and run *)
(* again on its volume.  Every step that fails ends the process.           *)
(***************************************************************************)
EnsurePostgres(w) ==
  /\ up[w] = "postgres"
  /\ postgres' = TRUE
  /\ up' = [up EXCEPT ![w] = "migrate"]
  /\ UNCHANGED <<supervisor, server, serverKey, keyVars, dataVars, guardVars,
                 countVars, command>>

Migrate(w) ==
  /\ up[w] = "migrate"
  /\ \/ /\ postgres /\ database # "gone"
        /\ database' = IF database = "blank" THEN "migrated" ELSE database
        /\ up' = [up EXCEPT ![w] = "supervisor"]
     \/ /\ ~postgres \/ database = "gone"
        /\ up' = [up EXCEPT ![w] = "none"]
        /\ UNCHANGED database
  /\ UNCHANGED <<stackVars, keyVars, backups, restored, guardVars, countVars,
                 command>>

StartSupervisor(w) ==
  /\ up[w] = "supervisor"
  /\ supervisor' = TRUE
  /\ up' = [up EXCEPT ![w] = "server"]
  /\ UNCHANGED <<postgres, server, serverKey, keyVars, dataVars, guardVars,
                 countVars, command>>

(***************************************************************************)
(* keyEncryptionKey: the env file first, the keychain when it has none.    *)
(***************************************************************************)
KeyEncryptionKey == IF envKey # NoKey THEN envKey ELSE keychain

(***************************************************************************)
(* A server that already answers is left alone; one that finds no key or   *)
(* no database dies at once and `up` gives up waiting for it.              *)
(***************************************************************************)
StartServer(w) ==
  /\ up[w] = "server"
  /\ IF server THEN UNCHANGED <<server, serverKey>>
     ELSE /\ server' = (postgres /\ database # "gone" /\ KeyEncryptionKey # NoKey)
          /\ serverKey' = IF server' THEN KeyEncryptionKey ELSE NoKey
  /\ up' = [up EXCEPT ![w] = "none"]
  /\ UNCHANGED <<postgres, supervisor, keyVars, dataVars, guardVars, countVars,
                 command>>

(***************************************************************************)
(* The server at work: it writes to whatever database is there, and seals  *)
(* a secret under the key it holds.                                        *)
(***************************************************************************)
ServerSeals ==
  /\ server /\ postgres /\ database # "gone"
  /\ sealed' = sealed \cup {serverKey}
  /\ database' = IF database \in {"blank", "migrated"} THEN "mixed" ELSE database
  /\ UNCHANGED <<stackVars, envKey, keychain, backups, restored, guardVars,
                 countVars, up, command>>

(***************************************************************************)
(* A process or the database's VM dies.  The server outlives its database: *)
(* it asks for a new connection with the next statement.                   *)
(***************************************************************************)
Crash ==
  /\ crashes < MaxCrashes /\ crashes' = crashes + 1
  /\ \/ /\ server /\ server' = FALSE /\ serverKey' = NoKey
        /\ UNCHANGED <<supervisor, postgres>>
     \/ /\ supervisor /\ supervisor' = FALSE
        /\ UNCHANGED <<server, serverKey, postgres>>
     \/ /\ postgres /\ postgres' = FALSE
        /\ UNCHANGED <<server, serverKey, supervisor>>
  /\ UNCHANGED <<keyVars, dataVars, guardVars, commands, faults, up, command>>

-----------------------------------------------------------------------------
(***************************************************************************)
(* The operator, at the terminal.                                          *)
(***************************************************************************)
MayCommand ==
  /\ command = "none" /\ up["operator"] = "none"
  /\ commands < MaxCommands /\ commands' = commands + 1

Up ==
  /\ MayCommand
  /\ up' = [up EXCEPT !["operator"] = "postgres"]
  /\ UNCHANGED <<stackVars, keyVars, dataVars, guardVars, crashes, faults,
                 command>>

(***************************************************************************)
(* `slice down`: three commands, each awaited.  The guard may find the     *)
(* server gone and start it again before the database is stopped.          *)
(***************************************************************************)
Down ==
  /\ MayCommand
  /\ supervisor' = FALSE /\ command' = "stop server"
  /\ UNCHANGED <<postgres, server, serverKey, keyVars, dataVars, guardVars,
                 crashes, faults, up>>

DownServer ==
  /\ command = "stop server"
  /\ server' = FALSE /\ serverKey' = NoKey /\ command' = "stop postgres"
  /\ UNCHANGED <<postgres, supervisor, keyVars, dataVars, guardVars, countVars, up>>

DownPostgres ==
  /\ command = "stop postgres"
  /\ postgres' = FALSE /\ command' = "none"
  /\ UNCHANGED <<supervisor, server, serverKey, keyVars, dataVars, guardVars,
                 countVars, up>>

(***************************************************************************)
(* backupCmd: dump, then keep the newest `Keep`.  Without a database there *)
(* is no dump and the process ends.                                        *)
(***************************************************************************)
CanDump == postgres /\ database # "gone"
Newest(s) == IF Len(s) > Keep THEN Tail(s) ELSE s
BackupCmd == backups' = Newest(Append(backups, database))

Backup ==
  /\ MayCommand
  /\ IF CanDump THEN BackupCmd ELSE UNCHANGED backups
  /\ UNCHANGED <<stackVars, keyVars, database, restored, guardVars, crashes,
                 faults, up, command>>

(***************************************************************************)
(* restoreCmd: refused while the server answers.                           *)
(***************************************************************************)
Restore ==
  /\ MayCommand
  /\ command' = IF server THEN "none" ELSE "drop"
  /\ UNCHANGED <<stackVars, keyVars, dataVars, guardVars, crashes, faults, up>>

(***************************************************************************)
(* Postgres does not drop a database that has sessions, which a running    *)
(* server does.                                                            *)
(***************************************************************************)
RestoreDrop ==
  /\ command = "drop"
  /\ \/ /\ postgres /\ ~server
        /\ database' = "gone" /\ command' = "recreate"
        /\ UNCHANGED faults
     \/ /\ \/ (~postgres \/ server) /\ UNCHANGED faults
           \/ Faulty
        /\ command' = "none" /\ UNCHANGED database
  /\ UNCHANGED <<stackVars, keyVars, backups, restored, guardVars, commands,
                 crashes, up>>

RestoreCreate ==
  /\ command = "recreate"
  /\ \/ postgres /\ database' = "blank" /\ command' = "load" /\ UNCHANGED faults
     \/ ~postgres /\ command' = "none" /\ UNCHANGED <<database, faults>>
     \/ Faulty /\ command' = "none" /\ UNCHANGED database
  /\ UNCHANGED <<stackVars, keyVars, backups, restored, guardVars, commands,
                 crashes, up>>

(***************************************************************************)
(* psql is given the dump and not told to stop at an error, so it succeeds *)
(* on a database somebody else has begun to fill.                          *)
(***************************************************************************)
RestoreLoad ==
  /\ command = "load"
  /\ \E i \in DOMAIN backups :
       LET dump == backups[i]
           got == IF database = "blank" THEN dump ELSE "mixed"
       IN \/ /\ postgres
             /\ database' = got
             /\ restored' = [said |-> dump, is |-> got]
          \/ ~postgres /\ UNCHANGED <<database, restored>>
  /\ command' = "none"
  /\ UNCHANGED <<stackVars, keyVars, backups, guardVars, countVars, up>>

(***************************************************************************)
(* `slice key keychain`: put it in, read it back, and only then take it    *)
(* out of the env file.                                                    *)
(***************************************************************************)
KeyKeychain ==
  /\ MayCommand
  /\ command' = IF envKey = NoKey THEN "none" ELSE "add key"
  /\ UNCHANGED <<stackVars, keyVars, dataVars, guardVars, crashes, faults, up>>

KeyAdd ==
  /\ command = "add key"
  /\ \/ keychain' = envKey /\ command' = "read key" /\ UNCHANGED faults
     \/ Faulty /\ command' = "none" /\ UNCHANGED keychain
     \/ Faulty /\ command' = "read key" /\ UNCHANGED keychain
  /\ UNCHANGED <<stackVars, envKey, sealed, dataVars, guardVars, commands,
                 crashes, up>>

KeyUnread ==
  /\ command = "read key"
  /\ command' = "strip key"
  /\ UNCHANGED <<stackVars, keyVars, dataVars, guardVars, countVars, up>>

KeyReadBack ==
  /\ command = "read key"
  /\ command' = IF keychain = envKey THEN "strip key" ELSE "none"
  /\ UNCHANGED <<stackVars, keyVars, dataVars, guardVars, countVars, up>>

KeyStrip ==
  /\ command = "strip key"
  /\ envKey' = NoKey /\ command' = "none"
  /\ UNCHANGED <<stackVars, keychain, sealed, dataVars, guardVars, countVars, up>>

-----------------------------------------------------------------------------
GuardLookOnce ==
  /\ guard = "look"
  /\ IF crashes = 0 /\ (~server \/ ~supervisor)
       THEN /\ up' = [up EXCEPT !["guard"] = "postgres"] /\ guard' = "boot"
       ELSE guard' = "daily" /\ UNCHANGED up
  /\ UNCHANGED <<stackVars, keyVars, dataVars, due, countVars, command>>

(***************************************************************************)
(* The guard: look, run `slice up` if either does not answer and wait for  *)
(* it, do the daily work if it is due, sleep, and look again.              *)
(***************************************************************************)
GuardLook ==
  /\ guard = "look"
  /\ IF ~server \/ ~supervisor
       THEN /\ up' = [up EXCEPT !["guard"] = "postgres"] /\ guard' = "boot"
       ELSE guard' = "daily" /\ UNCHANGED up
  /\ UNCHANGED <<stackVars, keyVars, dataVars, due, countVars, command>>

GuardBooted ==
  /\ guard = "boot" /\ up["guard"] = "none"
  /\ guard' = "daily"
  /\ UNCHANGED <<stackVars, keyVars, dataVars, due, countVars, up, command>>

(***************************************************************************)
(* A backup that fails exits the process, past the catch around it;        *)
(* launchd starts the guard again, and the daily work is due again.        *)
(***************************************************************************)
GuardDaily ==
  /\ guard = "daily"
  /\ due' = (due /\ ~CanDump)
  /\ IF due /\ CanDump THEN BackupCmd ELSE UNCHANGED backups
  /\ guard' = "look"
  /\ UNCHANGED <<stackVars, keyVars, database, restored, countVars, up, command>>

(***************************************************************************)
(* 24 hours since the last daily work.                                     *)
(***************************************************************************)
NewDay ==
  /\ guard = "look" /\ ~due
  /\ due' = TRUE
  /\ UNCHANGED <<stackVars, keyVars, dataVars, guard, countVars, up, command>>

-----------------------------------------------------------------------------
StackStep(w) == EnsurePostgres(w) \/ Migrate(w) \/ StartSupervisor(w) \/ StartServer(w)

Operator == \/ Up \/ Down \/ Backup \/ Restore \/ KeyKeychain
            \/ DownServer \/ DownPostgres
            \/ RestoreDrop \/ RestoreCreate \/ RestoreLoad
            \/ KeyAdd \/ KeyReadBack \/ KeyStrip

Keeper == GuardLook \/ GuardBooted \/ GuardDaily

Next == \/ \E w \in Starters : StackStep(w)
        \/ ServerSeals \/ Crash \/ Operator \/ Keeper \/ NewDay

(***************************************************************************)
(* The guard's loop turns and the child it waits for goes on; a command    *)
(* that was begun goes on too.  Nothing obliges the operator to give one.  *)
(***************************************************************************)
CommandStep == \/ DownServer \/ DownPostgres
               \/ RestoreDrop \/ RestoreCreate \/ RestoreLoad
               \/ KeyAdd \/ KeyReadBack \/ KeyStrip

Fairness ==
  /\ WF_vars(Keeper)
  /\ \A w \in Starters : WF_vars(StackStep(w))
  /\ WF_vars(CommandStep)

Spec == Init /\ [][Next]_vars /\ Fairness

-----------------------------------------------------------------------------
(***************************************************************************)
(* No key that rows of the vault are sealed under is ever lost: each is in *)
(* the env file or in the keychain, whichever step of the move failed, and *)
(* the server started next will read it.                                   *)
(* (keyCmd, keyEncryptionKey)                                              *)
(***************************************************************************)
KeyKept == \A k \in sealed : k = KeyEncryptionKey

(***************************************************************************)
(* The guard keeps the server and the supervisor alive: with autostart     *)
(* installed and no step of a restore failing, both are up in the end and  *)
(* stay so, after every crash and every `slice down`, whichever of its     *)
(* steps the guard woke up between.  Nothing is said of Postgres.          *)
(* (guardCmd: "if the server or supervisor is not answering")              *)
(***************************************************************************)
StackComesBack ==
  Guarded => <>[](database = "gone" \/ (server /\ supervisor))

(***************************************************************************)
(* The same of the whole stack, which guardCmd's comment claims: "so the   *)
(* stack outlives reboots and crashes".  It does not hold.  /health does   *)
(* not ask the database, so a Postgres that stops under a server that      *)
(* runs, by itself or by a `slice down` that the guard came between, is    *)
(* not noticed and not started again.                                      *)
(***************************************************************************)
StackOutlives ==
  Guarded => <>[](database = "gone" \/ (server /\ supervisor /\ postgres))

(***************************************************************************)
(* A restore that says it restored a dump leaves that dump in the database *)
(* and nothing else.  (restoreCmd: "Stop it first so the restore is not    *)
(* written to underneath.")                                                *)
(***************************************************************************)
RestoreIsWhole == restored.is = restored.said
=============================================================================
