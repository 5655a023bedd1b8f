-------------------------- MODULE AgentConfigProofs --------------------------
(***************************************************************************)
(* AgentConfig for every value of its constants: types and the lock, no    *)
(* remote server left on disk, and refreshes that take effect.             *)
(*                                                                         *)
(* The inductive invariant follows a boot or refresh from step to step.    *)
(* RemoteInv says which of nairid's directory and the CLI's config a boot  *)
(* has rid of remote servers, and that whatever runs after it, gateway     *)
(* checks and CLIs included, starts without any and adds none.  StoreInv   *)
(* and FilesInv say what a refresh has made of what the backend listed for *)
(* it; that the re-probe does not come between rests on the lock, which is *)
(* part of ConfigTypeOK.                                                   *)
(***************************************************************************)
EXTENDS AgentConfig, TLAPS

Workers == {"main", "reprobe"}

(* Where a worker may be; the last set only without the lock. *)
MainSteps ==
  {"off", "idle", "setup", "lock", "clean", "list", "download", "rules", "mark", "mcp",
   "record", "forget", "skills", "permissions", "permit"}
ReprobeSteps ==
  {"off", "wait", "lock", "check", "clean", "list", "download", "mcp", "record", "forget"}

WorkerRecords ==
  [pc : MainSteps \cup ReprobeSteps, boot : BOOLEAN, fresh : Setups,
   pending : SUBSET Artifacts, offered : SUBSET Artifacts, seen : Configs, sure : BOOLEAN]

TypeInv ==
  /\ ConfigTypeOK
  /\ worker \in [Workers -> WorkerRecords]
  /\ worker["main"].pc \in MainSteps
  /\ worker["reprobe"].pc \in ReprobeSteps

(* A boot runs alone: neither the re-probe nor a CLI is there before it is  *)
(* over.  A file that does not parse has no servers to be found.           *)
BootInv ==
  /\ At("main", "off") => InMain.boot
  /\ At("main", "idle") => ~InMain.boot
  /\ InMain.boot => At("reprobe", "off") /\ cli.pc = "none"
  /\ InMain.boot /\ InMain.pc \in {"setup", "lock"} => setup = NoSetup
  /\ config.state = "broken" => config.servers = {}

Locked == (MainSteps \cup ReprobeSteps) \ Unlocked
Cleaned == Locked \ {"clean"}
Written == {"record", "forget", "skills", "permissions", "permit"}

(* What a boot has reached, every later step keeps. *)
RemoteInv ==
  hosting # "selfHosted" =>
    /\ ~InMain.boot =>
         setup.stdioOnly /\ "remote" \notin store /\ "remote" \notin config.servers
    /\ "remote" \notin cli.copy.servers
    /\ InMain.boot /\ At("main", "lock") => InMain.fresh.stdioOnly
    /\ InMain.pc \in Locked => setup.stdioOnly
    /\ InMain.pc \in Cleaned => "remote" \notin store
    /\ InMain.pc \in Written => "remote" \notin config.servers
    /\ At("main", "permit") => "remote" \notin InMain.seen.servers

Stripped(s) == IF s.stdioOnly THEN {"remote"} ELSE {}

(* nairid's directories while the main goroutine holds the lock. *)
StoreInv ==
  /\ At("main", "list") => store = {}
  /\ At("main", "download") =>
       /\ InMain.pending \subseteq InMain.offered
       /\ store = (InMain.offered \ InMain.pending) \ Stripped(setup)
  /\ InMain.pc \in Written \cup {"rules", "mark", "mcp"} =>
       store = InMain.offered \ Stripped(setup)
  /\ At("main", "mark") => "rule" \in store

(* The CLI's files meanwhile, unless a CLI wrote over one or an earlier     *)
(* write went unrecorded.                                                  *)
FilesInv ==
  InMain.sure =>
    /\ InMain.pc \in Locked \ Written => deployed \/ config.servers \subseteq {"users"}
    /\ InMain.pc \in {"clean", "list", "download", "rules"} => rules # "unmarked"
    /\ InMain.pc \in Written \cup {"mcp"} =>
         (rules \notin {"none", "users"} <=> "rule" \in InMain.offered)
    /\ InMain.pc \in Written =>
         (IF At("main", "permit") THEN InMain.seen ELSE config).servers \ {"users"}
           = Wanted(setup, InMain.offered \cap Servers)
    /\ InMain.pc \in {"permissions", "permit"} =>
         (skills <=> "skill" \in InMain.offered)

(* Bounds are counted down and not below zero: a step that fails shows.   *)
BudgetInv == budget \in [Budgets -> Nat]

IInv ==
  /\ TypeInv
  /\ BootInv
  /\ RemoteInv
  /\ StoreInv
  /\ FilesInv
  /\ BudgetInv

-----------------------------------------------------------------------------
(* Shapes and moves. *)

(* What the constants of the model are. *)
LEMMA SetupShapes ==
  /\ NoSetup \in Setups /\ ~NoSetup.nairi /\ ~NoSetup.stdioOnly
  /\ failClosedAgentMCP \in Setups /\ failClosedAgentMCP.stdioOnly
  /\ [failClosedAgentMCP EXCEPT !.reprobe = TRUE] \in Setups
  /\ [failClosedAgentMCP EXCEPT !.reprobe = TRUE].stdioOnly
  /\ OnGateway \in Setups /\ OnGateway.nairi
  /\ OnGateway.stdioOnly <=> hosting # "selfHosted"
  BY DEF NoSetup, failClosedAgentMCP, OnGateway, Setups

LEMMA ConfigShapes ==
  /\ Absent \in Configs /\ Absent.servers = {} /\ Absent.state = "absent"
  /\ Broken \in Configs /\ Broken.servers = {} /\ Broken.state = "broken"
  /\ \A S \in SUBSET Entries :
       Whole(S) \in Configs /\ Whole(S).servers = S /\ Whole(S).state = "whole"
  BY DEF Absent, Broken, Whole, Configs

LEMMA IdleShape ==
  /\ Idle \in WorkerRecords /\ Idle.pc = "off" /\ Idle.boot /\ Idle.fresh = NoSetup
  /\ Idle.pending = {} /\ Idle.offered = {} /\ Idle.seen = Absent /\ ~Idle.sure
  BY SetupShapes, ConfigShapes DEF Idle, WorkerRecords, MainSteps

LEMMA CliShape ==
  NoCli \in [pc : {"none", "launched", "running"}, allowed : SUBSET Entries, copy : Configs]
  /\ NoCli.pc = "none" /\ NoCli.copy = Absent
  BY ConfigShapes DEF NoCli

LEMMA WantedShape ==
  ASSUME NEW s \in Setups, NEW S \in SUBSET Servers
  PROVE  /\ Wanted(s, S) \in SUBSET Entries
         /\ "users" \notin Wanted(s, S)
         /\ s.stdioOnly => "remote" \notin Wanted(s, S)
  BY DEF Wanted, Setups, Entries, Servers

(* A step of worker p that changes no more than its position. *)
Moved(p, pc) ==
  /\ worker' \in [Workers -> WorkerRecords]
  /\ worker'[p].pc = pc
  /\ worker'[p].boot = worker[p].boot /\ worker'[p].fresh = worker[p].fresh
  /\ worker'[p].pending = worker[p].pending /\ worker'[p].offered = worker[p].offered
  /\ worker'[p].seen = worker[p].seen /\ worker'[p].sure = worker[p].sure
  /\ \A q \in Workers : q # p => worker'[q] = worker[q]

LEMMA GoMoves ==
  ASSUME TypeInv, NEW p \in Workers, NEW pc \in MainSteps \cup ReprobeSteps, Go(p, pc)
  PROVE  Moved(p, pc)
  BY DEF TypeInv, Go, Moved, WorkerRecords

LEMMA AbandonMoves ==
  ASSUME TypeInv, NEW p \in Workers, worker[p].pc \in Locked, Abandon(p)
  PROVE  /\ Moved(p, IF p = "reprobe" THEN "wait" ELSE IF InMain.boot THEN "off" ELSE "idle")
         /\ mu' = "none"
  BY GoMoves DEF Abandon, MainSteps, ReprobeSteps

LEMMA AfterMCPMoves ==
  ASSUME TypeInv, NEW p \in Workers, AfterMCP(p)
  PROVE  \/ p = "main" /\ Moved(p, "skills") /\ mu' = mu /\ setup' = setup
         \/ p = "reprobe" /\ Moved(p, "wait") /\ mu' = "none" /\ setup' = SetupOf(p)
  BY GoMoves DEF AfterMCP, Workers, MainSteps, ReprobeSteps

LEMMA SetupOfShape ==
  ASSUME TypeInv, NEW p \in Workers
  PROVE  /\ SetupOf(p) \in Setups
         /\ agentMCPServers(SetupOf(p)) \in SUBSET Entries
         /\ "users" \notin agentMCPServers(SetupOf(p))
         /\ SetupOf(p).stdioOnly => "remote" \notin agentMCPServers(SetupOf(p))
<1>1. SetupOf(p) \in Setups
  BY SetupShapes DEF SetupOf, TypeInv, ConfigTypeOK
<1>2. QED
  BY <1>1, WantedShape DEF agentMCPServers

(* The MCP step as it leaves the config: nothing is written and the step   *)
(* fails, or the section of servers is what the setup asks for.            *)
Gave(p) == worker[p].pc = "mcp" /\ config' = config /\ Abandon(p) /\ setup' = setup

Wrote(p) ==
  /\ \/ \E pc \in {"record", "forget"} : Go(p, pc) /\ mu' = mu /\ setup' = setup
     \/ AfterMCP(p)
  /\ config' \in Configs
  /\ config'.state = "broken" => config'.servers = {}
  /\ SetupOf(p).stdioOnly => config'.servers = agentMCPServers(SetupOf(p))
  /\ deployed \/ config.servers \subseteq {"users"} =>
       config'.servers \ {"users"} = agentMCPServers(SetupOf(p))

LEMMA WriteServersShape ==
  ASSUME TypeInv, NEW S \in SUBSET Entries, WriteServers(S)
  PROVE  config' \in Configs /\ config'.servers = S /\ config'.state = "whole"
<1>1. (config.state = "whole" /\ config.permission) \in BOOLEAN
  BY DEF TypeInv, ConfigTypeOK, Configs
<1>2. QED
  BY <1>1, ConfigShapes DEF WriteServers, Configs

LEMMA MCPEffect ==
  ASSUME TypeInv, BootInv, NEW p \in Workers, ProcessMCPConfigs(p)
  PROVE  Gave(p) \/ Wrote(p)
<1> DEFINE servers == agentMCPServers(SetupOf(p))
<1>1. servers \in SUBSET Entries /\ "users" \notin servers
  BY SetupOfShape
<1>2. config \in Configs /\ config.servers \in SUBSET Entries
  BY DEF TypeInv, ConfigTypeOK, Configs
<1>3. CASE agentType = "codex" /\ ProcessCodex(p, servers)
  <2>1. PICK S \in {servers, config.servers} :
          /\ WriteServers(S)
          /\ SetupOf(p).stdioOnly \/ deployed \/ servers # {} => S = servers
    BY <1>3 DEF ProcessCodex
  <2>2. config' \in Configs /\ config'.servers = S /\ config'.state = "whole"
    BY <1>1, <1>2, <2>1, WriteServersShape
  <2>3. \/ \E pc \in {"record", "forget"} : Go(p, pc) /\ mu' = mu /\ setup' = setup
        \/ AfterMCP(p)
    BY <1>3 DEF ProcessCodex
  <2>4. ~deployed /\ config.servers \subseteq {"users"} => S \ {"users"} = servers
    BY <1>1, <2>1
  <2>5. QED
    BY <1>1, <2>1, <2>2, <2>3, <2>4 DEF Wrote
<1>4. CASE agentType # "codex" /\ servers = {} /\ ~SetupOf(p).stdioOnly
           /\ clearDeployedJSONMCP(p)
  <2>1. CASE deployed /\ config.state # "broken"
    <3>1. config' = [config EXCEPT !.servers = {}] /\ Go(p, "forget") /\ mu' = mu /\ setup' = setup
      BY <1>4, <2>1 DEF clearDeployedJSONMCP
    <3>2. config' \in Configs /\ config'.servers = {}
      BY <1>2, <3>1 DEF Configs
    <3>3. QED
      BY <1>4, <3>1, <3>2 DEF Wrote
  <2>2. CASE ~(deployed /\ config.state # "broken")
    <3>1. config' = config /\ AfterMCP(p)
      BY <1>4, <2>2 DEF clearDeployedJSONMCP
    <3>2. config.state = "broken" => config.servers = {}
      BY DEF BootInv
    <3>3. QED
      BY <1>2, <1>4, <2>2, <3>1, <3>2 DEF Wrote
  <2>3. QED
    BY <2>1, <2>2
<1>5. CASE agentType # "codex" /\ WriteServers(servers) /\ Go(p, "record") /\ mu' = mu /\ setup' = setup
  <2>1. config' \in Configs /\ config'.servers = servers /\ config'.state = "whole"
    BY <1>1, <1>5, WriteServersShape
  <2>2. QED
    BY <1>1, <1>5, <2>1 DEF Wrote
<1>6. CASE config' = config /\ setup' = setup /\ Abandon(p)
  BY <1>6 DEF ProcessMCPConfigs, Gave, At
<1>7. QED
  BY <1>3, <1>4, <1>5, <1>6 DEF ProcessMCPConfigs

(* The steps that set more of a worker than its position. *)
Sure == (deployed \/ config.servers \subseteq {"users"}) /\ rules # "unmarked"

LEMMA LockMoves ==
  ASSUME TypeInv, NEW p \in Workers, Lock(p)
  PROVE  /\ worker' \in [Workers -> WorkerRecords]
         /\ worker'[p].pc = IF p = "reprobe" /\ setup.nairi THEN "check" ELSE "clean"
         /\ worker'[p].boot = worker[p].boot /\ (worker'[p].sure <=> Sure)
         /\ \A q \in Workers : q # p => worker'[q] = worker[q]
<1> DEFINE pc == IF p = "reprobe" /\ setup.nairi THEN "check" ELSE "clean"
<1>1. PICK b \in BOOLEAN : b <=> Sure
  OBVIOUS
<1>2. worker' = [worker EXCEPT ![p].pc = pc, ![p].sure = b]
  BY <1>1 DEF Lock, Sure
<1>3. pc \in MainSteps \cup ReprobeSteps
  BY DEF MainSteps, ReprobeSteps
<1> HIDE DEF pc
<1>4. QED
  BY <1>1, <1>2, <1>3, ZenonT(60) DEF TypeInv, WorkerRecords, pc

LEMMA SetupMoves ==
  ASSUME TypeInv, setupAgentMCP
  PROVE  /\ worker' \in [Workers -> WorkerRecords]
         /\ worker'["main"].pc = "lock" /\ worker'["main"].boot = worker["main"].boot
         /\ worker'["main"].sure = worker["main"].sure
         /\ hosting # "selfHosted" => worker'["main"].fresh.stdioOnly
         /\ worker'["reprobe"] = worker["reprobe"]
<1>1. PICK fresh \in {failClosedAgentMCP, [failClosedAgentMCP EXCEPT !.reprobe = TRUE], NoSetup,
                      OnGateway} :
        /\ worker' = [worker EXCEPT !["main"].pc = "lock", !["main"].fresh = fresh]
        /\ hosting # "selfHosted" => fresh # NoSetup
  BY SetupShapes DEF setupAgentMCP
<1>2. fresh \in Setups /\ (hosting # "selfHosted" => fresh.stdioOnly)
  BY <1>1, SetupShapes
<1>3. QED
  BY <1>1, <1>2 DEF TypeInv, WorkerRecords, Workers, MainSteps

LEMMA SkillsMoves ==
  ASSUME TypeInv, ProcessSkills
  PROVE  /\ skills' \in BOOLEAN
         /\ \/ Go("main", "permissions") /\ mu' = mu /\ (skills' <=> "skill" \in store)
            \/ /\ worker' = [worker EXCEPT !["main"].pc = "permissions", !["main"].sure = FALSE]
               /\ mu' = mu
            \/ Abandon("main")
<1>1. CASE skills' = ("skill" \in store) /\ Go("main", "permissions") /\ UNCHANGED <<mu, budget>>
  <2>1. ("skill" \in store) \in BOOLEAN
    OBVIOUS
  <2>2. skills' \in BOOLEAN /\ (skills' <=> "skill" \in store)
    BY <1>1, <2>1
  <2>3. QED
    BY <1>1, <2>2
<1>2. CASE skills' = FALSE /\ Abandon("main")
  BY <1>2
<1>3. CASE /\ skills' \in {FALSE, skills} /\ UNCHANGED mu
           /\ worker' = [worker EXCEPT !["main"].pc = "permissions", !["main"].sure = FALSE]
  BY <1>3 DEF TypeInv, ConfigTypeOK
<1>4. QED
  BY <1>1, <1>2, <1>3 DEF ProcessSkills

LEMMA SucceedMoves ==
  ASSUME TypeInv, Succeed
  PROVE  /\ worker' \in [Workers -> WorkerRecords]
         /\ worker'["main"].pc = "idle" /\ ~worker'["main"].boot
         /\ worker'["reprobe"].pc = IF InMain.boot /\ setup.reprobe THEN "wait" ELSE worker["reprobe"].pc
         /\ worker'["reprobe"].boot = worker["reprobe"].boot
         /\ worker'["reprobe"].sure = worker["reprobe"].sure
         /\ mu' = "none" /\ budget' = budget
  BY DEF TypeInv, WorkerRecords, Workers, MainSteps, ReprobeSteps, Succeed

LEMMA PermitShape ==
  ASSUME TypeInv
  PROVE  /\ [Whole(InMain.seen.servers) EXCEPT !.permission = TRUE] \in Configs
         /\ [Whole(InMain.seen.servers) EXCEPT !.permission = TRUE].servers = InMain.seen.servers
         /\ [Whole(InMain.seen.servers) EXCEPT !.permission = TRUE].state = "whole"
<1>1. InMain.seen.servers \in SUBSET Entries
  BY DEF TypeInv, WorkerRecords, Workers, InMain, Configs
<1>2. QED
  BY <1>1, ConfigShapes DEF Configs

(* The last round of the download, and one of its rounds.                  *)
Downloaded(p) ==
  /\ worker[p].pending = {} /\ Go(p, IF p = "main" THEN "rules" ELSE "mcp")
  /\ store' = store /\ mu' = mu

Downloads(p, a) ==
  /\ worker' = [worker EXCEPT ![p].pending = @ \ {a}]
  /\ store' = store \cup Kept(p, a) /\ mu' = mu

LEMMA DownloadCases ==
  ASSUME NEW p \in Workers, FetchAndStoreArtifact(p)
  PROVE  \/ Downloaded(p)
         \/ \E a \in worker[p].pending : Downloads(p, a)
         \/ store' = store /\ Abandon(p)
  BY DEF FetchAndStoreArtifact, Downloaded, Downloads

LEMMA DownloadMoves ==
  ASSUME TypeInv, NEW p \in Workers, NEW a \in worker[p].pending,
         FetchAndStoreArtifact(p), Downloads(p, a)
  PROVE  /\ worker' \in [Workers -> WorkerRecords]
         /\ worker'[p].pc = "download" /\ worker'[p].boot = worker[p].boot
         /\ worker'[p].fresh = worker[p].fresh /\ worker'[p].seen = worker[p].seen
         /\ worker'[p].pending = worker[p].pending \ {a}
         /\ worker'[p].offered = worker[p].offered /\ worker'[p].sure = worker[p].sure
         /\ \A q \in Workers : q # p => worker'[q] = worker[q]
         /\ store' = store \cup Kept(p, a) /\ mu' = mu
<1>1. worker[p] \in WorkerRecords /\ worker[p].pc = "download"
  BY DEF TypeInv, FetchAndStoreArtifact, At
<1>2. worker' = [worker EXCEPT ![p] = [worker[p] EXCEPT !.pending = worker[p].pending \ {a}]]
  BY DEF Downloads
<1>3. [worker[p] EXCEPT !.pending = worker[p].pending \ {a}] \in WorkerRecords
  BY <1>1 DEF WorkerRecords
<1>4. QED
  BY <1>1, <1>2, <1>3 DEF TypeInv, WorkerRecords, Downloads

-----------------------------------------------------------------------------
(* One lemma per part of the invariant, one step per action. *)

LEMMA TypeStep ==
  ASSUME TypeInv, BootInv, [ConfigNext]_configVars
  PROVE  TypeInv'
<1> USE DEF At, Go, Spend, Abandon, InMain, Workers, TypeInv, ConfigTypeOK,
       WorkerRecords, MainSteps, ReprobeSteps, Unlocked, givenVars, outsideVars,
       fileVars
<1>1. ASSUME NEW p \in Workers, Lock(p) PROVE TypeInv'
  <2>1. /\ setup' \in Setups /\ mu = "none" /\ mu' = p
        /\ IF p = "main" THEN worker'[p].pc = "clean" ELSE worker'[p].pc \in {"check", "clean"}
    BY <1>1, LockMoves DEF Lock
  <2>2. worker' \in [Workers -> WorkerRecords] /\ \A q \in Workers : q # p => worker'[q] = worker[q]
    BY <1>1, LockMoves
  <2>3. QED
    BY <1>1, <2>1, <2>2 DEF Lock
<1>2. ASSUME NEW p \in Workers, Clean(p) PROVE TypeInv'
  BY <1>2 DEF Clean
<1>3. ASSUME NEW p \in Workers, FetchArtifacts(p) PROVE TypeInv'
  BY <1>3 DEF FetchArtifacts
<1>4. ASSUME NEW p \in Workers, FetchAndStoreArtifact(p) PROVE TypeInv'
  <2>1. /\ worker' \in [Workers -> WorkerRecords]
        /\ worker'["main"].pc \in MainSteps /\ worker'["reprobe"].pc \in ReprobeSteps
    BY <1>4 DEF FetchAndStoreArtifact, Kept
  <2>2. \A q \in Workers : mu' = q <=> worker'[q].pc \notin Unlocked
    BY <1>4 DEF FetchAndStoreArtifact, Kept
  <2>3. QED
    BY <1>4, <2>1, <2>2 DEF FetchAndStoreArtifact, Kept
<1>5. ASSUME NEW p \in Workers, ProcessMCPConfigs(p) PROVE TypeInv'
  <2>1. Gave(p) \/ Wrote(p)
    BY <1>5, MCPEffect
  <2>2. CASE Gave(p)
    BY <1>5, <2>2 DEF ProcessMCPConfigs, Gave
  <2>3. CASE Wrote(p)
    <3>1. CASE \E pc \in {"record", "forget"} : Go(p, pc) /\ mu' = mu /\ setup' = setup
      BY <1>5, <2>3, <3>1 DEF ProcessMCPConfigs, Wrote
    <3>2. CASE AfterMCP(p)
      BY <1>5, <2>3, <3>2, AfterMCPMoves, SetupOfShape DEF ProcessMCPConfigs, Wrote, Moved
    <3>3. QED
      BY <2>3, <3>1, <3>2 DEF Wrote
  <2>4. QED
    BY <2>1, <2>2, <2>3
<1>6. ASSUME NEW p \in Workers, RecordMCPDeployed(p) PROVE TypeInv'
  <2>1. CASE deployed' = At(p, "record") /\ AfterMCP(p)
    BY <1>6, <2>1, AfterMCPMoves, SetupOfShape DEF RecordMCPDeployed, Moved
  <2>2. CASE UNCHANGED <<deployed, setup>> /\ Abandon(p)
    BY <1>6, <2>2 DEF RecordMCPDeployed
  <2>3. QED
    BY <1>6, <2>1, <2>2 DEF RecordMCPDeployed
<1>7. ASSUME Boot PROVE TypeInv'
  <2>1. At("reprobe", "off") /\ worker'["main"].pc = "setup" /\ worker'["reprobe"].pc = "off"
    BY <1>7, IdleShape DEF Boot, BootInv
  <2>2. worker' \in [Workers -> WorkerRecords]
    BY <1>7, IdleShape DEF Boot
  <2>3. QED
    BY <1>7, <2>1, <2>2, SetupShapes DEF Boot
<1>8. ASSUME setupAgentMCP PROVE TypeInv'
  <2>1. /\ worker' \in [Workers -> WorkerRecords] /\ worker'["main"].pc = "lock"
        /\ worker'["reprobe"] = worker["reprobe"]
    BY <1>8, SetupMoves
  <2>2. gatewayClient' \in BOOLEAN /\ mu' = mu
    BY <1>8 DEF setupAgentMCP
  <2>3. QED
    BY <1>8, <2>1, <2>2 DEF setupAgentMCP
<1>9. ASSUME ProcessRules PROVE TypeInv'
  BY <1>9 DEF ProcessRules
<1>10. ASSUME MarkRules PROVE TypeInv'
  BY <1>10, ConfigShapes DEF MarkRules
<1>11. ASSUME ProcessSkills PROVE TypeInv'
  <2>1. /\ At("main", "skills") /\ skills' \in BOOLEAN
        /\ UNCHANGED <<givenVars, outsideVars, gatewayClient, setup, store, config, deployed, rules, cli>>
    BY <1>11, SkillsMoves DEF ProcessSkills
  <2>2. CASE Go("main", "permissions") /\ mu' = mu
    BY <2>1, <2>2
  <2>3. CASE /\ worker' = [worker EXCEPT !["main"].pc = "permissions", !["main"].sure = FALSE]
             /\ mu' = mu
    <3>1. /\ worker' \in [Workers -> WorkerRecords]
          /\ worker'["main"].pc = "permissions" /\ worker'["reprobe"] = worker["reprobe"]
      BY <2>3, ZenonT(60) DEF MainSteps
    <3>2. QED
      BY <2>1, <2>3, <3>1
  <2>4. CASE Abandon("main")
    BY <2>1, <2>4
  <2>5. QED
    BY <1>11, <2>2, <2>3, <2>4, SkillsMoves
<1>12. ASSUME ProcessPermissions PROVE TypeInv'
  BY <1>12, ConfigShapes DEF ProcessPermissions, Succeed
<1>13. ASSUME WritePermissions PROVE TypeInv'
  <2>1. config' \in Configs
    BY <1>13, PermitShape DEF WritePermissions
  <2>2. CASE Succeed
    BY <1>13, <2>1, <2>2, SucceedMoves DEF WritePermissions
  <2>3. CASE Abandon("main")
    BY <1>13, <2>1, <2>3 DEF WritePermissions
  <2>4. QED
    BY <1>13, <2>2, <2>3 DEF WritePermissions
<1>14. ASSUME Tick PROVE TypeInv'
  BY <1>14 DEF Tick
<1>15. ASSUME HasNairiMCPEntry PROVE TypeInv'
  BY <1>15 DEF HasNairiMCPEntry
<1>16. ASSUME StartRefresh PROVE TypeInv'
  <2>1. /\ worker' \in [Workers -> WorkerRecords]
        /\ worker'["main"].pc \in MainSteps /\ worker'["reprobe"].pc \in ReprobeSteps
    BY <1>16, IdleShape DEF StartRefresh
  <2>2. \A q \in Workers : mu' = q <=> worker'[q].pc \notin Unlocked
    BY <1>16 DEF StartRefresh
  <2>3. QED
    BY <1>16, <2>1, <2>2, IdleShape DEF StartRefresh
<1>17. ASSUME claudeAllowRules PROVE TypeInv'
  BY <1>17, CliShape, WantedShape, ZenonT(60) DEF claudeAllowRules, agentMCPServers
<1>18. ASSUME ReadConfig PROVE TypeInv'
  <2>1. /\ worker' \in [Workers -> WorkerRecords]
        /\ worker'["main"].pc \in MainSteps /\ worker'["reprobe"].pc \in ReprobeSteps
    BY <1>18 DEF ReadConfig
  <2>2. \A q \in Workers : mu' = q <=> worker'[q].pc \notin Unlocked
    BY <1>18 DEF ReadConfig
  <2>3. QED
    BY <1>18, <2>1, <2>2 DEF ReadConfig
<1>19. ASSUME WriteBack PROVE TypeInv'
  <2>1. /\ worker' \in [Workers -> WorkerRecords]
        /\ worker'["main"].pc \in MainSteps /\ worker'["reprobe"].pc \in ReprobeSteps
    BY <1>19, ZenonT(60) DEF WriteBack
  <2>2. \A q \in Workers : mu' = q <=> worker'[q].pc \notin Unlocked
    BY <1>19 DEF WriteBack
  <2>3. QED
    BY <1>19, <2>1, <2>2 DEF WriteBack
<1>20. ASSUME EndRun PROVE TypeInv'
  BY <1>20, CliShape DEF EndRun
<1>21. ASSUME BackendChanges PROVE TypeInv'
  <2>1. /\ worker' \in [Workers -> WorkerRecords]
        /\ worker'["main"].pc \in MainSteps /\ worker'["reprobe"].pc \in ReprobeSteps
    BY <1>21 DEF BackendChanges
  <2>2. \A q \in Workers : mu' = q <=> worker'[q].pc \notin Unlocked
    BY <1>21 DEF BackendChanges
  <2>3. QED
    BY <1>21, <2>1, <2>2 DEF BackendChanges
<1>22. ASSUME Crash PROVE TypeInv'
  BY <1>22, IdleShape, CliShape DEF Crash
<1>23. ASSUME UNCHANGED configVars PROVE TypeInv'
  BY <1>23 DEF configVars
<1> QED
  BY <1>1, <1>2, <1>3, <1>4, <1>5, <1>6, <1>7, <1>8, <1>9, <1>10, <1>11, <1>12,
     <1>13, <1>14, <1>15, <1>16, <1>17, <1>18, <1>19, <1>20, <1>21, <1>22, <1>23
  DEF ConfigNext, Main, reprobeGateway, Shared

LEMMA BootStep ==
  ASSUME TypeInv, BootInv, [ConfigNext]_configVars
  PROVE  BootInv'
<1> USE DEF At, Go, Spend, Abandon, InMain, Workers, TypeInv, ConfigTypeOK,
       WorkerRecords, MainSteps, ReprobeSteps, Unlocked, givenVars, outsideVars,
       fileVars
<1>1. ASSUME NEW p \in Workers, Lock(p) PROVE BootInv'
  BY <1>1, LockMoves, SetupShapes DEF Lock, Sure, BootInv
<1>2. ASSUME NEW p \in Workers, Clean(p) PROVE BootInv'
  BY <1>2 DEF Clean, BootInv
<1>3. ASSUME NEW p \in Workers, FetchArtifacts(p) PROVE BootInv'
  BY <1>3 DEF FetchArtifacts, BootInv
<1>4. ASSUME NEW p \in Workers, FetchAndStoreArtifact(p) PROVE BootInv'
  <2>1. CASE Downloaded(p)
    BY <1>4, <2>1 DEF FetchAndStoreArtifact, Downloaded, BootInv
  <2>2. ASSUME NEW a \in worker[p].pending, Downloads(p, a) PROVE BootInv'
    <3>1. CASE p = "main"
      BY <1>4, <2>2, <3>1, SetupShapes, DownloadMoves
      DEF FetchAndStoreArtifact, Kept, SetupOf, BootInv
    <3>2. CASE p = "reprobe"
      BY <1>4, <2>2, <3>2, SetupShapes, DownloadMoves
      DEF FetchAndStoreArtifact, Kept, SetupOf, BootInv
    <3>3. QED
      BY <3>1, <3>2
  <2>3. CASE store' = store /\ Abandon(p)
    BY <1>4, <2>3 DEF FetchAndStoreArtifact, BootInv
  <2>4. QED
    BY <1>4, <2>1, <2>2, <2>3, DownloadCases
<1>5. ASSUME NEW p \in Workers, ProcessMCPConfigs(p) PROVE BootInv'
  <2>1. Gave(p) \/ Wrote(p)
    BY <1>5, MCPEffect
  <2>2. CASE Gave(p)
    BY <1>5, <2>2 DEF ProcessMCPConfigs, Gave, BootInv
  <2>3. CASE Wrote(p)
    <3>1. CASE \E pc \in {"record", "forget"} : Go(p, pc) /\ mu' = mu /\ setup' = setup
      BY <1>5, <2>3, <3>1, SetupShapes, SetupOfShape
      DEF ProcessMCPConfigs, Wrote, SetupOf, BootInv
    <3>2. CASE AfterMCP(p)
      BY <1>5, <2>3, <3>2, AfterMCPMoves, SetupShapes, SetupOfShape
      DEF ProcessMCPConfigs, Wrote, Moved, SetupOf, BootInv
    <3>3. QED
      BY <2>3, <3>1, <3>2 DEF Wrote
  <2>4. QED
    BY <2>1, <2>2, <2>3
<1>6. ASSUME NEW p \in Workers, RecordMCPDeployed(p) PROVE BootInv'
  <2>1. CASE deployed' = At(p, "record") /\ AfterMCP(p)
    BY <1>6, <2>1, AfterMCPMoves, SetupShapes DEF RecordMCPDeployed, Moved, SetupOf, BootInv
  <2>2. CASE UNCHANGED <<deployed, setup>> /\ Abandon(p)
    BY <1>6, <2>2 DEF RecordMCPDeployed, BootInv
  <2>3. QED
    BY <1>6, <2>1, <2>2 DEF RecordMCPDeployed
<1>7. ASSUME Boot PROVE BootInv'
  BY <1>7, IdleShape, SetupShapes DEF Boot, BootInv
<1>8. ASSUME setupAgentMCP PROVE BootInv'
  BY <1>8, SetupMoves DEF setupAgentMCP, BootInv
<1>9. ASSUME ProcessRules PROVE BootInv'
  BY <1>9 DEF ProcessRules, BootInv
<1>10. ASSUME MarkRules PROVE BootInv'
  BY <1>10, ConfigShapes DEF MarkRules, BootInv
<1>11. ASSUME ProcessSkills PROVE BootInv'
  <2>1. /\ At("main", "skills")
        /\ UNCHANGED <<givenVars, outsideVars, gatewayClient, setup, store, config, deployed, rules, cli>>
    BY <1>11 DEF ProcessSkills
  <2>2. CASE Go("main", "permissions") /\ (skills' <=> "skill" \in store)
    BY <2>1, <2>2 DEF Go, BootInv
  <2>3. CASE worker' = [worker EXCEPT !["main"].pc = "permissions", !["main"].sure = FALSE]
    BY <2>1, <2>3 DEF BootInv
  <2>4. CASE Abandon("main")
    BY <2>1, <2>4 DEF Abandon, BootInv
  <2>5. QED
    BY <1>11, <2>2, <2>3, <2>4, SkillsMoves
<1>12. ASSUME ProcessPermissions PROVE BootInv'
  BY <1>12, ConfigShapes, SucceedMoves DEF ProcessPermissions, BootInv
<1>13. ASSUME WritePermissions PROVE BootInv'
  <2>1. CASE Succeed /\ config' = [Whole(InMain.seen.servers) EXCEPT !.permission = TRUE]
    BY <1>13, <2>1, SucceedMoves, PermitShape DEF WritePermissions, BootInv
  <2>2. CASE config' = config /\ Abandon("main")
    BY <1>13, <2>2 DEF WritePermissions, BootInv
  <2>3. QED
    BY <1>13, <2>1, <2>2 DEF WritePermissions
<1>14. ASSUME Tick PROVE BootInv'
  BY <1>14 DEF Tick, BootInv
<1>15. ASSUME HasNairiMCPEntry PROVE BootInv'
  BY <1>15 DEF HasNairiMCPEntry, BootInv
<1>16. ASSUME StartRefresh PROVE BootInv'
  BY <1>16, IdleShape DEF StartRefresh, BootInv
<1>17. ASSUME claudeAllowRules PROVE BootInv'
  BY <1>17, CliShape, ConfigShapes DEF claudeAllowRules, BootInv
<1>18. ASSUME ReadConfig PROVE BootInv'
  BY <1>18 DEF ReadConfig, BootInv
<1>19. ASSUME WriteBack PROVE BootInv'
  BY <1>19 DEF WriteBack, BootInv
<1>20. ASSUME EndRun PROVE BootInv'
  BY <1>20, CliShape, ConfigShapes DEF EndRun, BootInv
<1>21. ASSUME BackendChanges PROVE BootInv'
  BY <1>21 DEF BackendChanges, BootInv
<1>22. ASSUME Crash PROVE BootInv'
  BY <1>22, IdleShape, CliShape, ConfigShapes DEF Crash, BootInv
<1>23. ASSUME UNCHANGED configVars PROVE BootInv'
  BY <1>23 DEF configVars, BootInv
<1> QED
  BY <1>1, <1>2, <1>3, <1>4, <1>5, <1>6, <1>7, <1>8, <1>9, <1>10, <1>11, <1>12,
     <1>13, <1>14, <1>15, <1>16, <1>17, <1>18, <1>19, <1>20, <1>21, <1>22, <1>23
  DEF ConfigNext, Main, reprobeGateway, Shared

LEMMA RemoteStep ==
  ASSUME TypeInv, BootInv, RemoteInv, [ConfigNext]_configVars
  PROVE  RemoteInv'
<1> USE DEF At, Go, Spend, Abandon, InMain, Workers, TypeInv, ConfigTypeOK,
       WorkerRecords, MainSteps, ReprobeSteps, Unlocked, givenVars, outsideVars,
       fileVars, Locked, Cleaned, Written
<1>1. ASSUME NEW p \in Workers, Lock(p) PROVE RemoteInv'
  BY <1>1, LockMoves, SetupShapes DEF Lock, Sure, BootInv, RemoteInv
<1>2. ASSUME NEW p \in Workers, Clean(p) PROVE RemoteInv'
  BY <1>2 DEF Clean, BootInv, RemoteInv
<1>3. ASSUME NEW p \in Workers, FetchArtifacts(p) PROVE RemoteInv'
  BY <1>3 DEF FetchArtifacts, BootInv, RemoteInv
<1>4. ASSUME NEW p \in Workers, FetchAndStoreArtifact(p) PROVE RemoteInv'
  <2>1. CASE Downloaded(p)
    BY <1>4, <2>1 DEF FetchAndStoreArtifact, Downloaded, BootInv, RemoteInv
  <2>2. ASSUME NEW a \in worker[p].pending, Downloads(p, a) PROVE RemoteInv'
    <3>1. CASE p = "main"
      BY <1>4, <2>2, <3>1, SetupShapes, DownloadMoves
      DEF FetchAndStoreArtifact, Kept, SetupOf, BootInv, RemoteInv
    <3>2. CASE p = "reprobe"
      BY <1>4, <2>2, <3>2, SetupShapes, DownloadMoves
      DEF FetchAndStoreArtifact, Kept, SetupOf, BootInv, RemoteInv
    <3>3. QED
      BY <3>1, <3>2
  <2>3. CASE store' = store /\ Abandon(p)
    BY <1>4, <2>3 DEF FetchAndStoreArtifact, BootInv, RemoteInv
  <2>4. QED
    BY <1>4, <2>1, <2>2, <2>3, DownloadCases
<1>5. ASSUME NEW p \in Workers, ProcessMCPConfigs(p) PROVE RemoteInv'
  <2>1. Gave(p) \/ Wrote(p)
    BY <1>5, MCPEffect
  <2>2. CASE Gave(p)
    BY <1>5, <2>2 DEF ProcessMCPConfigs, Gave, BootInv, RemoteInv
  <2>3. CASE Wrote(p)
    <3>1. CASE \E pc \in {"record", "forget"} : Go(p, pc) /\ mu' = mu /\ setup' = setup
      BY <1>5, <2>3, <3>1, SetupShapes, SetupOfShape
      DEF ProcessMCPConfigs, Wrote, SetupOf, BootInv, RemoteInv
    <3>2. CASE AfterMCP(p)
      BY <1>5, <2>3, <3>2, AfterMCPMoves, SetupShapes, SetupOfShape
      DEF ProcessMCPConfigs, Wrote, Moved, SetupOf, BootInv, RemoteInv
    <3>3. QED
      BY <2>3, <3>1, <3>2 DEF Wrote
  <2>4. QED
    BY <2>1, <2>2, <2>3
<1>6. ASSUME NEW p \in Workers, RecordMCPDeployed(p) PROVE RemoteInv'
  <2>1. CASE deployed' = At(p, "record") /\ AfterMCP(p)
    BY <1>6, <2>1, AfterMCPMoves, SetupShapes
    DEF RecordMCPDeployed, Moved, SetupOf, BootInv, RemoteInv
  <2>2. CASE UNCHANGED <<deployed, setup>> /\ Abandon(p)
    BY <1>6, <2>2 DEF RecordMCPDeployed, BootInv, RemoteInv
  <2>3. QED
    BY <1>6, <2>1, <2>2 DEF RecordMCPDeployed
<1>7. ASSUME Boot PROVE RemoteInv'
  BY <1>7, IdleShape, SetupShapes DEF Boot, BootInv, RemoteInv
<1>8. ASSUME setupAgentMCP PROVE RemoteInv'
  BY <1>8, SetupMoves DEF setupAgentMCP, BootInv, RemoteInv
<1>9. ASSUME ProcessRules PROVE RemoteInv'
  BY <1>9 DEF ProcessRules, BootInv, RemoteInv
<1>10. ASSUME MarkRules PROVE RemoteInv'
  BY <1>10, ConfigShapes DEF MarkRules, BootInv, RemoteInv
<1>11. ASSUME ProcessSkills PROVE RemoteInv'
  <2>1. /\ At("main", "skills")
        /\ UNCHANGED <<givenVars, outsideVars, gatewayClient, setup, store, config, deployed, rules, cli>>
    BY <1>11 DEF ProcessSkills
  <2>2. CASE Go("main", "permissions") /\ (skills' <=> "skill" \in store)
    BY <2>1, <2>2 DEF Go, BootInv, RemoteInv
  <2>3. CASE worker' = [worker EXCEPT !["main"].pc = "permissions", !["main"].sure = FALSE]
    BY <2>1, <2>3 DEF BootInv, RemoteInv
  <2>4. CASE Abandon("main")
    BY <2>1, <2>4 DEF Abandon, BootInv, RemoteInv
  <2>5. QED
    BY <1>11, <2>2, <2>3, <2>4, SkillsMoves
<1>12. ASSUME ProcessPermissions PROVE RemoteInv'
  BY <1>12, ConfigShapes, SucceedMoves DEF ProcessPermissions, BootInv, RemoteInv
<1>13. ASSUME WritePermissions PROVE RemoteInv'
  <2>1. CASE Succeed /\ config' = [Whole(InMain.seen.servers) EXCEPT !.permission = TRUE]
    BY <1>13, <2>1, SucceedMoves, PermitShape DEF WritePermissions, BootInv, RemoteInv
  <2>2. CASE config' = config /\ Abandon("main")
    BY <1>13, <2>2 DEF WritePermissions, BootInv, RemoteInv
  <2>3. QED
    BY <1>13, <2>1, <2>2 DEF WritePermissions
<1>14. ASSUME Tick PROVE RemoteInv'
  BY <1>14 DEF Tick, BootInv, RemoteInv
<1>15. ASSUME HasNairiMCPEntry PROVE RemoteInv'
  BY <1>15 DEF HasNairiMCPEntry, BootInv, RemoteInv
<1>16. ASSUME StartRefresh PROVE RemoteInv'
  BY <1>16, IdleShape DEF StartRefresh, BootInv, RemoteInv
<1>17. ASSUME claudeAllowRules PROVE RemoteInv'
  BY <1>17, CliShape, ConfigShapes DEF claudeAllowRules, BootInv, RemoteInv
<1>18. ASSUME ReadConfig PROVE RemoteInv'
  BY <1>18 DEF ReadConfig, BootInv, RemoteInv
<1>19. ASSUME WriteBack PROVE RemoteInv'
  BY <1>19 DEF WriteBack, BootInv, RemoteInv
<1>20. ASSUME EndRun PROVE RemoteInv'
  BY <1>20, CliShape, ConfigShapes DEF EndRun, BootInv, RemoteInv
<1>21. ASSUME BackendChanges PROVE RemoteInv'
  BY <1>21 DEF BackendChanges, BootInv, RemoteInv
<1>22. ASSUME Crash PROVE RemoteInv'
  BY <1>22, IdleShape, CliShape, ConfigShapes DEF Crash, BootInv, RemoteInv
<1>23. ASSUME UNCHANGED configVars PROVE RemoteInv'
  BY <1>23 DEF configVars, BootInv, RemoteInv
<1> QED
  BY <1>1, <1>2, <1>3, <1>4, <1>5, <1>6, <1>7, <1>8, <1>9, <1>10, <1>11, <1>12,
     <1>13, <1>14, <1>15, <1>16, <1>17, <1>18, <1>19, <1>20, <1>21, <1>22, <1>23
  DEF ConfigNext, Main, reprobeGateway, Shared

LEMMA StoreStep ==
  ASSUME TypeInv, BootInv, StoreInv, [ConfigNext]_configVars
  PROVE  StoreInv'
<1> USE DEF At, Go, Spend, Abandon, InMain, Workers, TypeInv, ConfigTypeOK,
       WorkerRecords, MainSteps, ReprobeSteps, Unlocked, givenVars, outsideVars,
       fileVars, Written
<1>1. ASSUME NEW p \in Workers, Lock(p) PROVE StoreInv'
  BY <1>1, LockMoves, SetupShapes DEF Lock, Sure, StoreInv, Stripped
<1>2. ASSUME NEW p \in Workers, Clean(p) PROVE StoreInv'
  BY <1>2 DEF Clean, StoreInv, Stripped
<1>3. ASSUME NEW p \in Workers, FetchArtifacts(p) PROVE StoreInv'
  BY <1>3 DEF FetchArtifacts, StoreInv, Stripped
<1>4. ASSUME NEW p \in Workers, FetchAndStoreArtifact(p) PROVE StoreInv'
  <2>1. CASE Downloaded(p)
    BY <1>4, <2>1 DEF FetchAndStoreArtifact, Downloaded, StoreInv, Stripped
  <2>2. ASSUME NEW a \in worker[p].pending, Downloads(p, a) PROVE StoreInv'
    <3>1. CASE p = "main"
      <4>1. /\ InMain'.pc = "download" /\ InMain'.offered = InMain.offered
            /\ InMain'.pending = InMain.pending \ {a}
            /\ store' = store \cup ({a} \ Stripped(setup)) /\ setup' = setup
        BY <1>4, <2>2, <3>1, DownloadMoves
        DEF FetchAndStoreArtifact, Kept, SetupOf, Stripped
      <4>2. /\ a \in InMain.pending /\ InMain.pending \subseteq InMain.offered
            /\ store = (InMain.offered \ InMain.pending) \ Stripped(setup)
        BY <1>4, <3>1 DEF FetchAndStoreArtifact, StoreInv
      <4>3. store' = (InMain'.offered \ InMain'.pending) \ Stripped(setup')
        BY <4>1, <4>2
      <4>4. QED
        BY <4>1, <4>2, <4>3 DEF StoreInv
    <3>2. CASE p = "reprobe"
      BY <1>4, <2>2, <3>2, SetupShapes, DownloadMoves
      DEF FetchAndStoreArtifact, Kept, SetupOf, StoreInv, Stripped
    <3>3. QED
      BY <3>1, <3>2
  <2>3. CASE store' = store /\ Abandon(p)
    BY <1>4, <2>3 DEF FetchAndStoreArtifact, StoreInv, Stripped
  <2>4. QED
    BY <1>4, <2>1, <2>2, <2>3, DownloadCases
<1>5. ASSUME NEW p \in Workers, ProcessMCPConfigs(p) PROVE StoreInv'
  <2>1. Gave(p) \/ Wrote(p)
    BY <1>5, MCPEffect
  <2>2. CASE Gave(p)
    BY <1>5, <2>2 DEF ProcessMCPConfigs, Gave, StoreInv, Stripped
  <2>3. CASE Wrote(p)
    <3>1. CASE \E pc \in {"record", "forget"} : Go(p, pc) /\ mu' = mu /\ setup' = setup
      BY <1>5, <2>3, <3>1, SetupShapes, SetupOfShape
      DEF ProcessMCPConfigs, Wrote, SetupOf, StoreInv, Stripped
    <3>2. CASE AfterMCP(p)
      BY <1>5, <2>3, <3>2, AfterMCPMoves, SetupShapes, SetupOfShape
      DEF ProcessMCPConfigs, Wrote, Moved, SetupOf, StoreInv, Stripped
    <3>3. QED
      BY <2>3, <3>1, <3>2 DEF Wrote
  <2>4. QED
    BY <2>1, <2>2, <2>3
<1>6. ASSUME NEW p \in Workers, RecordMCPDeployed(p) PROVE StoreInv'
  <2>1. CASE deployed' = At(p, "record") /\ AfterMCP(p)
    BY <1>6, <2>1, AfterMCPMoves, SetupShapes
    DEF RecordMCPDeployed, Moved, SetupOf, StoreInv, Stripped
  <2>2. CASE UNCHANGED <<deployed, setup>> /\ Abandon(p)
    BY <1>6, <2>2 DEF RecordMCPDeployed, StoreInv, Stripped
  <2>3. QED
    BY <1>6, <2>1, <2>2 DEF RecordMCPDeployed
<1>7. ASSUME Boot PROVE StoreInv'
  BY <1>7, IdleShape, SetupShapes DEF Boot, StoreInv, Stripped
<1>8. ASSUME setupAgentMCP PROVE StoreInv'
  BY <1>8, SetupMoves DEF setupAgentMCP, StoreInv, Stripped
<1>9. ASSUME ProcessRules PROVE StoreInv'
  BY <1>9 DEF ProcessRules, StoreInv, Stripped
<1>10. ASSUME MarkRules PROVE StoreInv'
  BY <1>10, ConfigShapes DEF MarkRules, StoreInv, Stripped
<1>11. ASSUME ProcessSkills PROVE StoreInv'
  <2>1. /\ At("main", "skills")
        /\ UNCHANGED <<givenVars, outsideVars, gatewayClient, setup, store, config, deployed, rules, cli>>
    BY <1>11 DEF ProcessSkills
  <2>2. CASE Go("main", "permissions") /\ (skills' <=> "skill" \in store)
    BY <2>1, <2>2 DEF Go, StoreInv, Stripped
  <2>3. CASE worker' = [worker EXCEPT !["main"].pc = "permissions", !["main"].sure = FALSE]
    BY <2>1, <2>3 DEF StoreInv, Stripped
  <2>4. CASE Abandon("main")
    BY <2>1, <2>4 DEF Abandon, StoreInv, Stripped
  <2>5. QED
    BY <1>11, <2>2, <2>3, <2>4, SkillsMoves
<1>12. ASSUME ProcessPermissions PROVE StoreInv'
  BY <1>12, ConfigShapes, SucceedMoves DEF ProcessPermissions, StoreInv, Stripped
<1>13. ASSUME WritePermissions PROVE StoreInv'
  <2>1. CASE Succeed /\ config' = [Whole(InMain.seen.servers) EXCEPT !.permission = TRUE]
    BY <1>13, <2>1, SucceedMoves, PermitShape DEF WritePermissions, StoreInv, Stripped
  <2>2. CASE config' = config /\ Abandon("main")
    BY <1>13, <2>2 DEF WritePermissions, StoreInv, Stripped
  <2>3. QED
    BY <1>13, <2>1, <2>2 DEF WritePermissions
<1>14. ASSUME Tick PROVE StoreInv'
  BY <1>14 DEF Tick, StoreInv, Stripped
<1>15. ASSUME HasNairiMCPEntry PROVE StoreInv'
  BY <1>15 DEF HasNairiMCPEntry, StoreInv, Stripped
<1>16. ASSUME StartRefresh PROVE StoreInv'
  BY <1>16, IdleShape DEF StartRefresh, StoreInv, Stripped
<1>17. ASSUME claudeAllowRules PROVE StoreInv'
  BY <1>17, CliShape, ConfigShapes DEF claudeAllowRules, StoreInv, Stripped
<1>18. ASSUME ReadConfig PROVE StoreInv'
  BY <1>18 DEF ReadConfig, StoreInv, Stripped
<1>19. ASSUME WriteBack PROVE StoreInv'
  BY <1>19 DEF WriteBack, StoreInv, Stripped
<1>20. ASSUME EndRun PROVE StoreInv'
  BY <1>20, CliShape, ConfigShapes DEF EndRun, StoreInv, Stripped
<1>21. ASSUME BackendChanges PROVE StoreInv'
  BY <1>21 DEF BackendChanges, StoreInv, Stripped
<1>22. ASSUME Crash PROVE StoreInv'
  BY <1>22, IdleShape, CliShape, ConfigShapes DEF Crash, StoreInv, Stripped
<1>23. ASSUME UNCHANGED configVars PROVE StoreInv'
  BY <1>23 DEF configVars, StoreInv, Stripped
<1> QED
  BY <1>1, <1>2, <1>3, <1>4, <1>5, <1>6, <1>7, <1>8, <1>9, <1>10, <1>11, <1>12,
     <1>13, <1>14, <1>15, <1>16, <1>17, <1>18, <1>19, <1>20, <1>21, <1>22, <1>23
  DEF ConfigNext, Main, reprobeGateway, Shared

LEMMA FilesStep ==
  ASSUME TypeInv, BootInv, StoreInv, FilesInv, [ConfigNext]_configVars
  PROVE  FilesInv'
<1> USE DEF At, Go, Spend, Abandon, InMain, Workers, TypeInv, ConfigTypeOK,
       WorkerRecords, MainSteps, ReprobeSteps, Unlocked, givenVars, outsideVars,
       fileVars, Locked, Written
<1>1. ASSUME NEW p \in Workers, Lock(p) PROVE FilesInv'
  BY <1>1, LockMoves, SetupShapes DEF Lock, Sure, StoreInv, FilesInv, Stripped
<1>2. ASSUME NEW p \in Workers, Clean(p) PROVE FilesInv'
  BY <1>2 DEF Clean, StoreInv, FilesInv, Stripped
<1>3. ASSUME NEW p \in Workers, FetchArtifacts(p) PROVE FilesInv'
  BY <1>3 DEF FetchArtifacts, StoreInv, FilesInv, Stripped
<1>4. ASSUME NEW p \in Workers, FetchAndStoreArtifact(p) PROVE FilesInv'
  <2>1. CASE Downloaded(p)
    BY <1>4, <2>1 DEF FetchAndStoreArtifact, Downloaded, StoreInv, FilesInv, Stripped
  <2>2. ASSUME NEW a \in worker[p].pending, Downloads(p, a) PROVE FilesInv'
    <3>1. CASE p = "main"
      BY <1>4, <2>2, <3>1, SetupShapes, DownloadMoves
      DEF FetchAndStoreArtifact, Kept, SetupOf, StoreInv, FilesInv, Stripped
    <3>2. CASE p = "reprobe"
      BY <1>4, <2>2, <3>2, SetupShapes, DownloadMoves
      DEF FetchAndStoreArtifact, Kept, SetupOf, StoreInv, FilesInv, Stripped
    <3>3. QED
      BY <3>1, <3>2
  <2>3. CASE store' = store /\ Abandon(p)
    BY <1>4, <2>3 DEF FetchAndStoreArtifact, StoreInv, FilesInv, Stripped
  <2>4. QED
    BY <1>4, <2>1, <2>2, <2>3, DownloadCases
<1>5. ASSUME NEW p \in Workers, ProcessMCPConfigs(p) PROVE FilesInv'
  <2>1. Gave(p) \/ Wrote(p)
    BY <1>5, MCPEffect
  <2>2. CASE Gave(p)
    BY <1>5, <2>2 DEF ProcessMCPConfigs, Gave, FilesInv
  <2>3. CASE Wrote(p) /\ p = "reprobe"
    <3>1. InMain.pc \notin Locked /\ InMain' = InMain
      BY <1>5, <2>3, AfterMCPMoves DEF ProcessMCPConfigs, Wrote, Moved
    <3>2. QED
      BY <3>1 DEF FilesInv
  <2>4. CASE Wrote(p) /\ p = "main"
    <3>1. SetupOf(p) = setup /\ store = InMain.offered \ Stripped(setup)
      BY <1>5, <2>4 DEF ProcessMCPConfigs, StoreInv, SetupOf
    <3>2. agentMCPServers(SetupOf(p)) = Wanted(setup, InMain.offered \cap Servers)
      BY <3>1 DEF agentMCPServers, Wanted, Stripped
    <3>3. /\ InMain'.offered = InMain.offered /\ InMain'.sure = InMain.sure
          /\ InMain'.pc \in {"record", "forget", "skills"} /\ setup' = setup
      BY <1>5, <2>4, AfterMCPMoves DEF ProcessMCPConfigs, Wrote, Moved
    <3>4. At("main", "mcp") /\ rules' = rules
      BY <1>5, <2>4 DEF ProcessMCPConfigs
    <3>5. InMain.sure => config'.servers \ {"users"} = Wanted(setup, InMain.offered \cap Servers)
      BY <2>4, <3>2, <3>4 DEF Wrote, FilesInv
    <3>6. QED
      BY <3>3, <3>4, <3>5 DEF FilesInv
  <2>5. QED
    BY <2>1, <2>2, <2>3, <2>4
<1>6. ASSUME NEW p \in Workers, RecordMCPDeployed(p) PROVE FilesInv'
  <2>1. CASE deployed' = At(p, "record") /\ AfterMCP(p)
    BY <1>6, <2>1, AfterMCPMoves, SetupShapes, ZenonT(60)
    DEF RecordMCPDeployed, Moved, SetupOf, StoreInv, FilesInv, Stripped
  <2>2. CASE UNCHANGED <<deployed, setup>> /\ Abandon(p)
    BY <1>6, <2>2 DEF RecordMCPDeployed, StoreInv, FilesInv, Stripped
  <2>3. QED
    BY <1>6, <2>1, <2>2 DEF RecordMCPDeployed
<1>7. ASSUME Boot PROVE FilesInv'
  BY <1>7, IdleShape, SetupShapes DEF Boot, StoreInv, FilesInv, Stripped
<1>8. ASSUME setupAgentMCP PROVE FilesInv'
  BY <1>8, SetupMoves DEF setupAgentMCP, StoreInv, FilesInv, Stripped
<1>9. ASSUME ProcessRules PROVE FilesInv'
  BY <1>9 DEF ProcessRules, StoreInv, FilesInv, Stripped
<1>10. ASSUME MarkRules PROVE FilesInv'
  BY <1>10, ConfigShapes DEF MarkRules, StoreInv, FilesInv, Stripped
<1>11. ASSUME ProcessSkills PROVE FilesInv'
  <2>1. /\ At("main", "skills")
        /\ UNCHANGED <<givenVars, outsideVars, gatewayClient, setup, store, config, deployed, rules, cli>>
    BY <1>11 DEF ProcessSkills
  <2>2. CASE Go("main", "permissions") /\ (skills' <=> "skill" \in store)
    BY <2>1, <2>2, SMTT(30) DEF Go, StoreInv, FilesInv, Stripped
  <2>3. CASE worker' = [worker EXCEPT !["main"].pc = "permissions", !["main"].sure = FALSE]
    BY <2>1, <2>3 DEF StoreInv, FilesInv, Stripped
  <2>4. CASE Abandon("main")
    BY <2>1, <2>4 DEF Abandon, StoreInv, FilesInv, Stripped
  <2>5. QED
    BY <1>11, <2>2, <2>3, <2>4, SkillsMoves
<1>12. ASSUME ProcessPermissions PROVE FilesInv'
  <2>1. CASE config' = config /\ (Succeed \/ Abandon("main"))
    BY <1>12, <2>1, SucceedMoves DEF ProcessPermissions, FilesInv
  <2>2. CASE /\ config' = Broken
             /\ worker' = [worker EXCEPT !["main"].pc = "permit", !["main"].seen = config]
    <3>1. /\ InMain'.pc = "permit" /\ InMain'.seen = config /\ InMain'.sure = InMain.sure
          /\ InMain'.offered = InMain.offered
      BY <2>2
    <3>2. At("main", "permissions") /\ setup' = setup /\ rules' = rules /\ skills' = skills
      BY <1>12 DEF ProcessPermissions
    <3>3. QED
      BY <3>1, <3>2 DEF FilesInv
  <2>3. QED
    <3> HIDE DEF Abandon, TypeInv
    <3>1. QED
      BY <1>12, <2>1, <2>2 DEF ProcessPermissions
<1>13. ASSUME WritePermissions PROVE FilesInv'
  <2>1. CASE Succeed /\ config' = [Whole(InMain.seen.servers) EXCEPT !.permission = TRUE]
    BY <1>13, <2>1, SucceedMoves, PermitShape
    DEF WritePermissions, StoreInv, FilesInv, Stripped
  <2>2. CASE config' = config /\ Abandon("main")
    BY <1>13, <2>2 DEF WritePermissions, StoreInv, FilesInv, Stripped
  <2>3. QED
    BY <1>13, <2>1, <2>2 DEF WritePermissions
<1>14. ASSUME Tick PROVE FilesInv'
  BY <1>14 DEF Tick, StoreInv, FilesInv, Stripped
<1>15. ASSUME HasNairiMCPEntry PROVE FilesInv'
  BY <1>15 DEF HasNairiMCPEntry, StoreInv, FilesInv, Stripped
<1>16. ASSUME StartRefresh PROVE FilesInv'
  BY <1>16, IdleShape DEF StartRefresh, StoreInv, FilesInv, Stripped
<1>17. ASSUME claudeAllowRules PROVE FilesInv'
  BY <1>17, CliShape, ConfigShapes DEF claudeAllowRules, StoreInv, FilesInv, Stripped
<1>18. ASSUME ReadConfig PROVE FilesInv'
  BY <1>18 DEF ReadConfig, StoreInv, FilesInv, Stripped
<1>19. ASSUME WriteBack PROVE FilesInv'
  BY <1>19 DEF WriteBack, StoreInv, FilesInv, Stripped
<1>20. ASSUME EndRun PROVE FilesInv'
  BY <1>20, CliShape, ConfigShapes DEF EndRun, StoreInv, FilesInv, Stripped
<1>21. ASSUME BackendChanges PROVE FilesInv'
  BY <1>21 DEF BackendChanges, StoreInv, FilesInv, Stripped
<1>22. ASSUME Crash PROVE FilesInv'
  BY <1>22, IdleShape, CliShape, ConfigShapes DEF Crash, StoreInv, FilesInv, Stripped
<1>23. ASSUME UNCHANGED configVars PROVE FilesInv'
  BY <1>23 DEF configVars, StoreInv, FilesInv, Stripped
<1> QED
  BY <1>1, <1>2, <1>3, <1>4, <1>5, <1>6, <1>7, <1>8, <1>9, <1>10, <1>11, <1>12,
     <1>13, <1>14, <1>15, <1>16, <1>17, <1>18, <1>19, <1>20, <1>21, <1>22, <1>23
  DEF ConfigNext, Main, reprobeGateway, Shared

LEMMA BudgetStep ==
  ASSUME BudgetInv, [ConfigNext]_configVars
  PROVE  BudgetInv'
<1>1. budget' = budget \/ \E kind \in Budgets : Spend(kind)
  <2> USE DEF Abandon, Budgets
  <2>1. ASSUME NEW p \in Workers, Shared(p) PROVE budget' = budget \/ \E kind \in Budgets : Spend(kind)
    BY <2>1 DEF Shared, Lock, Clean, FetchArtifacts, FetchAndStoreArtifact,
        ProcessMCPConfigs,
      RecordMCPDeployed
  <2>2. ASSUME \/ Boot \/ setupAgentMCP \/ ProcessRules \/ MarkRules \/ ProcessSkills
               \/ ProcessPermissions \/ WritePermissions
        PROVE  budget' = budget \/ \E kind \in Budgets : Spend(kind)
    BY <2>2 DEF Boot, setupAgentMCP, ProcessRules, MarkRules, ProcessSkills,
        ProcessPermissions,
      WritePermissions, Succeed
  <2>3. ASSUME \/ Tick \/ HasNairiMCPEntry \/ StartRefresh \/ claudeAllowRules \/ ReadConfig
               \/ WriteBack \/ EndRun \/ BackendChanges \/ Crash \/ UNCHANGED configVars
        PROVE  budget' = budget \/ \E kind \in Budgets : Spend(kind)
    BY <2>3 DEF Tick, HasNairiMCPEntry, StartRefresh, claudeAllowRules, ReadConfig,
        WriteBack, EndRun,
      BackendChanges, Crash, configVars
  <2>4. QED
    <3> HIDE DEF Abandon, Budgets
    <3>1. QED
      BY <2>1, <2>2, <2>3 DEF ConfigNext, Main, reprobeGateway, Workers
<1>2. QED
  BY <1>1 DEF BudgetInv, Spend

-----------------------------------------------------------------------------
LEMMA Initially == ConfigInit => IInv
<1> SUFFICES ASSUME ConfigInit PROVE IInv
  OBVIOUS
<1>1. /\ worker = [p \in Workers |-> Idle] /\ budget = Bounds /\ cli = NoCli /\ mu = "none"
      /\ setup = NoSetup /\ store = {} /\ config.state # "broken"
      /\ config \in Configs
  BY ConfigShapes DEF ConfigInit, Workers, Entries, Servers
<1>2. TypeInv
  BY <1>1, SetupShapes, IdleShape, CliShape
  DEF ConfigInit, TypeInv, ConfigTypeOK, Workers, MainSteps, ReprobeSteps, Unlocked, Artifacts
<1>3. BootInv /\ StoreInv /\ FilesInv
  BY <1>1, IdleShape, CliShape
  DEF BootInv, StoreInv, FilesInv, At, InMain, Workers, Written
<1>4. RemoteInv
  BY <1>1, IdleShape, CliShape, ConfigShapes
  DEF RemoteInv, At, InMain, Workers, Locked, Cleaned, Written, Unlocked
<1>5. BudgetInv
  BY <1>1, ConfigAssumption DEF BudgetInv
<1>6. QED
  BY <1>2, <1>3, <1>4, <1>5 DEF IInv

LEMMA Inductive == IInv /\ [ConfigNext]_configVars => IInv'
  BY TypeStep, BootStep, RemoteStep, StoreStep, FilesStep, BudgetStep DEF IInv

THEOREM Invariance == ConfigSpec => []IInv
  BY Initially, Inductive, PTL DEF ConfigSpec

-----------------------------------------------------------------------------

(* The locks, files, setups and positions of boot, refresh and re-probe     *)
(* stay what they are meant to be, and one of them at a time holds the lock *)
(* under which the CLI's config is written (main.go:370-375, 491).         *)
THEOREM TypeCorrect == ConfigSpec => []ConfigTypeOK
<1>1. IInv => ConfigTypeOK
  BY DEF IInv, TypeInv
<1>2. QED
  BY <1>1, Invariance, PTL

(* Once an agent that is not self-hosted has booted, no remote server is in *)
(* nairid's directory or in the CLI's config, whatever fails, dies, is     *)
(* refreshed or written back by a CLI (main.go:248).                       *)
THEOREM NoRemote == ConfigSpec => []NoRemoteOnDisk
<1>1. IInv => NoRemoteOnDisk
  BY DEF IInv, RemoteInv, NoRemoteOnDisk
<1>2. QED
  BY <1>1, Invariance, PTL

LEMMA RefreshStep ==
  ASSUME IInv, [ConfigNext]_configVars, InMain.pc \in {"permissions", "permit"},
         InMain'.pc = "idle", budget' = budget, InMain.sure
  PROVE  /\ config'.servers \ {"users"} = Wanted(setup, InMain.offered \cap Servers)
         /\ (rules' \notin {"none", "users"}) = ("rule" \in InMain.offered)
         /\ skills' = ("skill" \in InMain.offered)
         /\ agentType = "opencode" => config'.permission
<1>1. TypeInv /\ FilesInv /\ BudgetInv
  BY DEF IInv
<1>2. ~Abandon("main")
  BY <1>1 DEF Abandon, Spend, BudgetInv, Budgets
<1>3. \/ ProcessPermissions /\ agentType # "opencode" /\ config' = config
      \/ WritePermissions /\ config' = [Whole(InMain.seen.servers) EXCEPT !.permission = TRUE]
  <2>1. /\ worker \in [Workers -> WorkerRecords] /\ InMain.pc \in {"permissions", "permit"}
        /\ InMain'.pc = "idle" /\ mu = "main" /\ worker["reprobe"].pc \in Unlocked
    BY <1>1 DEF TypeInv, ConfigTypeOK, Unlocked, InMain, Workers
  <2>2. \/ ProcessPermissions \/ WritePermissions
        \/ StartRefresh \/ Shared("main") \/ Boot \/ setupAgentMCP \/ ProcessRules \/ MarkRules
        \/ ProcessSkills
        \/ Shared("reprobe") \/ Tick \/ HasNairiMCPEntry \/ WriteBack
        \/ worker' = worker \/ Crash
    BY DEF ConfigNext, Main, reprobeGateway, claudeAllowRules, ReadConfig, EndRun,
        BackendChanges,
           configVars
  <2>3. ~(StartRefresh \/ Shared("main") \/ Boot \/ setupAgentMCP \/ ProcessRules \/ MarkRules
            \/ ProcessSkills)
    BY <2>1 DEF StartRefresh, Shared, Lock, Clean, FetchArtifacts, FetchAndStoreArtifact,
      ProcessMCPConfigs, RecordMCPDeployed, Boot, setupAgentMCP, ProcessRules, MarkRules, ProcessSkills,
      At, InMain
  <2>4. ~(Shared("reprobe") \/ HasNairiMCPEntry)
    BY <2>1 DEF Shared, Lock, Clean, FetchArtifacts, FetchAndStoreArtifact,
        ProcessMCPConfigs,
      RecordMCPDeployed, HasNairiMCPEntry, At, Unlocked
  <2>5. ~(Tick \/ WriteBack \/ worker' = worker)
    BY <2>1 DEF Tick, WriteBack, Go, InMain, Workers, WorkerRecords
  <2>6. ~Crash
    BY <2>1, IdleShape DEF Crash, InMain
  <2>7. ProcessPermissions \/ WritePermissions
    BY <2>2, <2>3, <2>4, <2>5, <2>6
  <2>8. CASE ProcessPermissions
    <3>1. \/ agentType # "opencode" /\ config' = config
          \/ worker' = [worker EXCEPT !["main"].pc = "permit", !["main"].seen = config]
      BY <1>2, <2>8 DEF ProcessPermissions
    <3>2. QED
      BY <2>1, <2>8, <3>1 DEF InMain, Workers, WorkerRecords
  <2>9. CASE WritePermissions
    BY <1>2, <2>9 DEF WritePermissions
  <2>10. QED
    BY <2>7, <2>8, <2>9
<1>4. /\ rules' = rules /\ skills' = skills
      /\ (rules \notin {"none", "users"} <=> "rule" \in InMain.offered)
      /\ (skills <=> "skill" \in InMain.offered)
  BY <1>1, <1>3 DEF FilesInv, Written, ProcessPermissions, WritePermissions
<1>5. skills' = ("skill" \in InMain.offered)
  <2>1. skills \in BOOLEAN
    BY <1>1 DEF TypeInv, ConfigTypeOK
  <2>2. QED
    BY <1>4, <2>1
<1>6. (rules' \notin {"none", "users"}) = ("rule" \in InMain.offered)
  BY <1>4
<1>7. CASE ProcessPermissions /\ agentType # "opencode" /\ config' = config
  <2>1. At("main", "permissions") /\ config.servers \ {"users"} = Wanted(setup, InMain.offered \cap Servers)
    BY <1>1, <1>7 DEF FilesInv, Written, ProcessPermissions, At, InMain
  <2>2. QED
    BY <1>7, <1>5, <1>6, <2>1
<1>8. CASE WritePermissions /\ config' = [Whole(InMain.seen.servers) EXCEPT !.permission = TRUE]
  <2>1. InMain.seen.servers \ {"users"} = Wanted(setup, InMain.offered \cap Servers)
    BY <1>1, <1>8 DEF FilesInv, Written, WritePermissions, At, InMain
  <2>2. config'.servers = InMain.seen.servers /\ config'.permission
    BY <1>1, <1>8, PermitShape DEF Whole, Absent
  <2>3. QED
    BY <1>5, <1>6, <2>1, <2>2
<1>9. QED
  BY <1>3, <1>7, <1>8

(* A refresh that succeeds leaves in the CLI's files what the backend listed *)
(* for it and nothing that it dropped, while gateway checks come between   *)
(* and earlier refreshes failed half-way (main.go:491, mcp_deployed.go).   *)
THEOREM RefreshEffective == ConfigSpec => RefreshTakesEffect
<1>1. IInv /\ [ConfigNext]_configVars =>
        [InMain.pc \in {"permissions", "permit"} /\ InMain'.pc = "idle" /\ budget' = budget
           /\ InMain.sure
         => LET offered == InMain.offered IN
            /\ config'.servers \ {"users"} = Wanted(setup, offered \cap Servers)
            /\ (rules' \notin {"none", "users"}) = ("rule" \in offered)
            /\ skills' = ("skill" \in offered)
            /\ agentType = "opencode" => config'.permission]_configVars
  BY RefreshStep
<1>2. QED
  BY <1>1, Invariance, PTL DEF ConfigSpec, RefreshTakesEffect

=============================================================================
