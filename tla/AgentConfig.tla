---------------------------- MODULE AgentConfig ----------------------------
(***************************************************************************)
(* How the backend's artifacts become the configuration of the agent CLI.  *)
(* nairid downloads them into its own directories (store) and writes them  *)
(* from there into the CLI's files: rules, MCP servers, skills and, for    *)
(* OpenCode, permissions.  It does so when it boots and at every refresh.  *)
(* A managed agent reaches remote MCP servers only through the gateway: if *)
(* the gateway did not answer at boot, reprobeGateway tries it again, and  *)
(* once it is in use puts its entry back if a CLI wrote over it.  Any step *)
(* may fail, the process may die between two steps, and CLIs that run      *)
(* meanwhile may write the config they have read back over a newer one.    *)
(*                                                                         *)
(* Abstraction: one artifact of each kind; a config file is the set of its *)
(* MCP servers, whether it has the permissions, and whether it parses.     *)
(***************************************************************************)
EXTENDS Naturals, FiniteSets

CONSTANTS
  AgentTypes,      \* the CLIs that may be used
  Hostings,        \* "managed", "unproxied" (managed without its proxy), "selfHosted"
  Offers,          \* the sets of artifacts the backend may have
  Bounds           \* bound: changes, failures, crashes, refreshes, launches, CLI writes

Servers == {"stdio", "remote"}
Artifacts == Servers \cup {"rule", "skill"}
Budgets == {"changes", "failures", "crashes", "refreshes", "launches", "writes"}

ASSUME ConfigAssumption ==
  /\ AgentTypes \subseteq {"claude", "opencode", "codex"}
  /\ Hostings \subseteq {"managed", "unproxied", "selfHosted"}
  /\ Offers \subseteq SUBSET Artifacts /\ Bounds \in [Budgets -> Nat]

VARIABLES
  agentType, hosting,
  strips,          \* the backend leaves out what the gateway serves, when asked to
  backend,         \* the artifacts it has
  gatewayUp,
  store,           \* what is in nairid's own directories
  gatewayClient,   \* the API client asks without what the gateway serves
  setup,           \* agentMCPConfig.setup
  config,          \* the CLI's config file
  deployed,        \* it is recorded in mcp-deployed
  rules,           \* the CLI's rules: none, the user's, nairid's, nairid's without a mark
  skills,          \* the CLI has the skill
  mu,              \* who holds agentMCPConfig.mu
  worker,          \* boot and refreshes ("main"), reprobeGateway
  cli,             \* one run of the CLI
  budget

givenVars == <<agentType, hosting, strips>>
outsideVars == <<backend, gatewayUp>>
fileVars == <<store, config, deployed, rules, skills>>
configVars ==
  <<givenVars, outsideVars, gatewayClient, setup, fileVars, mu, worker, cli, budget>>

-----------------------------------------------------------------------------

\* agentMCPSetup: the zero value keeps remote servers in the agent's own config.
NoSetup == [nairi |-> FALSE, stdioOnly |-> FALSE, reprobe |-> FALSE]
failClosedAgentMCP == [NoSetup EXCEPT !.stdioOnly = TRUE]

\* Mutant: the stripping of remote servers is left to the backend.
OnGatewayUnstripped == [NoSetup EXCEPT !.nairi = TRUE]

OnGateway == [NoSetup EXCEPT !.nairi = TRUE, !.stdioOnly = hosting # "selfHosted"]

Entries == Servers \cup {"nairi", "users"}
Absent == [state |-> "absent", servers |-> {}, permission |-> FALSE]
Broken == [Absent EXCEPT !.state = "broken"]
Whole(servers) == [Absent EXCEPT !.state = "whole", !.servers = servers]

NoCli == [pc |-> "none", allowed |-> {}, copy |-> Absent]
Idle == [pc |-> "off", boot |-> TRUE, fresh |-> NoSetup, pending |-> {}, offered |-> {},
         seen |-> Absent, sure |-> FALSE]

ConfigInit ==
  /\ agentType \in AgentTypes /\ hosting \in Hostings /\ strips \in BOOLEAN
  /\ backend \in Offers /\ gatewayUp \in BOOLEAN
  /\ store = {} /\ gatewayClient = FALSE /\ setup = NoSetup
  /\ \/ config = Absent /\ deployed = FALSE
     \/ hosting = "selfHosted" /\ config = Whole({"users"}) /\ deployed = FALSE
     \/ hosting # "selfHosted" /\ config = Whole({"remote"}) /\ deployed = TRUE
  /\ rules \in {"none", "users"} /\ (hosting # "selfHosted" => rules = "none")
  /\ skills = FALSE /\ mu = "none" /\ cli = NoCli
  /\ worker = [p \in {"main", "reprobe"} |-> Idle] /\ budget = Bounds

Spend(kind) == budget[kind] > 0 /\ budget' = [budget EXCEPT ![kind] = @ - 1]
At(p, pc) == worker[p].pc = pc
Go(p, pc) == worker' = [worker EXCEPT ![p].pc = pc]
InMain == worker["main"]

\* A step that returns an error: a boot exits, a refresh and a move are given up, and
\* the lock is released.
Abandon(p) ==
  /\ Spend("failures")
  /\ Go(p, IF p = "reprobe" THEN "wait" ELSE IF InMain.boot THEN "off" ELSE "idle")
  /\ mu' = "none"

\* The setup that worker p writes: the one of the gateway while it moves there.
SetupOf(p) == IF p = "reprobe" /\ ~setup.nairi THEN OnGateway ELSE setup

\* What setup makes of a set of servers (withoutRemoteServers, withNairiMCP).
Wanted(s, servers) ==
  (servers \ (IF s.stdioOnly THEN {"remote"} ELSE {})) \cup (IF s.nairi THEN {"nairi"} ELSE {})
agentMCPServers(s) == Wanted(s, store \cap Servers)

-----------------------------------------------------------------------------
(* Boot, refresh, and the choice of the setup.                              *)

Boot ==
  /\ At("main", "off")
  /\ worker' = [p \in {"main", "reprobe"} |->
                  IF p = "main" THEN [Idle EXCEPT !.pc = "setup"] ELSE Idle]
  /\ setup' = NoSetup /\ gatewayClient' = FALSE
  /\ UNCHANGED <<givenVars, outsideVars, fileVars, mu, cli, budget>>

\* refreshConfig: the setup is chosen again only while it is the zero value.
StartRefresh ==
  /\ At("main", "idle") /\ Spend("refreshes")
  /\ worker' = [worker EXCEPT !["main"] =
       [Idle EXCEPT !.pc = IF setup = NoSetup THEN "setup" ELSE "lock", !.boot = FALSE]]
  /\ UNCHANGED <<givenVars, outsideVars, fileVars, gatewayClient, setup, mu, cli>>

\* setupAgentMCP: the key and the probe answer, or do not.
setupAgentMCP ==
  /\ At("main", "setup")
  /\ \E reached \in BOOLEAN :
       /\ reached => gatewayUp
       /\ IF gatewayUp /\ ~reached THEN Spend("failures") ELSE UNCHANGED budget
       /\ LET fresh ==
                CASE hosting = "unproxied" -> failClosedAgentMCP
                  [] hosting = "managed" /\ ~reached ->
                       [failClosedAgentMCP EXCEPT !.reprobe = TRUE]
                  [] hosting = "selfHosted" /\ ~reached -> NoSetup
                  [] OTHER -> OnGateway
          IN /\ worker' = [worker EXCEPT !["main"].pc = "lock", !["main"].fresh = fresh]
             /\ gatewayClient' = (gatewayClient \/ fresh # NoSetup)
  /\ UNCHANGED <<givenVars, outsideVars, fileVars, setup, mu, cli>>

Lock(p) ==
  /\ At(p, "lock") /\ mu = "none" /\ mu' = p
  /\ worker' = [worker EXCEPT
       ![p].pc = IF p = "reprobe" /\ setup.nairi THEN "check" ELSE "clean",
       ![p].sure = /\ deployed \/ config.servers \subseteq {"users"}
                   /\ rules # "unmarked"]
  /\ setup' = IF p = "main" /\ setup = NoSetup THEN InMain.fresh ELSE setup
  /\ UNCHANGED <<givenVars, outsideVars, fileVars, gatewayClient, cli, budget>>

-----------------------------------------------------------------------------
(* fetchAndStoreArtifacts: clean first, then download.                      *)

Clean(p) ==
  /\ At(p, "clean")
  /\ \/ store' = {} /\ Go(p, "list") /\ UNCHANGED <<mu, budget>>
     \/ store' \in {store, store \ {"rule"}, store \ ({"rule"} \cup Servers)} /\ Abandon(p)
  /\ UNCHANGED <<givenVars, outsideVars, gatewayClient, setup, config, deployed, rules, skills, cli>>

FetchArtifacts(p) ==
  /\ At(p, "list")
  /\ \/ LET offered == backend \ (IF gatewayClient /\ strips THEN {"remote"} ELSE {}) IN
        /\ worker' = [worker EXCEPT ![p].pc = "download", ![p].pending = offered,
                                    ![p].offered = offered]
        /\ UNCHANGED <<mu, budget>>
     \/ Abandon(p)
  /\ UNCHANGED <<givenVars, outsideVars, fileVars, gatewayClient, setup, cli>>

\* A managed agent's MCP file is stored without its remote servers.
Kept(p, a) == {a} \ (IF SetupOf(p).stdioOnly THEN {"remote"} ELSE {})

FetchAndStoreArtifact(p) ==
  /\ At(p, "download")
  /\ \/ /\ worker[p].pending = {}
        /\ Go(p, IF p = "main" THEN "rules" ELSE "mcp")
        /\ UNCHANGED <<store, mu, budget>>
     \/ \E a \in worker[p].pending :
          /\ store' = store \cup Kept(p, a)
          /\ worker' = [worker EXCEPT ![p].pending = @ \ {a}]
          /\ UNCHANGED <<mu, budget>>
     \/ worker[p].pending # {} /\ UNCHANGED store /\ Abandon(p)
  /\ UNCHANGED <<givenVars, outsideVars, gatewayClient, setup, config, deployed, rules, skills, cli>>

-----------------------------------------------------------------------------
(* The CLI's files.                                                         *)

\* ProcessRules: without rules, only what carries nairid's mark is removed.
ProcessRules ==
  /\ At("main", "rules")
  /\ \/ /\ "rule" \notin store /\ Go("main", "mcp")
        /\ rules' = IF rules = "generated" THEN "none" ELSE rules
        /\ UNCHANGED <<mu, budget>>
     \/ "rule" \in store /\ rules' = "unmarked" /\ Go("main", "mark") /\ UNCHANGED <<mu, budget>>
     \/ rules' \in {rules, IF "rule" \in store THEN "unmarked" ELSE rules} /\ Abandon("main")
  /\ UNCHANGED <<givenVars, outsideVars, gatewayClient, setup, store, config, deployed, skills, cli>>

\* The mark is written last.  OpenCode's rules step also removes opencode.json; that it
\* could not is only logged.
MarkRules ==
  /\ At("main", "mark")
  /\ \/ /\ rules' = "generated" /\ Go("main", "mcp") /\ UNCHANGED <<mu, budget>>
        /\ config' = IF agentType = "opencode" THEN Absent ELSE config
     \/ /\ agentType = "opencode" /\ rules' = "generated" /\ UNCHANGED <<config, mu>>
        /\ Spend("failures") /\ Go("main", "mcp")
     \/ UNCHANGED <<rules, config>> /\ Abandon("main")
  /\ UNCHANGED <<givenVars, outsideVars, gatewayClient, setup, store, deployed, skills, cli>>

\* What follows the MCP step: the skills, or the end of the move.
AfterMCP(p) ==
  IF p = "main"
    THEN Go(p, "skills") /\ UNCHANGED <<mu, setup>>
    ELSE Go(p, "wait") /\ mu' = "none" /\ setup' = SetupOf(p)

\* Mutant: nothing to deploy, nothing to do.
LeaveDeployed(p) == UNCHANGED config /\ AfterMCP(p)

\* clearDeployedJSONMCP, called without any server.
clearDeployedJSONMCP(p) ==
  IF deployed /\ config.state # "broken"
    THEN /\ config' = [config EXCEPT !.servers = {}]
         /\ Go(p, "forget") /\ UNCHANGED <<mu, setup>>
    ELSE UNCHANGED config /\ AfterMCP(p)

\* The section of servers is replaced, the rest of a config that parses is kept.
WriteServers(servers) ==
  config' = [Whole(servers) EXCEPT !.permission = config.state = "whole" /\ config.permission]

\* Codex's config is always written, for its shell policy.
ProcessCodex(p, servers) ==
  LET cleared == SetupOf(p).stdioOnly \/ deployed IN
  /\ WriteServers(IF servers = {} /\ ~cleared THEN config.servers ELSE servers)
  /\ IF servers # {} THEN Go(p, "record") /\ UNCHANGED <<mu, setup>>
     ELSE IF deployed THEN Go(p, "forget") /\ UNCHANGED <<mu, setup>>
     ELSE AfterMCP(p)

ProcessMCPConfigs(p) ==
  LET servers == agentMCPServers(SetupOf(p)) IN
  /\ At(p, "mcp")
  /\ \/ agentType = "codex" /\ ProcessCodex(p, servers) /\ UNCHANGED budget
     \/ /\ agentType # "codex" /\ UNCHANGED budget
        /\ IF servers = {} /\ ~SetupOf(p).stdioOnly
             THEN clearDeployedJSONMCP(p)
             ELSE WriteServers(servers) /\ Go(p, "record") /\ UNCHANGED <<mu, setup>>
     \/ UNCHANGED <<config, setup>> /\ Abandon(p)
  /\ UNCHANGED <<givenVars, outsideVars, gatewayClient, store, deployed, rules, skills, cli>>

\* recordMCPDeployed, forgetMCPDeployed.
RecordMCPDeployed(p) ==
  /\ At(p, "record") \/ At(p, "forget")
  /\ \/ deployed' = At(p, "record") /\ AfterMCP(p) /\ UNCHANGED budget
     \/ UNCHANGED <<deployed, setup>> /\ Abandon(p)
  /\ UNCHANGED <<givenVars, outsideVars, gatewayClient, store, config, rules, skills, cli>>

\* The skills are removed and unpacked again; only a failed mkdir is an error.
ProcessSkills ==
  /\ At("main", "skills")
  /\ \/ skills' = ("skill" \in store) /\ Go("main", "permissions") /\ UNCHANGED <<mu, budget>>
     \/ /\ skills' \in {FALSE, skills} /\ Spend("failures") /\ UNCHANGED mu
        /\ worker' = [worker EXCEPT !["main"].pc = "permissions", !["main"].sure = FALSE]
     \/ skills' = FALSE /\ Abandon("main")
  /\ UNCHANGED <<givenVars, outsideVars, gatewayClient, setup, store, config, deployed, rules, cli>>

\* The end of a boot starts reprobeGateway.
Succeed ==
  /\ mu' = "none" /\ UNCHANGED budget
  /\ worker' = [worker EXCEPT
       !["main"].pc = "idle", !["main"].boot = FALSE,
       !["reprobe"].pc = IF InMain.boot /\ setup.reprobe THEN "wait" ELSE @]

\* OpenCode's permissions are written into the file itself: truncated, then filled.
ProcessPermissions ==
  /\ At("main", "permissions")
  /\ \/ agentType # "opencode" /\ Succeed /\ UNCHANGED config
     \/ /\ agentType = "opencode" /\ config' = Broken /\ UNCHANGED <<mu, budget>>
        /\ worker' = [worker EXCEPT !["main"].pc = "permit", !["main"].seen = config]
     \/ agentType = "opencode" /\ UNCHANGED config /\ Abandon("main")
  /\ UNCHANGED <<givenVars, outsideVars, gatewayClient, setup, store, deployed, rules, skills, cli>>

WritePermissions ==
  /\ At("main", "permit")
  /\ \/ config' = [Whole(InMain.seen.servers) EXCEPT !.permission = TRUE] /\ Succeed
     \/ UNCHANGED config /\ Abandon("main")
  /\ UNCHANGED <<givenVars, outsideVars, gatewayClient, setup, store, deployed, rules, skills, cli>>

-----------------------------------------------------------------------------
(* reprobeGateway.                                                          *)

\* Mutant: done once the agent is on the gateway.
TickOffGateway ==
  /\ At("reprobe", "wait") /\ ~setup.nairi /\ gatewayUp
  /\ Go("reprobe", "lock")
  /\ UNCHANGED <<givenVars, outsideVars, gatewayClient, setup, fileVars, mu, cli, budget>>

\* A tick: on the gateway the entry is checked; off it, the gateway must answer.
Tick ==
  /\ At("reprobe", "wait") /\ (setup.nairi \/ gatewayUp)
  /\ Go("reprobe", "lock")
  /\ UNCHANGED <<givenVars, outsideVars, gatewayClient, setup, fileVars, mu, cli, budget>>

\* restoreGatewayEntry: a config that does not parse is left alone.
HasNairiMCPEntry ==
  /\ At("reprobe", "check")
  /\ IF config.state = "broken" \/ "nairi" \in config.servers
       THEN Go("reprobe", "wait") /\ mu' = "none"
       ELSE Go("reprobe", "mcp") /\ UNCHANGED mu
  /\ UNCHANGED <<givenVars, outsideVars, gatewayClient, setup, fileVars, cli, budget>>

-----------------------------------------------------------------------------
(* The CLI, the backend, and death.                                         *)

\* claudeAllowRules, then the CLI's start; it may write the config it read.
claudeAllowRules ==
  /\ ~InMain.boot /\ mu = "none" /\ cli.pc = "none" /\ Spend("launches")
  /\ cli' = [NoCli EXCEPT !.pc = "launched", !.allowed = agentMCPServers(setup)]
  /\ UNCHANGED <<givenVars, outsideVars, gatewayClient, setup, fileVars, mu, worker>>

ReadConfig ==
  /\ cli.pc = "launched"
  /\ cli' = [cli EXCEPT !.pc = "running", !.copy = config]
  /\ UNCHANGED <<givenVars, outsideVars, gatewayClient, setup, fileVars, mu, worker, budget>>

WriteBack ==
  /\ cli.pc = "running" /\ cli.copy.state = "whole" /\ Spend("writes")
  /\ config' = cli.copy
  /\ worker' = [worker EXCEPT !["main"].sure = FALSE]
  /\ UNCHANGED <<givenVars, outsideVars, gatewayClient, setup, store, deployed, rules, skills, mu, cli>>

EndRun ==
  /\ cli.pc = "running" /\ cli' = NoCli
  /\ UNCHANGED <<givenVars, outsideVars, gatewayClient, setup, fileVars, mu, worker, budget>>

BackendChanges ==
  /\ Spend("changes")
  /\ \/ backend' \in Offers \ {backend} /\ UNCHANGED gatewayUp
     \/ gatewayUp' = ~gatewayUp /\ UNCHANGED backend
  /\ UNCHANGED <<givenVars, gatewayClient, setup, fileVars, mu, worker, cli>>

Crash ==
  /\ ~At("main", "off") /\ Spend("crashes")
  /\ worker' = [p \in {"main", "reprobe"} |-> Idle] /\ mu' = "none" /\ cli' = NoCli
  /\ UNCHANGED <<givenVars, outsideVars, gatewayClient, setup, fileVars>>

Shared(p) ==
  \/ Lock(p) \/ Clean(p) \/ FetchArtifacts(p) \/ FetchAndStoreArtifact(p)
  \/ ProcessMCPConfigs(p) \/ RecordMCPDeployed(p)
Main ==
  \/ Shared("main") \/ Boot \/ setupAgentMCP \/ ProcessRules \/ MarkRules
  \/ ProcessSkills \/ ProcessPermissions \/ WritePermissions
reprobeGateway == Shared("reprobe") \/ Tick \/ HasNairiMCPEntry

ConfigNext ==
  \/ Main \/ reprobeGateway \/ StartRefresh
  \/ claudeAllowRules \/ ReadConfig \/ WriteBack \/ EndRun \/ BackendChanges \/ Crash

\* A boot that failed is started again, and the ticker ticks.
ConfigSpec ==
  /\ ConfigInit /\ [][ConfigNext]_configVars
  /\ WF_configVars(Main) /\ WF_configVars(reprobeGateway)

-----------------------------------------------------------------------------
(* Properties.                                                              *)

Setups == [nairi : BOOLEAN, stdioOnly : BOOLEAN, reprobe : BOOLEAN]
Configs ==
  [state : {"absent", "broken", "whole"}, servers : SUBSET Entries, permission : BOOLEAN]
Unlocked == {"off", "idle", "setup", "lock", "wait"}

\* Types, and the lock: it is held by the worker that is between taking and
\* returning it.
ConfigTypeOK ==
  /\ agentType \in AgentTypes /\ hosting \in Hostings /\ strips \in BOOLEAN
  /\ backend \in Offers /\ gatewayUp \in BOOLEAN /\ gatewayClient \in BOOLEAN
  /\ store \subseteq Artifacts /\ setup \in Setups /\ config \in Configs
  /\ deployed \in BOOLEAN /\ skills \in BOOLEAN
  /\ rules \in {"none", "users", "unmarked", "generated"}
  /\ cli \in [pc : {"none", "launched", "running"}, allowed : SUBSET Entries, copy : Configs]
  /\ \A p \in {"main", "reprobe"} : mu = p <=> worker[p].pc \notin Unlocked

\* A booted agent that is not self-hosted has no remote server on disk, neither in
\* nairid's directory nor in the CLI's config ("a backend that fails to strip must
\* not leave credentials on disk"), whatever fails and whoever writes.
NoRemoteOnDisk ==
  hosting # "selfHosted" /\ ~InMain.boot => "remote" \notin store \cup config.servers

\* What a refresh that succeeds leaves behind is what the backend listed for it, under
\* the setup in force: what was dropped there is gone here.  Unless a write before it
\* went unrecorded, a rule unmarked, or a CLI wrote over the config meanwhile.
RefreshTakesEffect ==
  [][InMain.pc \in {"permissions", "permit"} /\ InMain'.pc = "idle" /\ budget' = budget
     /\ InMain.sure
     => LET offered == InMain.offered IN
        /\ config'.servers \ {"users"} = Wanted(setup, offered \cap Servers)
        /\ (rules' \notin {"none", "users"}) = ("rule" \in offered)
        /\ skills' = ("skill" \in offered)
        /\ agentType = "opencode" => config'.permission]_configVars

\* A managed agent that booted off the gateway, and whose gateway answers from some time
\* on, ends up with the gateway's entry in its config, and keeps it.  (Unless the file does
\* not parse: the check then leaves it alone.  An agent that booted on the gateway has no
\* such check: OpenCode's rules step can cost it the entry, if the MCP step then fails.)
GatewayIsKept ==
  <>[](gatewayUp /\ ~At("reprobe", "off"))
    => <>[]("nairi" \in config.servers \/ config.state = "broken")

\* A launch has an allow rule for each server of the config that nairid wrote
\* (main.go:409: "claudeAllowRules returns an allow rule per MCP server in the agent
\* CLI's config").  The rules come from nairid's directory, which a refresh that failed
\* has emptied.
AllowRulesCoverConfig ==
  [][cli.pc = "none" /\ cli'.pc = "launched" => config.servers \ {"users"} \subseteq cli'.allowed]_configVars
=============================================================================
