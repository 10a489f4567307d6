---------------------------- MODULE Mt5Commands ----------------------------
(***************************************************************************)
(* Entry orders of an MT5 account.  A caller (strategy runner, copy task,  *)
(* manual approval) inserts a command row and the LiveOrder row in one     *)
(* transaction; the agent beside the Windows terminal polls for commands,  *)
(* executes a batch one after the other and posts each result.  A request  *)
(* the agent has given up may still be served: a poll by a handler that    *)
(* read before another one committed, a result stored late.                *)
(***************************************************************************)
EXTENDS Naturals, FiniteSets

CONSTANTS
    EntryKeys,     \* client_order_ids
    Callers,       \* sessions that execute an entry
    Polls,         \* handlers of GET /mt5-agent/commands
    Agents,        \* agent processes with the account's token
    NoPoll,        \* an agent that waits for no handler
    MaxCommands    \* bound: command rows

ASSUME Mt5Assumption == MaxCommands \in Nat /\ NoPoll \notin Polls /\ EntryKeys # {}

Commands == 1..MaxCommands

VARIABLES
    command_key,     \* the key in a command row's request_payload
    command_status,  \* its status; "free" is a row not inserted
    entry,           \* status of the LiveOrder row of each key
    caller,          \* the transaction of each caller
    poll,            \* what each handler has selected and whether it answered
    agent,           \* where each agent is
    results,         \* posts of a result that are under way
    working,         \* keys whose order the terminal has taken and not decided
    submitted,       \* history: orders of each key given to order_send
    executed,        \* history: those the terminal executed, in full or in part
    retcodes         \* history: how the agent's attempts at each key ended

commandRows == <<command_key, command_status, entry>>
terminal == <<working, submitted, executed, retcodes>>
mt5Vars == <<commandRows, caller, poll, agent, results, terminal>>

CommandStates == {"free", "PENDING", "SENT", "COMPLETED", "ERROR"}
Open    == [at: {"idle"}] \cup [at: {"flushed"}, key: EntryKeys, insert: BOOLEAN]
PollAt  == [at: {"idle", "read", "select", "answered"}, rows: SUBSET Commands]
AgentAt == [at: {"idle", "waiting", "batch", "posting"}, poll: Polls \cup {NoPoll},
            todo: SUBSET Commands]
Posts == [id: Commands, ok: BOOLEAN]

\* order_send's answers: executed, executed in part (the filling is
\* immediate-or-cancel), taken and not decided, refused, no answer at all; or
\* the agent's own checks end before it.
Retcodes == {"DONE", "DONE_PARTIAL", "PLACED", "REJECTED", "NONE", "NOT_SENT"}

Mt5TypeOK ==
    /\ command_key \in [Commands -> EntryKeys]
    /\ command_status \in [Commands -> CommandStates]
    /\ entry \in [EntryKeys -> {"none", "PLACED", "FILLED", "ERROR"}]
    /\ caller \in [Callers -> Open] /\ poll \in [Polls -> PollAt]
    /\ agent \in [Agents -> AgentAt] /\ results \subseteq Posts
    /\ working \subseteq EntryKeys
    /\ {submitted, executed} \subseteq [EntryKeys -> Nat]
    /\ retcodes \in [EntryKeys -> SUBSET Retcodes]

Ready   == [at |-> "idle", poll |-> NoPoll, todo |-> {}]
WorksOn(rows) == [at |-> IF rows = {} THEN "idle" ELSE "batch", poll |-> NoPoll, todo |-> rows]
NoRows  == [at |-> "idle", rows |-> {}]
NoOrder == [at |-> "idle"]

Mt5Init ==
    /\ command_key = [i \in Commands |-> CHOOSE k \in EntryKeys : TRUE]
    /\ command_status = [i \in Commands |-> "free"]
    /\ entry = [k \in EntryKeys |-> "none"]
    /\ caller = [c \in Callers |-> NoOrder] /\ poll = [p \in Polls |-> NoRows]
    /\ agent = [g \in Agents |-> Ready] /\ results = {}
    /\ working = {} /\ retcodes = [k \in EntryKeys |-> {}]
    /\ submitted = [k \in EntryKeys |-> 0] /\ executed = [k \in EntryKeys |-> 0]

-----------------------------------------------------------------------------
(* The caller: place_market_order inside _execute_demo_entry *)

Inserted == {i \in Commands : command_status[i] # "free"}
Existing(k) == \E i \in Inserted : command_key[i] = k

\* An order of the key that is there is returned; an existing command is
\* adopted, whatever became of it; otherwise one is added to the transaction.
PlaceOrder(c, k) ==
    /\ caller[c] = NoOrder /\ entry[k] = "none"
    /\ caller' = [caller EXCEPT ![c] = [at |-> "flushed", key |-> k, insert |-> ~Existing(k)]]
    /\ UNCHANGED <<commandRows, poll, agent, results, terminal>>

\* Faulty variant: client_order_id is indexed and not unique.
BadUnique(c) == TRUE

\* client_order_id is unique among the order rows.
Unique(c) == entry[caller[c].key] = "none"

CommitEntry(c) ==
    /\ caller[c].at = "flushed" /\ Unique(c)
    /\ entry' = [entry EXCEPT ![caller[c].key] = "PLACED"]
    /\ \/ /\ caller[c].insert
          /\ Cardinality(Inserted) < MaxCommands
          /\ LET i == Cardinality(Inserted) + 1
             IN  /\ command_key' = [command_key EXCEPT ![i] = caller[c].key]
                 /\ command_status' = [command_status EXCEPT ![i] = "PENDING"]
       \/ ~caller[c].insert /\ UNCHANGED <<command_key, command_status>>
    /\ caller' = [caller EXCEPT ![c] = NoOrder]
    /\ UNCHANGED <<poll, agent, results, terminal>>

\* The agent's heartbeat is stale: the order is an error and no command exists.
CommitNoAgent(c) ==
    /\ caller[c].at = "flushed" /\ caller[c].insert /\ Unique(c)
    /\ entry' = [entry EXCEPT ![caller[c].key] = "ERROR"]
    /\ caller' = [caller EXCEPT ![c] = NoOrder]
    /\ UNCHANGED <<command_key, command_status, poll, agent, results, terminal>>

\* The row is a duplicate or the process dies: all is rolled back.
RollbackEntry(c) ==
    /\ caller[c].at = "flushed"
    /\ caller' = [caller EXCEPT ![c] = NoOrder]
    /\ UNCHANGED <<commandRows, poll, agent, results, terminal>>

-----------------------------------------------------------------------------
(* GET /mt5-agent/commands *)

\* The agent asks; its HTTP client asks again after an error or a timeout, and
\* the first request goes on without it.
AgentPolls(g, p) ==
    /\ agent[g].at \in {"idle", "waiting"} /\ poll[p] = NoRows
    /\ agent' = [agent EXCEPT ![g] = [at |-> "waiting", poll |-> p, todo |-> {}]]
    /\ poll' = [poll EXCEPT ![p].at = "read"]
    /\ UNCHANGED <<commandRows, caller, results, terminal>>

\* The rows are selected without a lock ...
PollSelect(p) ==
    /\ poll[p].at = "read"
    /\ poll' = [poll EXCEPT ![p] = [at |-> "select",
                   rows |-> {i \in Inserted : command_status[i] = "PENDING"}]]
    /\ UNCHANGED <<commandRows, caller, agent, results, terminal>>

\* ... and marked whatever has become of them since.
PollCommit(p) ==
    /\ poll[p].at = "select"
    /\ command_status' = [i \in Commands |->
            IF i \in poll[p].rows THEN "SENT" ELSE command_status[i]]
    /\ poll' = [poll EXCEPT ![p].at = "answered"]
    /\ UNCHANGED <<command_key, entry, caller, agent, results, terminal>>

\* The response reaches the agent, or there is no one to read it.
PollAnswer(p) ==
    /\ poll[p].at = "answered" /\ poll' = [poll EXCEPT ![p] = NoRows]
    /\ agent' = [g \in Agents |->
            IF agent[g].poll = p THEN WorksOn(poll[p].rows) ELSE agent[g]]
    /\ UNCHANGED <<commandRows, caller, results, terminal>>

-----------------------------------------------------------------------------
(* The agent's loop *)

First(S) == CHOOSE i \in S : \A j \in S : i <= j

\* Faulty variant: every answer of order_send is a success.
BadAccepted(code) == code \in Retcodes \ {"NONE", "NOT_SENT"}

\* The agent reports success for DONE and PLACED and for nothing else.
Accepted(code) == code \in {"DONE", "PLACED"}

\* How many orders are executed when order_send ends with a code.
Executions(code) ==
    CASE code \in {"DONE", "DONE_PARTIAL"} -> {1}
      [] code = "NONE" -> {0, 1}
      [] OTHER -> {0}

\* The agent takes the next command of its batch to the terminal and prepares
\* the result.  (A copy refused for its stops is sent once more: the last answer
\* counts.)
Execute(g) ==
    LET i == First(agent[g].todo)
        k == command_key[i]
    IN  /\ agent[g].at = "batch"
        /\ \E code \in Retcodes :
            /\ submitted' = [submitted EXCEPT ![k] = IF code = "NOT_SENT" THEN @ ELSE @ + 1]
            /\ \E n \in Executions(code) : executed' = [executed EXCEPT ![k] = @ + n]
            /\ working' = IF code = "PLACED" THEN working \cup {k} ELSE working
            /\ retcodes' = [retcodes EXCEPT ![k] = @ \cup {code}]
            /\ results' = results \cup {[id |-> i, ok |-> Accepted(code)]}
        /\ agent' = [agent EXCEPT ![g].at = "posting"]
        /\ UNCHANGED <<commandRows, caller, poll>>

\* An order that was only taken is executed later, or it is dropped; nobody
\* tells the agent.
TerminalDecides(k) ==
    /\ k \in working /\ working' = working \ {k}
    /\ \E n \in {0, 1} : executed' = [executed EXCEPT ![k] = @ + n]
    /\ UNCHANGED <<commandRows, caller, poll, agent, results, submitted, retcodes>>

Outcome(ok) == IF ok THEN "FILLED" ELSE "ERROR"

\* POST /mt5-agent/command-result, also for an agent that has given it up: the
\* command row and the order of its key are written.
StoreResult(r) ==
    /\ r \in results /\ results' = results \ {r}
    /\ command_status' = [command_status EXCEPT ![r.id] =
                                IF r.ok THEN "COMPLETED" ELSE "ERROR"]
    /\ entry' = [entry EXCEPT ![command_key[r.id]] = Outcome(r.ok)]
    /\ agent' = [g \in Agents |->
            IF agent[g].at = "posting" /\ First(agent[g].todo) = r.id
            THEN WorksOn(agent[g].todo \ {r.id}) ELSE agent[g]]
    /\ UNCHANGED <<command_key, caller, poll, terminal>>

\* A poll or a post fails, or the agent is restarted: the rest of the batch is
\* forgotten; a post may be served all the same.
AgentLoses(g) ==
    /\ agent[g] # Ready
    /\ agent' = [agent EXCEPT ![g] = Ready]
    /\ results' \in {results, {r \in results :
                        ~(agent[g].at = "posting" /\ r.id = First(agent[g].todo))}}
    /\ UNCHANGED <<commandRows, caller, poll, terminal>>

Mt5Next ==
    \/ \E c \in Callers : \/ \E k \in EntryKeys : PlaceOrder(c, k)
                          \/ CommitEntry(c) \/ CommitNoAgent(c) \/ RollbackEntry(c)
    \/ \E p \in Polls : \/ \E g \in Agents : AgentPolls(g, p)
                        \/ PollSelect(p) \/ PollCommit(p) \/ PollAnswer(p)
    \/ \E g \in Agents : Execute(g) \/ AgentLoses(g)
    \/ \E r \in Posts : StoreResult(r)
    \/ \E k \in EntryKeys : TerminalDecides(k)

Mt5Spec == Mt5Init /\ [][Mt5Next]_mt5Vars

-----------------------------------------------------------------------------
(* Properties *)

\* The terminal executes the entry of one client_order_id at most once: with
\* racing callers, overlapping polls, abandoned requests and restarts.
EntryExecutedOnce == \A k \in EntryKeys : executed[k] <= 1

\* The order row tells what the terminal did, however late the result came,
\* up to what the agent makes of its answer: FILLED was executed unless it was
\* only PLACED, and ERROR was not unless it was executed in part or there was
\* no answer.
EntryTellsTruth ==
    \A k \in EntryKeys :
        /\ entry[k] = "FILLED" => executed[k] >= 1 \/ "PLACED" \in retcodes[k]
        /\ entry[k] = "ERROR" =>
            executed[k] = 0 \/ retcodes[k] \cap {"DONE_PARTIAL", "NONE"} # {}

\* A stored result is final: no late post, abandoned poll or second request
\* leads from it to another.
EntryIsFinal ==
    [][\A k \in EntryKeys : entry[k] \in {"FILLED", "ERROR"} => entry'[k] = entry[k]]_mt5Vars

\* The command queue sends and records like the cTrader gateway: order_send is
\* the sending, FILLED the recorded acceptance, which a PLACED order may have
\* without an execution.  The answers are this order's own (nothing is mistaken).
\* What a caller is told is left out (no requests): PLACED means there that the
\* command was stored.
EntryService ==
    INSTANCE OrderService WITH
        Keys <- EntryKeys, Requests <- {}, None <- "none", sent <- submitted, mistaken <- {},
        outcome <- [k \in EntryKeys |-> IF entry[k] = "FILLED" THEN "FILLED" ELSE "none"],
        told <- [r \in {} |-> "none"]

EntryServiceSpec == EntryService!Spec
=============================================================================
