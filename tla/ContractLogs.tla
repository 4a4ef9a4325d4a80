---------------------------- MODULE ContractLogs ----------------------------
(***************************************************************************)
(* The events of the two contract bindings (internal/controllers/contracts,*)
(* generated by abigen) and what binds them to the logs of the chain: the  *)
(* topics a Filter or Watch call asks for, the logs the node then returns, *)
(* and the unpacking of a log.  The code of an event (its iterator, Filter,*)
(* Watch and Parse functions) is the same for all events up to the name of *)
(* the event and the rules it passes, in order: that is what Event keeps.  *)
(* EventIterator and EventWatch model the code itself.                     *)
(***************************************************************************)
EXTENDS Naturals, Sequences

\* name: the event given to FilterLogs, WatchLogs and UnpackLog;
\* rules: the arguments of Filter and Watch, in the order in which they are passed;
\* inputs: the indexed inputs, in the order in which the contract logs them.
Event(abi, name, rules) == [name |-> name, rules |-> rules, inputs |-> abi[name]]

-----------------------------------------------------------------------------
(* contracts/token.go                                                      *)

\* The events of the contract and their indexed inputs, as its ABI has them.
TokenABI ==
    [AdminChanged |-> <<>>,
     Approval |-> <<"owner", "spender">>,
     BeaconUpgraded |-> <<"beacon">>,
     DelegateChanged |-> <<"delegator", "fromDelegate", "toDelegate">>,
     DelegateVotesChanged |-> <<"delegate">>,
     Initialized |-> <<>>,
     Paused |-> <<>>,
     RoleAdminChanged |-> <<"role", "previousAdminRole", "newAdminRole">>,
     RoleGranted |-> <<"role", "account", "sender">>,
     RoleRevoked |-> <<"role", "account", "sender">>,
     Transfer |-> <<"from", "to">>,
     Unpaused |-> <<>>,
     Upgraded |-> <<"implementation">>]

TokenAdminChanged ==
    Event(TokenABI, "AdminChanged", <<>>)
TokenApproval ==
    Event(TokenABI, "Approval", <<"owner", "spender">>)
TokenBeaconUpgraded ==
    Event(TokenABI, "BeaconUpgraded", <<"beacon">>)
TokenDelegateChanged ==
    Event(TokenABI, "DelegateChanged", <<"delegator", "fromDelegate", "toDelegate">>)
TokenDelegateVotesChanged ==
    Event(TokenABI, "DelegateVotesChanged", <<"delegate">>)
TokenInitialized ==
    Event(TokenABI, "Initialized", <<>>)
TokenPaused ==
    Event(TokenABI, "Paused", <<>>)
TokenRoleAdminChanged ==
    Event(TokenABI, "RoleAdminChanged", <<"role", "previousAdminRole", "newAdminRole">>)
TokenRoleGranted ==
    Event(TokenABI, "RoleGranted", <<"role", "account", "sender">>)
TokenRoleRevoked ==
    Event(TokenABI, "RoleRevoked", <<"role", "account", "sender">>)
\* Mutant: the rules are passed in the wrong order.
TokenTransferSwapped ==
    Event(TokenABI, "Transfer", <<"to", "from">>)
TokenTransfer ==
    Event(TokenABI, "Transfer", <<"from", "to">>)
TokenUnpaused ==
    Event(TokenABI, "Unpaused", <<>>)
TokenUpgraded ==
    Event(TokenABI, "Upgraded", <<"implementation">>)

TokenEvents ==
    {TokenAdminChanged, TokenApproval, TokenBeaconUpgraded,
     TokenDelegateChanged, TokenDelegateVotesChanged, TokenInitialized,
     TokenPaused, TokenRoleAdminChanged, TokenRoleGranted, TokenRoleRevoked,
     TokenTransfer, TokenUnpaused, TokenUpgraded}

-----------------------------------------------------------------------------
(* contracts/multi.go                                                      *)

\* The events of the contract and their indexed inputs, as its ABI has them.
MultiPrivilegeABI ==
    [AdminChanged |-> <<>>,
     Approval |-> <<"owner", "approved", "tokenId">>,
     ApprovalForAll |-> <<"owner", "operator">>,
     BeaconUpgraded |-> <<"beacon">>,
     Initialized |-> <<>>,
     PrivilegeCreated |-> <<"privilegeId">>,
     PrivilegeDisabled |-> <<"privilegeId">>,
     PrivilegeEnabled |-> <<"privilegeId">>,
     PrivilegeSet |-> <<"tokenId", "privId", "user">>,
     RoleAdminChanged |-> <<"role", "previousAdminRole", "newAdminRole">>,
     RoleGranted |-> <<"role", "account", "sender">>,
     RoleRevoked |-> <<"role", "account", "sender">>,
     Transfer |-> <<"from", "to", "tokenId">>,
     Upgraded |-> <<"implementation">>]

MultiPrivilegeAdminChanged ==
    Event(MultiPrivilegeABI, "AdminChanged", <<>>)
MultiPrivilegeApproval ==
    Event(MultiPrivilegeABI, "Approval", <<"owner", "approved", "tokenId">>)
MultiPrivilegeApprovalForAll ==
    Event(MultiPrivilegeABI, "ApprovalForAll", <<"owner", "operator">>)
MultiPrivilegeBeaconUpgraded ==
    Event(MultiPrivilegeABI, "BeaconUpgraded", <<"beacon">>)
MultiPrivilegeInitialized ==
    Event(MultiPrivilegeABI, "Initialized", <<>>)
MultiPrivilegePrivilegeCreated ==
    Event(MultiPrivilegeABI, "PrivilegeCreated", <<"privilegeId">>)
MultiPrivilegePrivilegeDisabled ==
    Event(MultiPrivilegeABI, "PrivilegeDisabled", <<"privilegeId">>)
MultiPrivilegePrivilegeEnabled ==
    Event(MultiPrivilegeABI, "PrivilegeEnabled", <<"privilegeId">>)
MultiPrivilegePrivilegeSet ==
    Event(MultiPrivilegeABI, "PrivilegeSet", <<"tokenId", "privId", "user">>)
MultiPrivilegeRoleAdminChanged ==
    Event(MultiPrivilegeABI, "RoleAdminChanged", <<"role", "previousAdminRole", "newAdminRole">>)
MultiPrivilegeRoleGranted ==
    Event(MultiPrivilegeABI, "RoleGranted", <<"role", "account", "sender">>)
MultiPrivilegeRoleRevoked ==
    Event(MultiPrivilegeABI, "RoleRevoked", <<"role", "account", "sender">>)
MultiPrivilegeTransfer ==
    Event(MultiPrivilegeABI, "Transfer", <<"from", "to", "tokenId">>)
MultiPrivilegeUpgraded ==
    Event(MultiPrivilegeABI, "Upgraded", <<"implementation">>)

MultiPrivilegeEvents ==
    {MultiPrivilegeAdminChanged, MultiPrivilegeApproval,
     MultiPrivilegeApprovalForAll, MultiPrivilegeBeaconUpgraded,
     MultiPrivilegeInitialized, MultiPrivilegePrivilegeCreated,
     MultiPrivilegePrivilegeDisabled, MultiPrivilegePrivilegeEnabled,
     MultiPrivilegePrivilegeSet, MultiPrivilegeRoleAdminChanged,
     MultiPrivilegeRoleGranted, MultiPrivilegeRoleRevoked,
     MultiPrivilegeTransfer, MultiPrivilegeUpgraded}

-----------------------------------------------------------------------------
CONSTANTS Value    \* the values of indexed arguments

\* A log of the contract: the event whose signature is its first topic, the
\* other topics, and whether its data is what the ABI says.
Log == [name : STRING, topics : Seq(Value), data : BOOLEAN]

\* The arguments of a call: the wanted values of each field, none for any value.
Arguments(e) ==
    [{e.rules[i] : i \in DOMAIN e.rules} -> SUBSET Value]

\* The topics given to FilterLogs and WatchLogs after the signature.
Query(e, args) == [i \in DOMAIN e.rules |-> args[e.rules[i]]]

\* The node returns a log if every position of the query admits its topic
\* (external).
Matches(e, query, log) ==
    /\ log.name = e.name
    /\ Len(query) =< Len(log.topics)
    /\ \A i \in DOMAIN query : query[i] = {} \/ log.topics[i] \in query[i]

\* UnpackLog and its result, the indexed fields of the event struct (external).
Unpacks(e, log) ==
    log.name = e.name /\ log.data /\ Len(log.topics) = Len(e.inputs)
Unpack(e, log) ==
    [f \in {e.inputs[i] : i \in DOMAIN e.inputs} |->
        log.topics[CHOOSE i \in DOMAIN e.inputs : e.inputs[i] = f]]

\* The members of S in a sequence of logs, in their order.
Among(s, S) ==
    LET among[n \in Nat] ==
            IF n = 0 THEN <<>>
            ELSE IF s[n] \in S THEN Append(among[n - 1], s[n]) ELSE among[n - 1]
    IN  among[Len(s)]

\* What the caller wants: events whose fields are among its arguments.
Wanted(e, args, log) ==
    /\ Unpacks(e, log)
    /\ \A f \in DOMAIN args : args[f] = {} \/ Unpack(e, log)[f] \in args[f]
=============================================================================
