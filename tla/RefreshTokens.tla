--------------------------- MODULE RefreshTokens ---------------------------
(***************************************************************************)
(* Refresh tokens of one user in Redis (refresh_token.go), as the login,   *)
(* refresh and logout handlers of examples/jwt_enhanced use them. Each     *)
(* handler is the list of the Redis commands it sends one by one; another  *)
(* handler's come in between. A token stands for its jti, its session and  *)
(* the device of the client it is made for; rotation is enabled.           *)
(***************************************************************************)
EXTENDS Integers, Sequences, FiniteSets

CONSTANTS Clients,   \* clients of the user, each with a device of its own
          MaxCalls,  \* handlers that run
          MaxTokenFaults

VARIABLES
  todo,       \* the commands each client's handler has still to send
  fresh,      \* the token it makes, 0 if none
  sent,       \* the refresh token that came with the request
  oldMeta,    \* the token whose metadata it has read
  holds,      \* the refresh token each client was given last
  mainKey,    \* refresh_token:<user>
  metaKey,    \* refresh_token:<user>:meta
  activeKey,  \* refresh_token:active:<user>
  deviceKey,  \* refresh_token:<user>:device:<device>
  made,       \* tokens made so far
  calls,
  alone,      \* clients whose handler has met no other
  given,      \* the token last given out, 0 when another handler ran since
  tokenFaults

tokenVars == <<todo, fresh, sent, oldMeta, holds, mainKey, metaKey, activeKey, deviceKey, made,
               calls, alone, given, tokenFaults>>
redisKeys == <<mainKey, metaKey, activeKey, deviceKey>>
local == <<fresh, sent, holds, made, calls, alone>>

Tokens == 0 .. MaxCalls
StoreSteps == <<"set", "meta", "active", "device">>
RevokeSteps == <<"getmeta", "delkey", "delmeta", "srem", "deldevice">>

\* The commands of handleLogin, handleRefresh, handleLogout and handleRevokeAll.
StoresFirst(h) ==  \* bug: Rotate stores the new token before it revokes the old
  CASE h = "login" -> StoreSteps
    [] h = "refresh" -> <<"validate">> \o StoreSteps \o RevokeSteps
    [] h = "logout" -> RevokeSteps
    [] h = "revokeAll" -> RevokeSteps \o <<"scan", "delactive">>
Commands(h) ==
  CASE h = "login" -> StoreSteps
    [] h = "refresh" -> <<"validate">> \o RevokeSteps \o StoreSteps
    [] h = "logout" -> RevokeSteps
    [] h = "revokeAll" -> RevokeSteps \o <<"scan", "delactive">>
Steps == {"validate", "scan", "delactive"} \cup {StoreSteps[i] : i \in 1 .. 4}
           \cup {RevokeSteps[i] : i \in 1 .. 5}

TokenTypeOK ==
  /\ \A c \in Clients : Len(todo[c]) <= 10 /\ \A i \in 1 .. Len(todo[c]) : todo[c][i] \in Steps
  /\ {fresh, sent, oldMeta, holds, deviceKey} \subseteq [Clients -> Tokens]
  /\ {mainKey, metaKey, made, calls, given} \subseteq Tokens
  /\ activeKey \subseteq Tokens \ {0} /\ alone \subseteq Clients
  /\ tokenFaults \in 0 .. MaxTokenFaults

Init ==
  /\ todo = [c \in Clients |-> <<>>]
  /\ \E zero \in {[c \in Clients |-> 0]} :
       fresh = zero /\ sent = zero /\ oldMeta = zero /\ holds = zero /\ deviceKey = zero
  /\ mainKey = 0 /\ metaKey = 0 /\ activeKey = {} /\ made = 0 /\ calls = 0
  /\ alone = {} /\ given = 0 /\ tokenFaults = 0

Begin(c, h) ==
  /\ todo[c] = <<>> /\ calls < MaxCalls /\ calls' = calls + 1
  /\ h = "refresh" => holds[c] # 0
  /\ todo' = [todo EXCEPT ![c] = Commands(h)]
  /\ LET new == IF h \in {"login", "refresh"} THEN made + 1 ELSE 0
     IN fresh' = [fresh EXCEPT ![c] = new] /\ made' = IF new = 0 THEN made ELSE new
  /\ sent' = [sent EXCEPT ![c] = holds[c]]
  /\ alone' = IF \A d \in Clients : todo[d] = <<>> THEN {c} ELSE {}
  /\ given' = 0
  /\ UNCHANGED <<oldMeta, holds, redisKeys, tokenFaults>>

\* The client gets the token with the answer to the last command.
Answers(c, rest) ==
  IF rest = <<>> /\ fresh[c] # 0
  THEN /\ holds' = [holds EXCEPT ![c] = fresh[c]]
       /\ given' = IF c \in alone THEN fresh[c] ELSE 0
  ELSE UNCHANGED <<holds, given>>
Did(c) == /\ todo' = [todo EXCEPT ![c] = Tail(@)] /\ Answers(c, Tail(todo[c]))
          /\ UNCHANGED <<fresh, sent, made, calls, alone, tokenFaults>>
Does(c, step) == todo[c] # <<>> /\ Head(todo[c]) = step

\* ValidateRefreshToken: a token that is not the stored one ends the request.
Validate(c) ==
  /\ Does(c, "validate")
  /\ todo' = [todo EXCEPT ![c] = IF mainKey = sent[c] THEN Tail(@) ELSE <<>>]
  /\ UNCHANGED <<local, oldMeta, redisKeys, given, tokenFaults>>

\* StoreRefreshToken.
SetKey(c) == /\ Does(c, "set") /\ Did(c) /\ mainKey' = fresh[c]
             /\ UNCHANGED <<oldMeta, metaKey, activeKey, deviceKey>>
SetMeta(c) == /\ Does(c, "meta") /\ Did(c) /\ metaKey' = fresh[c]
              /\ UNCHANGED <<oldMeta, mainKey, activeKey, deviceKey>>
AddActive(c) == /\ Does(c, "active") /\ Did(c) /\ activeKey' = activeKey \cup {fresh[c]}
                /\ UNCHANGED <<oldMeta, mainKey, metaKey, deviceKey>>
SetDevice(c) == /\ Does(c, "device") /\ Did(c)
                /\ deviceKey' = [deviceKey EXCEPT ![c] = fresh[c]]
                /\ UNCHANGED <<oldMeta, mainKey, metaKey, activeKey>>

\* RevokeRefreshToken: what it removes from the active set and the devices is
\* what the metadata named when it began.
GetMeta(c) == /\ Does(c, "getmeta") /\ Did(c) /\ oldMeta' = [oldMeta EXCEPT ![c] = metaKey]
              /\ UNCHANGED redisKeys
DelKey(c) == /\ Does(c, "delkey") /\ Did(c) /\ mainKey' = 0
             /\ UNCHANGED <<oldMeta, metaKey, activeKey, deviceKey>>
DelMeta(c) == /\ Does(c, "delmeta") /\ Did(c) /\ metaKey' = 0
              /\ UNCHANGED <<oldMeta, mainKey, activeKey, deviceKey>>
RemActive(c) == /\ Does(c, "srem") /\ Did(c) /\ activeKey' = activeKey \ {oldMeta[c]}
                /\ UNCHANGED <<oldMeta, mainKey, metaKey, deviceKey>>
\* The key of the device for which the revoked token was made.
DelDevice(c) ==
  /\ Does(c, "deldevice") /\ Did(c)
  /\ deviceKey' \in {[d \in Clients |-> IF d \in D THEN 0 ELSE deviceKey[d]] :
                       D \in IF oldMeta[c] = 0 THEN {{}} ELSE
                             LET made4 == {d \in Clients : deviceKey[d] = oldMeta[c]}
                             IN IF made4 # {} THEN {made4} ELSE {{}} \cup {{d} : d \in Clients}}
  /\ UNCHANGED <<oldMeta, mainKey, metaKey, activeKey>>

\* The end of RevokeAllUserTokens.
ScanDevices(c) == /\ Does(c, "scan") /\ Did(c) /\ deviceKey' = [d \in Clients |-> 0]
                  /\ UNCHANGED <<oldMeta, mainKey, metaKey, activeKey>>
DelActive(c) == /\ Does(c, "delactive") /\ Did(c) /\ activeKey' = {}
                /\ UNCHANGED <<oldMeta, mainKey, metaKey, deviceKey>>

\* A command fails: the handler answers with an error, except for those whose
\* error nobody looks at. The command may have been executed before.
Fails(c) ==
  /\ todo[c] # <<>> /\ tokenFaults < MaxTokenFaults /\ tokenFaults' = tokenFaults + 1
  /\ todo' = [todo EXCEPT ![c] = IF Head(@) \in {"validate", "set", "meta", "delkey", "delmeta"}
                                 THEN <<>> ELSE Tail(@)]
  /\ oldMeta' = [oldMeta EXCEPT ![c] = IF Head(todo[c]) = "getmeta" THEN 0 ELSE @]
  /\ alone' = alone \ {c}
  /\ holds' = [holds EXCEPT ![c] = IF Head(todo[c]) = "device" THEN fresh[c] ELSE @]
  /\ UNCHANGED <<fresh, sent, redisKeys, made, calls, given>>

\* The keys have the same lifetime.
Expire ==
  /\ mainKey # 0 /\ \A c \in Clients : todo[c] = <<>>
  /\ mainKey' = 0 /\ metaKey' = 0 /\ activeKey' = {} /\ deviceKey' = [d \in Clients |-> 0]
  /\ given' = 0
  /\ UNCHANGED <<todo, local, oldMeta, tokenFaults>>

Command(c) ==
  \/ Validate(c) \/ SetKey(c) \/ SetMeta(c) \/ AddActive(c) \/ SetDevice(c)
  \/ GetMeta(c) \/ DelKey(c) \/ DelMeta(c) \/ RemActive(c) \/ DelDevice(c)
  \/ ScanDevices(c) \/ DelActive(c) \/ Fails(c)
Next ==
  \/ \E c \in Clients : Command(c)
  \/ \E c \in Clients, h \in {"login", "refresh", "logout", "revokeAll"} : Begin(c, h)
  \/ Expire

Spec == Init /\ [][Next]_tokenVars

-----------------------------------------------------------------------------
\* A token that was given out by a handler no other interfered with, and after
\* which none began, is the one all four keys name: it is accepted, and a
\* logout finds it (StoreRefreshToken after RevokeRefreshToken in Rotate).
GivenTokenWorks ==
  given # 0 => /\ mainKey = given /\ metaKey = given /\ given \in activeKey
               /\ \E c \in Clients : holds[c] = given /\ deviceKey[c] = given
=============================================================================
