--------------------------- MODULE PlatformProofs ---------------------------
(***************************************************************************)
(* Refresh tokens, the pools of the fetcher, database clients, the lock    *)
(* and the rate limiter, for every value of the constants. The parts of    *)
(* MCPlatform share no state: each has an inductive invariant of its own,  *)
(* and PartsStep turns a step of the specification into a step of each.    *)
(***************************************************************************)
EXTENDS MCPlatform, FiniteSetTheorems, SequenceTheorems, TLAPS

-----------------------------------------------------------------------------
(* Refresh tokens.                                                         *)

\* What is left of a handler that makes a token: the end of what handleRefresh does.
Refreshing == <<"validate", "getmeta", "delkey", "delmeta", "srem", "deldevice",
                "set", "meta", "active", "device">>
EndsLike(s) == /\ Len(s) <= 10
               /\ \A i \in 1..Len(s) : s[i] = Refreshing[10 - Len(s) + i]
TodoOK(c) == /\ Len(todo[c]) <= 10
             /\ fresh[c] # 0 => EndsLike(todo[c])
             /\ fresh[c] = 0 => \A i \in 1..Len(todo[c]) :
                                  todo[c][i] \notin {"set", "meta", "active", "device"}

\* How far a handler nobody interferes with has come in storing its token.
Togo(c) == Len(todo[c])
StoredSoFar(c) ==
  fresh[c] # 0 /\ todo[c] # <<>> => /\ Togo(c) <= 3 => mainKey = fresh[c]
                                    /\ Togo(c) <= 2 => metaKey = fresh[c]
                                    /\ Togo(c) <= 1 => fresh[c] \in activeKey
AloneInv == \A c \in alone : StoredSoFar(c) /\ \A d \in Clients : d # c => todo[d] = <<>>

\* Between handlers, a token given out is in all four keys.
GivenInv == given # 0 => (\A c \in Clients : todo[c] = <<>>) /\ Tokens!GivenTokenWorks

TokenTypes ==
  /\ todo \in [Clients -> Seq(Tokens!Steps)]
  /\ fresh \in [Clients -> Tokens!Tokens] /\ sent \in [Clients -> Tokens!Tokens]
  /\ oldMeta \in [Clients -> Tokens!Tokens] /\ holds \in [Clients -> Tokens!Tokens]
  /\ deviceKey \in [Clients -> Tokens!Tokens]
  /\ mainKey \in Tokens!Tokens /\ metaKey \in Tokens!Tokens /\ given \in Tokens!Tokens
  /\ made \in Nat /\ calls \in Nat /\ made <= calls /\ calls <= MaxCalls
  /\ activeKey \subseteq Tokens!Tokens \ {0} /\ alone \subseteq Clients
  /\ tokenFaults \in 0..MaxTokenFaults

TokenInv == TokenTypes /\ (\A c \in Clients : TodoOK(c)) /\ AloneInv /\ GivenInv

LEMMA TokenTyped == ASSUME TokenInv PROVE Tokens!TokenTypeOK
<1>1. made \in Tokens!Tokens /\ calls \in Tokens!Tokens
  BY TokenBounds DEF TokenInv, TokenTypes, Tokens!Tokens
<1>2. ASSUME NEW c \in Clients
      PROVE  Len(todo[c]) <= 10 /\ \A i \in 1..Len(todo[c]) : todo[c][i] \in Tokens!Steps
  BY DEF TokenInv, TokenTypes, TodoOK
<1>. QED  BY <1>1, <1>2 DEF TokenInv, TokenTypes, Tokens!TokenTypeOK

\* The programs of the handlers.
LEMMA StepsAre == Tokens!Steps = {"validate", "scan", "delactive", "set", "meta", "active", "device",
                                  "getmeta", "delkey", "delmeta", "srem", "deldevice"}
<1>1. /\ {Tokens!StoreSteps[i] : i \in 1 .. 4} = {"set", "meta", "active", "device"}
  <2>1. /\ Tokens!StoreSteps[1] = "set" /\ Tokens!StoreSteps[2] = "meta"
        /\ Tokens!StoreSteps[3] = "active" /\ Tokens!StoreSteps[4] = "device"
    BY DEF Tokens!StoreSteps
  <2>2. \A i \in 1..4 : i \in {1, 2, 3, 4}
    OBVIOUS
  <2>. QED  BY <2>1, <2>2
<1>2. {Tokens!RevokeSteps[i] : i \in 1 .. 5} = {"getmeta", "delkey", "delmeta", "srem", "deldevice"}
  <2>1. /\ Tokens!RevokeSteps[1] = "getmeta" /\ Tokens!RevokeSteps[2] = "delkey"
        /\ Tokens!RevokeSteps[3] = "delmeta" /\ Tokens!RevokeSteps[4] = "srem"
        /\ Tokens!RevokeSteps[5] = "deldevice"
    BY DEF Tokens!RevokeSteps
  <2>2. \A i \in 1..5 : i \in {1, 2, 3, 4, 5}
    OBVIOUS
  <2>. QED  BY <2>1, <2>2
<1>. QED  BY <1>1, <1>2 DEF Tokens!Steps

LEMMA Joined ==
  ASSUME NEW T, NEW p \in Seq(T), NEW q \in Seq(T)
  PROVE  /\ p \o q \in Seq(T) /\ Len(p \o q) = Len(p) + Len(q)
         /\ \A i \in 1..Len(p) : (p \o q)[i] = p[i]
         /\ \A i \in 1..Len(q) : (p \o q)[Len(p) + i] = q[i]
  BY ConcatProperties

LEMMA StoreProgram ==
  /\ Tokens!StoreSteps \in Seq(Tokens!Steps) /\ Len(Tokens!StoreSteps) = 4
  /\ Tokens!StoreSteps[1] = "set" /\ Tokens!StoreSteps[2] = "meta"
  /\ Tokens!StoreSteps[3] = "active" /\ Tokens!StoreSteps[4] = "device"
  BY StepsAre DEF Tokens!StoreSteps

LEMMA RevokeProgram ==
  /\ Tokens!RevokeSteps \in Seq(Tokens!Steps) /\ Len(Tokens!RevokeSteps) = 5
  /\ Tokens!RevokeSteps[1] = "getmeta" /\ Tokens!RevokeSteps[2] = "delkey"
  /\ Tokens!RevokeSteps[3] = "delmeta" /\ Tokens!RevokeSteps[4] = "srem"
  /\ Tokens!RevokeSteps[5] = "deldevice"
  BY StepsAre DEF Tokens!RevokeSteps

LEMMA LoginProgram ==
  Tokens!Commands("login") \in Seq(Tokens!Steps) /\ EndsLike(Tokens!Commands("login"))
<1> DEFINE z == Tokens!Commands("login")
<1>1. z = Tokens!StoreSteps
  BY DEF Tokens!Commands
<1> HIDE DEF z
<1>2. /\ z \in Seq(Tokens!Steps) /\ Len(z) = 4
      /\ z[1] = "set" /\ z[2] = "meta" /\ z[3] = "active" /\ z[4] = "device"
  BY <1>1, StoreProgram
<1>3. /\ Refreshing[7] = "set" /\ Refreshing[8] = "meta" /\ Refreshing[9] = "active"
      /\ Refreshing[10] = "device"
  BY DEF Refreshing
<1>4. ASSUME NEW i \in 1..4 PROVE z[i] = Refreshing[10 - 4 + i]
  <2>1. \/ i = 1 /\ 10 - 4 + i = 7
        \/ i = 2 /\ 10 - 4 + i = 8
        \/ i = 3 /\ 10 - 4 + i = 9
        \/ i = 4 /\ 10 - 4 + i = 10
    OBVIOUS
  <2>. QED  BY <2>1, <1>2, <1>3
<1>5. EndsLike(z)
  BY <1>2, <1>4 DEF EndsLike
<1>. QED  BY <1>2, <1>5 DEF z

LEMMA LoginIsFour == Len(Tokens!Commands("login")) = 4
  BY StoreProgram DEF Tokens!Commands

LEMMA RefreshProgram ==
  /\ Tokens!Commands("refresh") \in Seq(Tokens!Steps) /\ Len(Tokens!Commands("refresh")) = 10
  /\ EndsLike(Tokens!Commands("refresh"))
<1> DEFINE v == <<"validate">>
           w == v \o Tokens!RevokeSteps
           z == Tokens!Commands("refresh")
<1>1. v \in Seq(Tokens!Steps) /\ Len(v) = 1 /\ v[1] = "validate"
  BY StepsAre
<1>2. z = w \o Tokens!StoreSteps
  BY DEF Tokens!Commands
<1> HIDE DEF v, z
<1>3. /\ w \in Seq(Tokens!Steps) /\ Len(w) = 1 + 5
      /\ \A i \in 1..1 : w[i] = v[i]
      /\ \A i \in 1..5 : w[1 + i] = Tokens!RevokeSteps[i]
  <2>1. Tokens!RevokeSteps \in Seq(Tokens!Steps) /\ Len(Tokens!RevokeSteps) = 5 /\ 1 \in Nat
          /\ 5 \in Nat
    BY RevokeProgram
  <2>2. /\ w \in Seq(Tokens!Steps) /\ Len(w) = Len(v) + Len(Tokens!RevokeSteps)
        /\ \A i \in 1..Len(v) : w[i] = v[i]
        /\ \A i \in 1..Len(Tokens!RevokeSteps) : w[Len(v) + i] = Tokens!RevokeSteps[i]
    <3>1. v \in Seq(Tokens!Steps) /\ Tokens!RevokeSteps \in Seq(Tokens!Steps)
      BY <1>1, <2>1
    <3>. QED  BY <3>1, Joined
  <2> HIDE DEF w
  <2>. QED  BY <1>1, <2>1, <2>2
<1> HIDE DEF w
<1>4. /\ Len(w) = 6 /\ w[1] = "validate" /\ w[2] = "getmeta" /\ w[3] = "delkey"
      /\ w[4] = "delmeta" /\ w[5] = "srem" /\ w[6] = "deldevice"
  <2>1. /\ w[1] = v[1] /\ w[1 + 1] = Tokens!RevokeSteps[1] /\ w[1 + 2] = Tokens!RevokeSteps[2]
        /\ w[1 + 3] = Tokens!RevokeSteps[3] /\ w[1 + 4] = Tokens!RevokeSteps[4]
        /\ w[1 + 5] = Tokens!RevokeSteps[5]
    BY <1>3
  <2>. QED  BY <1>1, <1>3, <2>1, RevokeProgram
<1>5. /\ z \in Seq(Tokens!Steps) /\ Len(z) = 6 + 4
      /\ \A i \in 1..6 : z[i] = w[i]
      /\ \A i \in 1..4 : z[6 + i] = Tokens!StoreSteps[i]
  <2>1. Tokens!StoreSteps \in Seq(Tokens!Steps) /\ Len(Tokens!StoreSteps) = 4 /\ 6 \in Nat
          /\ 4 \in Nat
    BY StoreProgram
  <2>2. w \in Seq(Tokens!Steps) /\ Len(w) = 6
    BY <1>3
  <2>3. /\ z \in Seq(Tokens!Steps) /\ Len(z) = Len(w) + Len(Tokens!StoreSteps)
        /\ \A i \in 1..Len(w) : z[i] = w[i]
        /\ \A i \in 1..Len(Tokens!StoreSteps) : z[Len(w) + i] = Tokens!StoreSteps[i]
    <3>1. w \in Seq(Tokens!Steps) /\ Tokens!StoreSteps \in Seq(Tokens!Steps)
      BY <2>1, <2>2
    <3>2. /\ w \o Tokens!StoreSteps \in Seq(Tokens!Steps)
          /\ Len(w \o Tokens!StoreSteps) = Len(w) + Len(Tokens!StoreSteps)
          /\ \A i \in 1..Len(w) : (w \o Tokens!StoreSteps)[i] = w[i]
          /\ \A i \in 1..Len(Tokens!StoreSteps) :
               (w \o Tokens!StoreSteps)[Len(w) + i] = Tokens!StoreSteps[i]
      BY <3>1, Joined
    <3>. QED  BY <1>2, <3>2
  <2>. QED  BY <2>1, <2>2, <2>3
<1>6. /\ Len(z) = 10 /\ z[1] = "validate" /\ z[2] = "getmeta" /\ z[3] = "delkey"
      /\ z[4] = "delmeta" /\ z[5] = "srem" /\ z[6] = "deldevice"
      /\ z[7] = "set" /\ z[8] = "meta" /\ z[9] = "active" /\ z[10] = "device"
  <2>1. /\ z[6 + 1] = Tokens!StoreSteps[1] /\ z[6 + 2] = Tokens!StoreSteps[2]
        /\ z[6 + 3] = Tokens!StoreSteps[3] /\ z[6 + 4] = Tokens!StoreSteps[4]
    BY <1>5
  <2>2. /\ z[1] = w[1] /\ z[2] = w[2] /\ z[3] = w[3] /\ z[4] = w[4] /\ z[5] = w[5] /\ z[6] = w[6]
    BY <1>5
  <2>. QED  BY <1>4, <1>5, <2>1, <2>2, StoreProgram
<1>7. /\ Refreshing[1] = "validate" /\ Refreshing[2] = "getmeta" /\ Refreshing[3] = "delkey"
      /\ Refreshing[4] = "delmeta" /\ Refreshing[5] = "srem" /\ Refreshing[6] = "deldevice"
      /\ Refreshing[7] = "set" /\ Refreshing[8] = "meta" /\ Refreshing[9] = "active"
      /\ Refreshing[10] = "device"
  BY DEF Refreshing
<1>8. ASSUME NEW i \in 1..10 PROVE z[i] = Refreshing[10 - 10 + i]
  <2>1. /\ 10 - 10 + i = i
        /\ i = 1 \/ i = 2 \/ i = 3 \/ i = 4 \/ i = 5 \/ i = 6 \/ i = 7 \/ i = 8 \/ i = 9 \/ i = 10
    OBVIOUS
  <2>. QED  BY <2>1, <1>6, <1>7
<1>9. EndsLike(z)
  BY <1>6, <1>8 DEF EndsLike
<1>. QED  BY <1>5, <1>6, <1>9 DEF z

LEMMA RevokingProgram ==
  ASSUME NEW h \in {"logout", "revokeAll"}
  PROVE  /\ Tokens!Commands(h) \in Seq(Tokens!Steps) /\ Len(Tokens!Commands(h)) <= 10
         /\ \A i \in 1..Len(Tokens!Commands(h)) :
              Tokens!Commands(h)[i] \notin {"set", "meta", "active", "device"}
<1> DEFINE z == Tokens!Commands(h)
<1>1. CASE h = "logout"
  <2>1. z = Tokens!RevokeSteps
    BY <1>1 DEF Tokens!Commands
  <2> HIDE DEF z
  <2>2. \A i \in 1..5 : i = 1 \/ i = 2 \/ i = 3 \/ i = 4 \/ i = 5
    OBVIOUS
  <2>3. /\ z \in Seq(Tokens!Steps) /\ Len(z) = 5 /\ z[1] = "getmeta" /\ z[2] = "delkey"
        /\ z[3] = "delmeta" /\ z[4] = "srem" /\ z[5] = "deldevice"
    BY <2>1, RevokeProgram
  <2>4. /\ z \in Seq(Tokens!Steps) /\ Len(z) <= 10
        /\ \A i \in 1..Len(z) : z[i] \notin {"set", "meta", "active", "device"}
    BY <2>2, <2>3
  <2>. QED  BY <2>4 DEF z
<1>2. CASE h = "revokeAll"
  <2> DEFINE v == <<"scan", "delactive">>
  <2>1. v \in Seq(Tokens!Steps) /\ Len(v) = 2 /\ v[1] = "scan" /\ v[2] = "delactive"
    BY StepsAre
  <2>2. z = Tokens!RevokeSteps \o v
    BY <1>2 DEF Tokens!Commands
  <2> HIDE DEF v, z
  <2>3. /\ z \in Seq(Tokens!Steps) /\ Len(z) = 5 + 2
        /\ \A i \in 1..5 : z[i] = Tokens!RevokeSteps[i]
        /\ \A i \in 1..2 : z[5 + i] = v[i]
    <3>1. Tokens!RevokeSteps \in Seq(Tokens!Steps) /\ Len(Tokens!RevokeSteps) = 5 /\ 2 \in Nat
            /\ 5 \in Nat
      BY RevokeProgram
    <3>2. /\ z \in Seq(Tokens!Steps) /\ Len(z) = Len(Tokens!RevokeSteps) + Len(v)
          /\ \A i \in 1..Len(Tokens!RevokeSteps) : z[i] = Tokens!RevokeSteps[i]
          /\ \A i \in 1..Len(v) : z[Len(Tokens!RevokeSteps) + i] = v[i]
      <4>1. v \in Seq(Tokens!Steps) /\ Tokens!RevokeSteps \in Seq(Tokens!Steps)
        BY <2>1, <3>1
      <4>2. /\ Tokens!RevokeSteps \o v \in Seq(Tokens!Steps)
            /\ Len(Tokens!RevokeSteps \o v) = Len(Tokens!RevokeSteps) + Len(v)
            /\ \A i \in 1..Len(Tokens!RevokeSteps) :
                 (Tokens!RevokeSteps \o v)[i] = Tokens!RevokeSteps[i]
            /\ \A i \in 1..Len(v) : (Tokens!RevokeSteps \o v)[Len(Tokens!RevokeSteps) + i] = v[i]
        BY <4>1, Joined
      <4>. QED  BY <2>2, <4>2
    <3>. QED  BY <2>1, <3>1, <3>2
  <2>4. /\ Len(z) = 7 /\ z[1] = "getmeta" /\ z[2] = "delkey" /\ z[3] = "delmeta"
        /\ z[4] = "srem" /\ z[5] = "deldevice" /\ z[6] = "scan" /\ z[7] = "delactive"
    <3>1. z[5 + 1] = v[1] /\ z[5 + 2] = v[2]
      BY <2>3
    <3>. QED  BY <2>1, <2>3, <3>1, RevokeProgram
  <2>5. \A i \in 1..7 : i = 1 \/ i = 2 \/ i = 3 \/ i = 4 \/ i = 5 \/ i = 6 \/ i = 7
    OBVIOUS
  <2>6. /\ z \in Seq(Tokens!Steps) /\ Len(z) <= 10
        /\ \A i \in 1..Len(z) : z[i] \notin {"set", "meta", "active", "device"}
    BY <2>3, <2>4, <2>5
  <2>. QED  BY <2>6 DEF z
<1>. QED  BY <1>1, <1>2


LEMMA EndOf ==
  ASSUME NEW T, NEW s \in Seq(T), s # <<>>
  PROVE  /\ Len(s) \in Nat /\ Len(s) >= 1 /\ Head(s) = s[1] /\ Tail(s) \in Seq(T)
         /\ Len(Tail(s)) = Len(s) - 1 /\ \A i \in 1..Len(s) - 1 : Tail(s)[i] = s[i + 1]
  OBVIOUS

LEMMA EmptyLen == ASSUME NEW T, NEW s \in Seq(T) PROVE s = <<>> => Len(s) = 0
  OBVIOUS

LEMMA TogoIs ==
  ASSUME TokenInv, NEW c \in Clients
  PROVE  Togo(c) \in 0..10 /\ (todo[c] = <<>> <=> Togo(c) = 0)
<1>1. todo[c] \in Seq(Tokens!Steps)
  BY DEF TokenInv, TokenTypes
<1>2. Len(todo[c]) \in Nat /\ (todo[c] = <<>> <=> Len(todo[c]) = 0)
  BY <1>1
<1>3. Len(todo[c]) <= 10
  BY DEF TokenInv, TodoOK
<1>4. Togo(c) \in Nat /\ (todo[c] = <<>> <=> Togo(c) = 0) /\ Togo(c) <= 10
  BY <1>2, <1>3 DEF Togo
<1>. QED  BY <1>4

LEMMA AtCommand ==
  ASSUME TokenInv, NEW c \in Clients, todo[c] # <<>>
  PROVE  /\ Head(todo[c]) = todo[c][1] /\ Tail(todo[c]) \in Seq(Tokens!Steps)
         /\ Len(Tail(todo[c])) = Togo(c) - 1
         /\ \A i \in 1..Togo(c) - 1 : Tail(todo[c])[i] = todo[c][i + 1]
<1>1. todo[c] \in Seq(Tokens!Steps)
  BY DEF TokenInv, TokenTypes
<1>. QED  BY <1>1, EndOf DEF Togo

LEMMA TenCases ==
  ASSUME NEW n \in 1..10
  PROVE  \/ n = 1 /\ 10 - n + 1 = 10
         \/ n = 2 /\ 10 - n + 1 = 9
         \/ n = 3 /\ 10 - n + 1 = 8
         \/ n = 4 /\ 10 - n + 1 = 7
         \/ n = 5 /\ 10 - n + 1 = 6
         \/ n = 6 /\ 10 - n + 1 = 5
         \/ n = 7 /\ 10 - n + 1 = 4
         \/ n = 8 /\ 10 - n + 1 = 3
         \/ n = 9 /\ 10 - n + 1 = 2
         \/ n = 10 /\ 10 - n + 1 = 1
  OBVIOUS

\* What is left to do says how far a handler that makes a token is.
LEMMA WhereItIs ==
  ASSUME TokenInv, NEW c \in Clients, todo[c] # <<>>
  PROVE  /\ fresh[c] # 0 => /\ Head(todo[c]) = "set" => Togo(c) = 4
                            /\ Head(todo[c]) = "meta" => Togo(c) = 3
                            /\ Head(todo[c]) = "active" => Togo(c) = 2
                            /\ Head(todo[c]) = "device" <=> Togo(c) = 1
                            /\ Togo(c) < 5 => Head(todo[c]) \in {"set", "meta", "active", "device"}
         /\ fresh[c] = 0 => Head(todo[c]) \notin {"set", "meta", "active", "device"}
<1>1. Togo(c) \in 0..10 /\ Togo(c) # 0
  BY TogoIs
<1>2. Togo(c) \in 1..10 /\ 1 \in 1..Togo(c)
  BY <1>1
<1>3. Head(todo[c]) = todo[c][1]
  BY AtCommand
<1>4. ASSUME fresh[c] # 0
      PROVE  /\ Head(todo[c]) = "set" => Togo(c) = 4
             /\ Head(todo[c]) = "meta" => Togo(c) = 3
             /\ Head(todo[c]) = "active" => Togo(c) = 2
             /\ Head(todo[c]) = "device" <=> Togo(c) = 1
             /\ Togo(c) < 5 => Head(todo[c]) \in {"set", "meta", "active", "device"}
  <2>1. todo[c][1] = Refreshing[10 - Togo(c) + 1]
    <3>1. EndsLike(todo[c])
      BY <1>4 DEF TokenInv, TodoOK
    <3>2. \A i \in 1..Togo(c) : todo[c][i] = Refreshing[10 - Togo(c) + i]
      BY <3>1 DEF EndsLike, Togo
    <3>. QED  BY <1>2, <3>2
  <2>2. /\ Refreshing[1] = "validate" /\ Refreshing[2] = "getmeta" /\ Refreshing[3] = "delkey"
        /\ Refreshing[4] = "delmeta" /\ Refreshing[5] = "srem" /\ Refreshing[6] = "deldevice"
        /\ Refreshing[7] = "set" /\ Refreshing[8] = "meta" /\ Refreshing[9] = "active"
        /\ Refreshing[10] = "device"
    BY DEF Refreshing
  <2>. QED  BY <1>2, <1>3, <2>1, <2>2, TenCases
<1>5. fresh[c] = 0 => Head(todo[c]) \notin {"set", "meta", "active", "device"}
  <2>1. fresh[c] = 0 => \A i \in 1..Togo(c) : todo[c][i] \notin {"set", "meta", "active", "device"}
    BY DEF TokenInv, TodoOK, Togo
  <2>. QED  BY <1>2, <1>3, <2>1
<1>. QED  BY <1>4, <1>5

\* A handler goes on with its next command, or stops.
LEMMA TodoShrinks ==
  ASSUME TokenInv, NEW c \in Clients, todo[c] # <<>>, NEW s, s = Tail(todo[c]) \/ s = <<>>,
         todo' = [todo EXCEPT ![c] = s], fresh' = fresh
  PROVE  /\ todo' \in [Clients -> Seq(Tokens!Steps)] /\ todo'[c] = s
         /\ \A d \in Clients : d # c => todo'[d] = todo[d]
         /\ \A d \in Clients : TodoOK(d)'
         /\ s = Tail(todo[c]) => Togo(c)' = Togo(c) - 1
<1>1. todo \in [Clients -> Seq(Tokens!Steps)]
  BY DEF TokenInv, TokenTypes
<1>2. s \in Seq(Tokens!Steps)
  <2>1. <<>> \in Seq(Tokens!Steps)
    OBVIOUS
  <2>. QED  BY <2>1, AtCommand
<1>3. /\ todo' \in [Clients -> Seq(Tokens!Steps)] /\ todo'[c] = s
      /\ \A d \in Clients : d # c => todo'[d] = todo[d]
  BY <1>1, <1>2
<1>4. s = Tail(todo[c]) => /\ Togo(c)' = Togo(c) - 1
                           /\ \A i \in 1..Togo(c) - 1 : todo'[c][i] = todo[c][i + 1]
  BY <1>3, AtCommand DEF Togo
<1>5. TodoOK(c)'
  <2>1. CASE s = <<>>
    <3>1. todo'[c] = <<>>
      BY <1>3, <2>1
    <3>2. Len(todo'[c]) = 0
      BY <3>1
    <3>3. Len(todo'[c]) <= 10 /\ 1..Len(todo'[c]) = {}
      BY <3>2
    <3>. QED  BY <3>3 DEF TodoOK, EndsLike
  <2>2. CASE s = Tail(todo[c])
    <3>1. Togo(c) \in 1..10
      BY TogoIs
    <3>2. fresh[c] # 0 => \A i \in 1..Togo(c) : todo[c][i] = Refreshing[10 - Togo(c) + i]
      BY DEF TokenInv, TodoOK, EndsLike, Togo
    <3>3. fresh[c] = 0
            => \A i \in 1..Togo(c) : todo[c][i] \notin {"set", "meta", "active", "device"}
      BY DEF TokenInv, TodoOK, Togo
    <3>4. \A i \in 1..Togo(c) - 1 :
            i + 1 \in 1..Togo(c) /\ 10 - (Togo(c) - 1) + i = 10 - Togo(c) + (i + 1)
      BY <3>1
    <3>5. Togo(c)' = Togo(c) - 1 /\ \A i \in 1..Togo(c) - 1 : todo'[c][i] = todo[c][i + 1]
      BY <1>4, <2>2
    <3>6. Togo(c)' <= 10
      BY <3>1, <3>5
    <3>7. fresh[c] # 0 => \A i \in 1..Togo(c)' : todo'[c][i] = Refreshing[10 - Togo(c)' + i]
      BY <3>2, <3>4, <3>5
    <3>8. fresh[c] = 0
            => \A i \in 1..Togo(c)' : todo'[c][i] \notin {"set", "meta", "active", "device"}
      BY <3>3, <3>4, <3>5
    <3>. QED  BY <3>6, <3>7, <3>8 DEF TodoOK, EndsLike, Togo
  <2>. QED  BY <2>1, <2>2
<1>6. ASSUME NEW d \in Clients, d # c PROVE TodoOK(d)'
  BY <1>3, <1>6 DEF TokenInv, TodoOK
<1>. QED  BY <1>3, <1>4, <1>5, <1>6

\* While a handler is at work no token counts as given.
LEMMA NoneGiven == ASSUME TokenInv, NEW c \in Clients, todo[c] # <<>> PROVE given = 0
  BY DEF TokenInv, GivenInv

\* Whoever met no other is the one at work.
LEMMA OneAlone ==
  ASSUME TokenInv, NEW c \in Clients, todo[c] # <<>>, NEW d \in alone PROVE d = c
  BY DEF TokenInv, AloneInv

\* A command before the last of StoreRefreshToken gives no token.
LEMMA CommandDone ==
  ASSUME TokenInv, NEW c \in Clients, todo[c] # <<>>, Tokens!Did(c), Head(todo[c]) # "device"
  PROVE  /\ todo' = [todo EXCEPT ![c] = Tail(@)] /\ holds' = holds /\ given' = 0
         /\ UNCHANGED <<fresh, sent, made, calls, alone, tokenFaults>>
         /\ todo' \in [Clients -> Seq(Tokens!Steps)] /\ Togo(c)' = Togo(c) - 1
         /\ \A d \in Clients : d # c => todo'[d] = todo[d]
         /\ \A d \in Clients : TodoOK(d)'
<1>1. Tail(todo[c]) = <<>> => Togo(c) = 1
  <2>1. Tail(todo[c]) = <<>> => Len(Tail(todo[c])) = 0
    BY AtCommand, EmptyLen
  <2>2. Togo(c) \in 0..10 /\ (Tail(todo[c]) = <<>> => Togo(c) - 1 = 0)
    BY <2>1, AtCommand, TogoIs
  <2>. QED  BY <2>2
<1>2. ~(Tail(todo[c]) = <<>> /\ fresh[c] # 0)
  BY <1>1, WhereItIs
<1>3. /\ todo' = [todo EXCEPT ![c] = Tail(@)] /\ holds' = holds /\ given' = given
      /\ UNCHANGED <<fresh, sent, made, calls, alone, tokenFaults>>
  BY <1>2 DEF Tokens!Did, Tokens!Answers
<1>4. /\ todo' \in [Clients -> Seq(Tokens!Steps)] /\ Togo(c)' = Togo(c) - 1
      /\ \A d \in Clients : d # c => todo'[d] = todo[d]
      /\ \A d \in Clients : TodoOK(d)'
  BY <1>3, TodoShrinks
<1>. QED  BY <1>3, <1>4, NoneGiven

LEMMA TokensAre == 0 \in Tokens!Tokens /\ \A n \in Nat : n <= MaxCalls => n \in Tokens!Tokens
  BY TokenBounds DEF Tokens!Tokens

\* What the commands but Begin leave to their keys.
KeysTyped == /\ oldMeta \in [Clients -> Tokens!Tokens] /\ deviceKey \in [Clients -> Tokens!Tokens]
             /\ mainKey \in Tokens!Tokens /\ metaKey \in Tokens!Tokens
             /\ activeKey \subseteq Tokens!Tokens \ {0}

LEMMA CommandKeeps ==
  ASSUME TokenInv, NEW c \in Clients, todo[c] # <<>>, Tokens!Did(c), Head(todo[c]) # "device",
         KeysTyped', fresh[c] # 0 => StoredSoFar(c)'
  PROVE  TokenInv'
<1>1. /\ todo' = [todo EXCEPT ![c] = Tail(@)] /\ holds' = holds /\ given' = 0
      /\ UNCHANGED <<fresh, sent, made, calls, alone, tokenFaults>>
      /\ todo' \in [Clients -> Seq(Tokens!Steps)]
      /\ \A d \in Clients : d # c => todo'[d] = todo[d]
      /\ \A d \in Clients : TodoOK(d)'
  BY CommandDone
<1>2. ASSUME NEW d \in alone'
      PROVE  StoredSoFar(d)' /\ \A e \in Clients : e # d => todo'[e] = <<>>
  <2>1. d = c /\ d \in alone
    BY <1>1, OneAlone
  <2>2. fresh'[c] = 0 => StoredSoFar(c)'
    BY DEF StoredSoFar
  <2>3. \A e \in Clients : e # c => todo[e] = <<>>
    BY <2>1 DEF TokenInv, AloneInv
  <2>. QED  BY <1>1, <2>1, <2>2, <2>3
<1>3. 0 \in Tokens!Tokens
  BY TokenBounds DEF Tokens!Tokens
<1>4. TokenTypes'
  BY <1>1, <1>3 DEF TokenInv, TokenTypes, KeysTyped
<1>. QED  BY <1>1, <1>2, <1>4 DEF TokenInv, AloneInv, GivenInv

\* A command of a handler that has met others.
LEMMA NotAlone ==
  ASSUME TokenInv, NEW c \in Clients, todo[c] # <<>>, Tokens!Did(c), Head(todo[c]) # "device",
         KeysTyped', c \notin alone
  PROVE  TokenInv'
<1>1. /\ todo' = [todo EXCEPT ![c] = Tail(@)] /\ holds' = holds /\ given' = 0
      /\ UNCHANGED <<fresh, sent, made, calls, alone, tokenFaults>>
      /\ todo' \in [Clients -> Seq(Tokens!Steps)]
      /\ \A d \in Clients : TodoOK(d)'
  BY CommandDone
<1>2. alone' = {}
  BY <1>1, OneAlone
<1>3. TokenTypes'
  BY <1>1, TokensAre DEF TokenInv, TokenTypes, KeysTyped
<1>. QED  BY <1>1, <1>2, <1>3 DEF TokenInv, AloneInv, GivenInv

\* A command before those of StoreRefreshToken.
LEMMA NotStoring ==
  ASSUME TokenInv, NEW c \in Clients, todo[c] # <<>>, Tokens!Did(c),
         Head(todo[c]) \notin {"set", "meta", "active", "device"}, KeysTyped'
  PROVE  TokenInv'
<1>1. fresh[c] # 0 => Togo(c)' > 3
  <2>1. Togo(c)' = Togo(c) - 1 /\ Togo(c) \in 0..10 /\ (fresh[c] # 0 => ~(Togo(c) < 5))
    BY CommandDone, TogoIs, WhereItIs
  <2>. QED  BY <2>1
<1>2. Togo(c)' \in Int
  BY CommandDone, TogoIs
<1>3. fresh[c] # 0 => StoredSoFar(c)'
  BY <1>1, <1>2 DEF StoredSoFar
<1>. QED  BY <1>3, CommandKeeps

LEMMA SetKeyKeeps == ASSUME TokenInv, NEW c \in Clients, Tokens!SetKey(c) PROVE TokenInv'
<1>1. /\ todo[c] # <<>> /\ Head(todo[c]) = "set" /\ Tokens!Did(c) /\ mainKey' = fresh[c]
      /\ UNCHANGED <<oldMeta, metaKey, activeKey, deviceKey>>
  BY DEF Tokens!SetKey, Tokens!Does
<1>2. KeysTyped'
  BY <1>1 DEF KeysTyped, TokenInv, TokenTypes
<1>3. fresh[c] # 0 => StoredSoFar(c)'
  <2>1. fresh[c] # 0 => Togo(c)' = 3
    <3>1. Togo(c)' = Togo(c) - 1 /\ (fresh[c] # 0 => Togo(c) = 4)
      BY <1>1, CommandDone, WhereItIs
    <3>. QED  BY <3>1
  <2>2. fresh' = fresh
    BY <1>1, CommandDone
  <2>. QED  BY <1>1, <2>1, <2>2 DEF StoredSoFar
<1>. QED  BY <1>1, <1>2, <1>3, CommandKeeps

LEMMA SetMetaKeeps == ASSUME TokenInv, NEW c \in Clients, Tokens!SetMeta(c) PROVE TokenInv'
<1>1. /\ todo[c] # <<>> /\ Head(todo[c]) = "meta" /\ Tokens!Did(c) /\ metaKey' = fresh[c]
      /\ UNCHANGED <<oldMeta, mainKey, activeKey, deviceKey>>
  BY DEF Tokens!SetMeta, Tokens!Does
<1>2. KeysTyped'
  BY <1>1 DEF KeysTyped, TokenInv, TokenTypes
<1>3. fresh' = fresh /\ (fresh[c] # 0 => Togo(c) = 3 /\ Togo(c)' = 2)
  <2>1. fresh' = fresh /\ Togo(c)' = Togo(c) - 1 /\ (fresh[c] # 0 => Togo(c) = 3)
    BY <1>1, CommandDone, WhereItIs
  <2>. QED  BY <2>1
<1>4. CASE c \in alone
  <2>1. StoredSoFar(c)
    BY <1>4 DEF TokenInv, AloneInv
  <2>2. fresh[c] # 0 => mainKey = fresh[c]
    BY <1>1, <1>3, <2>1 DEF StoredSoFar
  <2>3. fresh[c] # 0 => StoredSoFar(c)'
    BY <1>1, <1>3, <2>2 DEF StoredSoFar
  <2>. QED  BY <1>1, <1>2, <2>3, CommandKeeps
<1>5. CASE c \notin alone
  BY <1>1, <1>2, <1>5, NotAlone
<1>. QED  BY <1>4, <1>5

LEMMA AddActiveKeeps == ASSUME TokenInv, NEW c \in Clients, Tokens!AddActive(c) PROVE TokenInv'
<1>1. /\ todo[c] # <<>> /\ Head(todo[c]) = "active" /\ Tokens!Did(c)
      /\ activeKey' = activeKey \cup {fresh[c]}
      /\ UNCHANGED <<oldMeta, mainKey, metaKey, deviceKey>>
  BY DEF Tokens!AddActive, Tokens!Does
<1>2. KeysTyped'
  <2>1. fresh[c] # 0
    BY <1>1, WhereItIs
  <2>. QED  BY <1>1, <2>1 DEF KeysTyped, TokenInv, TokenTypes
<1>3. fresh' = fresh /\ (fresh[c] # 0 => Togo(c) = 2 /\ Togo(c)' = 1)
  <2>1. fresh' = fresh /\ Togo(c)' = Togo(c) - 1 /\ (fresh[c] # 0 => Togo(c) = 2)
    BY <1>1, CommandDone, WhereItIs
  <2>. QED  BY <2>1
<1>4. CASE c \in alone
  <2>1. StoredSoFar(c)
    BY <1>4 DEF TokenInv, AloneInv
  <2>2. fresh[c] # 0 => mainKey = fresh[c] /\ metaKey = fresh[c]
    BY <1>1, <1>3, <2>1 DEF StoredSoFar
  <2>3. fresh[c] # 0 => StoredSoFar(c)'
    BY <1>1, <1>3, <2>2 DEF StoredSoFar
  <2>. QED  BY <1>1, <1>2, <2>3, CommandKeeps
<1>5. CASE c \notin alone
  BY <1>1, <1>2, <1>5, NotAlone
<1>. QED  BY <1>4, <1>5

\* The last command of StoreRefreshToken: the client has its token.
LEMMA SetDeviceKeeps == ASSUME TokenInv, NEW c \in Clients, Tokens!SetDevice(c) PROVE TokenInv'
<1>1. /\ todo[c] # <<>> /\ Head(todo[c]) = "device" /\ Tokens!Did(c)
      /\ deviceKey' = [deviceKey EXCEPT ![c] = fresh[c]]
      /\ UNCHANGED <<oldMeta, mainKey, metaKey, activeKey>>
  BY DEF Tokens!SetDevice, Tokens!Does
<1>2. fresh[c] # 0 /\ Togo(c) = 1
  BY <1>1, WhereItIs
<1>3. /\ todo' = [todo EXCEPT ![c] = Tail(@)]
      /\ UNCHANGED <<fresh, sent, made, calls, alone, tokenFaults>>
      /\ Tokens!Answers(c, Tail(todo[c]))
  BY <1>1 DEF Tokens!Did
<1>4. /\ todo' \in [Clients -> Seq(Tokens!Steps)] /\ todo'[c] = Tail(todo[c])
      /\ \A d \in Clients : d # c => todo'[d] = todo[d]
      /\ \A d \in Clients : TodoOK(d)'
  BY <1>1, <1>3, TodoShrinks
<1>5. todo'[c] = <<>>
  <2>1. Tail(todo[c]) \in Seq(Tokens!Steps) /\ Len(Tail(todo[c])) = Togo(c) - 1
    BY <1>1, AtCommand
  <2>2. Len(Tail(todo[c])) = 0
    BY <1>2, <2>1
  <2>. QED  BY <1>4, <2>1, <2>2, EmptySeq
<1>6. /\ holds' = [holds EXCEPT ![c] = fresh[c]]
      /\ given' = IF c \in alone THEN fresh[c] ELSE 0
  BY <1>2, <1>3, <1>4, <1>5 DEF Tokens!Answers
<1>7. TokenTypes'
  BY <1>1, <1>3, <1>4, <1>6, TokensAre DEF TokenInv, TokenTypes
<1>8. AloneInv'
  <2> SUFFICES ASSUME NEW d \in alone'
               PROVE  StoredSoFar(d)' /\ \A e \in Clients : e # d => todo'[e] = <<>>
    BY DEF AloneInv
  <2>1. d = c /\ d \in alone
    BY <1>1, <1>3, OneAlone
  <2>2. \A e \in Clients : e # c => todo[e] = <<>>
    BY <2>1 DEF TokenInv, AloneInv
  <2>. QED  BY <1>4, <1>5, <2>1, <2>2 DEF StoredSoFar
<1>9. GivenInv'
  <2> SUFFICES ASSUME given' # 0
               PROVE  (\A d \in Clients : todo'[d] = <<>>) /\ Tokens!GivenTokenWorks'
    BY DEF GivenInv
  <2>1. c \in alone /\ given' = fresh[c]
    BY <1>6
  <2>2. \A e \in Clients : e # c => todo[e] = <<>>
    BY <2>1 DEF TokenInv, AloneInv
  <2>3. mainKey = fresh[c] /\ metaKey = fresh[c] /\ fresh[c] \in activeKey
    <3>1. StoredSoFar(c)
      BY <2>1 DEF TokenInv, AloneInv
    <3>. QED  BY <1>1, <1>2, <3>1 DEF StoredSoFar
  <2>4. holds'[c] = fresh[c] /\ deviceKey'[c] = fresh[c]
    BY <1>1, <1>6 DEF TokenInv, TokenTypes
  <2>. QED  BY <1>1, <1>4, <1>5, <2>1, <2>2, <2>3, <2>4 DEF Tokens!GivenTokenWorks
<1>. QED  BY <1>4, <1>7, <1>8, <1>9 DEF TokenInv

LEMMA RevokeKeeps ==
  ASSUME TokenInv, NEW c \in Clients,
         \/ Tokens!GetMeta(c) \/ Tokens!DelKey(c) \/ Tokens!DelMeta(c) \/ Tokens!RemActive(c)
         \/ Tokens!DelDevice(c) \/ Tokens!ScanDevices(c) \/ Tokens!DelActive(c)
  PROVE  TokenInv'
<1>1. /\ todo[c] # <<>> /\ Tokens!Did(c)
      /\ Head(todo[c]) \notin {"set", "meta", "active", "device"}
  BY DEF Tokens!GetMeta, Tokens!DelKey, Tokens!DelMeta, Tokens!RemActive, Tokens!DelDevice,
         Tokens!ScanDevices, Tokens!DelActive, Tokens!Does
<1>2. oldMeta' \in [Clients -> Tokens!Tokens]
  <2>1. oldMeta' = oldMeta \/ oldMeta' = [oldMeta EXCEPT ![c] = metaKey]
    BY DEF Tokens!GetMeta, Tokens!DelKey, Tokens!DelMeta, Tokens!RemActive, Tokens!DelDevice,
           Tokens!ScanDevices, Tokens!DelActive
  <2>. QED  BY <2>1 DEF TokenInv, TokenTypes
<1>3. deviceKey' \in [Clients -> Tokens!Tokens]
  <2>1. \/ deviceKey' = deviceKey
        \/ deviceKey' = [d \in Clients |-> 0]
        \/ \E D : deviceKey' = [d \in Clients |-> IF d \in D THEN 0 ELSE deviceKey[d]]
    BY DEF Tokens!GetMeta, Tokens!DelKey, Tokens!DelMeta, Tokens!RemActive, Tokens!DelDevice,
           Tokens!ScanDevices, Tokens!DelActive, Tokens!redisKeys
  <2>. QED  BY <2>1, TokensAre DEF TokenInv, TokenTypes
<1>4. /\ mainKey' \in {mainKey, 0} /\ metaKey' \in {metaKey, 0} /\ activeKey' \subseteq activeKey
  BY DEF Tokens!GetMeta, Tokens!DelKey, Tokens!DelMeta, Tokens!RemActive, Tokens!DelDevice,
         Tokens!ScanDevices, Tokens!DelActive, Tokens!redisKeys
<1>5. KeysTyped'
  BY <1>2, <1>3, <1>4, TokensAre DEF TokenInv, TokenTypes, KeysTyped
<1>. QED  BY <1>1, <1>5, NotStoring

LEMMA ValidateKeeps == ASSUME TokenInv, NEW c \in Clients, Tokens!Validate(c) PROVE TokenInv'
<1>1. /\ todo[c] # <<>> /\ Head(todo[c]) = "validate" /\ UNCHANGED given
      /\ UNCHANGED <<fresh, sent, holds, made, calls, alone>>
      /\ UNCHANGED <<oldMeta, mainKey, metaKey, activeKey, deviceKey, tokenFaults>>
  BY DEF Tokens!Validate, Tokens!Does, Tokens!local, Tokens!redisKeys
<1>2. PICK s : (s = Tail(todo[c]) \/ s = <<>>) /\ todo' = [todo EXCEPT ![c] = s]
  BY DEF Tokens!Validate
<1>3. /\ todo' \in [Clients -> Seq(Tokens!Steps)] /\ todo'[c] = s
      /\ \A d \in Clients : d # c => todo'[d] = todo[d]
      /\ \A d \in Clients : TodoOK(d)'
      /\ s = Tail(todo[c]) => Togo(c)' = Togo(c) - 1
  BY <1>1, <1>2, TodoShrinks
<1>4. TokenTypes'
  BY <1>1, <1>3 DEF TokenInv, TokenTypes
<1>5. StoredSoFar(c)'
  <2>1. CASE s = <<>>
    BY <1>3, <2>1 DEF StoredSoFar
  <2>2. CASE s = Tail(todo[c])
    <3>1. fresh[c] # 0 => Togo(c)' > 3 /\ Togo(c)' \in Int
      <4>1. Togo(c)' = Togo(c) - 1 /\ Togo(c) \in 0..10 /\ (fresh[c] # 0 => ~(Togo(c) < 5))
        BY <1>1, <1>3, <2>2, TogoIs, WhereItIs
      <4>. QED  BY <4>1
    <3>. QED  BY <1>1, <3>1 DEF StoredSoFar
  <2>. QED  BY <1>2, <2>1, <2>2
<1>6. AloneInv'
  <2> SUFFICES ASSUME NEW d \in alone'
               PROVE  StoredSoFar(d)' /\ \A e \in Clients : e # d => todo'[e] = <<>>
    BY DEF AloneInv
  <2>1. d = c /\ d \in alone
    BY <1>1, OneAlone
  <2>2. \A e \in Clients : e # c => todo[e] = <<>>
    BY <2>1 DEF TokenInv, AloneInv
  <2>. QED  BY <1>3, <1>5, <2>1, <2>2
<1>7. given' = 0
  BY <1>1, NoneGiven
<1>. QED  BY <1>3, <1>4, <1>6, <1>7 DEF TokenInv, GivenInv

LEMMA FailsKeeps == ASSUME TokenInv, NEW c \in Clients, Tokens!Fails(c) PROVE TokenInv'
<1>1. /\ todo[c] # <<>> /\ tokenFaults' \in 0..MaxTokenFaults
      /\ UNCHANGED <<fresh, sent, mainKey, metaKey, activeKey, deviceKey, made, calls, given>>
  BY TokenBounds DEF Tokens!Fails, Tokens!redisKeys, TokenInv, TokenTypes
<1>2. PICK s : (s = Tail(todo[c]) \/ s = <<>>) /\ todo' = [todo EXCEPT ![c] = s]
  BY DEF Tokens!Fails
<1>3. /\ todo' \in [Clients -> Seq(Tokens!Steps)] /\ todo'[c] = s
      /\ \A d \in Clients : d # c => todo'[d] = todo[d]
      /\ \A d \in Clients : TodoOK(d)'
  BY <1>1, <1>2, TodoShrinks
<1>4. /\ oldMeta' = oldMeta \/ oldMeta' = [oldMeta EXCEPT ![c] = 0]
      /\ holds' = holds \/ holds' = [holds EXCEPT ![c] = fresh[c]]
  <2>1. oldMeta = [oldMeta EXCEPT ![c] = oldMeta[c]] /\ holds = [holds EXCEPT ![c] = holds[c]]
    BY DEF TokenInv, TokenTypes
  <2>. QED  BY <2>1 DEF Tokens!Fails
<1>5. alone' = {}
  BY <1>1, OneAlone DEF Tokens!Fails
<1>6. TokenTypes'
  BY <1>1, <1>3, <1>4, <1>5, TokensAre DEF TokenInv, TokenTypes
<1>7. given' = 0
  BY <1>1, NoneGiven
<1>. QED  BY <1>3, <1>5, <1>6, <1>7 DEF TokenInv, AloneInv, GivenInv

LEMMA BeginKeeps ==
  ASSUME TokenInv, NEW c \in Clients, NEW h \in {"login", "refresh", "logout", "revokeAll"},
         Tokens!Begin(c, h)
  PROVE  TokenInv'
<1> DEFINE new == IF h \in {"login", "refresh"} THEN made + 1 ELSE 0
<1>1. /\ todo[c] = <<>> /\ calls < MaxCalls /\ calls' = calls + 1
      /\ todo' = [todo EXCEPT ![c] = Tokens!Commands(h)]
      /\ fresh' = [fresh EXCEPT ![c] = new] /\ made' = IF new = 0 THEN made ELSE new
      /\ sent' = [sent EXCEPT ![c] = holds[c]]
      /\ alone' = IF \A d \in Clients : todo[d] = <<>> THEN {c} ELSE {}
      /\ given' = 0
      /\ UNCHANGED <<oldMeta, holds, mainKey, metaKey, activeKey, deviceKey, tokenFaults>>
  BY DEF Tokens!Begin, Tokens!redisKeys
<1>2. /\ Tokens!Commands(h) \in Seq(Tokens!Steps)
      /\ new # 0 => EndsLike(Tokens!Commands(h))
      /\ new = 0 => /\ Len(Tokens!Commands(h)) <= 10
                    /\ \A i \in 1..Len(Tokens!Commands(h)) :
                         Tokens!Commands(h)[i] \notin {"set", "meta", "active", "device"}
  <2>1. CASE h \in {"login", "refresh"}
    <3>1. new # 0
      BY <2>1 DEF TokenInv, TokenTypes
    <3>. QED  BY <2>1, <3>1, LoginProgram, RefreshProgram
  <2>2. CASE h \in {"logout", "revokeAll"}
    BY <2>2, RevokingProgram
  <2>. QED  BY <2>1, <2>2
<1>3. new \in Tokens!Tokens /\ made' \in Nat /\ made' <= calls' /\ calls' \in Nat
        /\ calls' <= MaxCalls
  <2>1. made \in Nat /\ calls \in Nat /\ made <= calls
    BY DEF TokenInv, TokenTypes
  <2>2. made + 1 \in Nat /\ made + 1 <= MaxCalls
    BY <1>1, <2>1, TokenBounds
  <2>3. new \in Tokens!Tokens
    BY <2>2, TokensAre
  <2>. QED  BY <1>1, <2>1, <2>3, TokenBounds
<1> HIDE DEF new
<1>4. TokenTypes'
  BY <1>1, <1>2, <1>3, TokensAre DEF TokenInv, TokenTypes
<1>5. ASSUME NEW d \in Clients PROVE TodoOK(d)'
  <2>1. CASE d = c
    <3>1. todo'[c] = Tokens!Commands(h) /\ fresh'[c] = new
      BY <1>1 DEF TokenInv, TokenTypes
    <3>. QED  BY <1>2, <2>1, <3>1 DEF TodoOK, EndsLike
  <2>2. CASE d # c
    <3>1. todo'[d] = todo[d] /\ fresh'[d] = fresh[d]
      BY <1>1, <2>2 DEF TokenInv, TokenTypes
    <3>. QED  BY <3>1 DEF TokenInv, TodoOK
  <2>. QED  BY <2>1, <2>2
<1>6. AloneInv'
  <2> SUFFICES ASSUME NEW d \in alone'
               PROVE  StoredSoFar(d)' /\ \A e \in Clients : e # d => todo'[e] = <<>>
    BY DEF AloneInv
  <2>1. d = c /\ \A e \in Clients : todo[e] = <<>>
    BY <1>1
  <2>2. \A e \in Clients : e # c => todo'[e] = <<>>
    BY <1>1, <2>1 DEF TokenInv, TokenTypes
  <2>3. StoredSoFar(c)'
    <3>1. todo'[c] = Tokens!Commands(h) /\ fresh'[c] = new
      BY <1>1 DEF TokenInv, TokenTypes
    <3>2. CASE new = 0
      BY <3>1, <3>2 DEF StoredSoFar
    <3>3. CASE new # 0
      <4>1. h \in {"login", "refresh"}
        BY <3>3 DEF new
      <4>2. Len(todo'[c]) \in {4, 10}
        BY <3>1, <4>1, LoginIsFour, RefreshProgram
      <4>3. Togo(c)' \in {4, 10}
        BY <4>2 DEF Togo
      <4>. QED  BY <4>3 DEF StoredSoFar
    <3>. QED  BY <3>2, <3>3
  <2>. QED  BY <2>1, <2>2, <2>3
<1>. QED  BY <1>1, <1>4, <1>5, <1>6 DEF TokenInv, GivenInv

LEMMA ExpireKeeps == ASSUME TokenInv, Tokens!Expire PROVE TokenInv'
<1>1. /\ \A c \in Clients : todo[c] = <<>>
      /\ mainKey' = 0 /\ metaKey' = 0 /\ activeKey' = {} /\ deviceKey' = [d \in Clients |-> 0]
      /\ given' = 0
      /\ UNCHANGED <<todo, fresh, sent, holds, made, calls, alone, oldMeta, tokenFaults>>
  BY DEF Tokens!Expire, Tokens!local
<1>2. TokenTypes'
  BY <1>1, TokensAre DEF TokenInv, TokenTypes
<1>3. (\A c \in Clients : TodoOK(c)) /\ todo' = todo /\ fresh' = fresh
  BY <1>1 DEF TokenInv
<1>4. \A c \in Clients : TodoOK(c)'
  BY <1>3 DEF TodoOK
<1>5. AloneInv'
  BY <1>1 DEF AloneInv, StoredSoFar, TokenInv, TokenTypes
<1>. QED  BY <1>1, <1>2, <1>4, <1>5 DEF TokenInv, GivenInv

LEMMA TokensInitially == Tokens!Init => TokenInv
<1> SUFFICES ASSUME Tokens!Init PROVE TokenInv
  OBVIOUS
<1>1. /\ todo = [c \in Clients |-> <<>>] /\ fresh = [c \in Clients |-> 0]
      /\ sent = [c \in Clients |-> 0] /\ oldMeta = [c \in Clients |-> 0]
      /\ holds = [c \in Clients |-> 0] /\ deviceKey = [c \in Clients |-> 0]
      /\ mainKey = 0 /\ metaKey = 0 /\ activeKey = {} /\ made = 0 /\ calls = 0
      /\ alone = {} /\ given = 0 /\ tokenFaults = 0
  BY DEF Tokens!Init
<1>2. TokenTypes
  <2>1. <<>> \in Seq(Tokens!Steps)
    OBVIOUS
  <2>2. 0 <= MaxCalls /\ 0 \in 0..MaxTokenFaults
    BY TokenBounds
  <2>. QED  BY <1>1, <2>1, <2>2, TokensAre DEF TokenTypes
<1>3. ASSUME NEW c \in Clients PROVE TodoOK(c)
  <2>1. todo[c] = <<>> /\ fresh[c] = 0
    BY <1>1
  <2>2. Len(todo[c]) = 0
    BY <2>1
  <2>3. Len(todo[c]) <= 10 /\ 1..Len(todo[c]) = {}
    BY <2>2
  <2>. QED  BY <2>1, <2>3 DEF TodoOK
<1>. QED  BY <1>1, <1>2, <1>3 DEF TokenInv, AloneInv, GivenInv

LEMMA TokensStep == ASSUME TokenInv, [Tokens!Next]_tokenPart PROVE TokenInv'
<1>1. CASE UNCHANGED tokenPart
  <2>1. UNCHANGED <<todo, fresh, sent, oldMeta, holds, mainKey, metaKey, activeKey, deviceKey, made,
                    calls, alone, given, tokenFaults>>
    BY <1>1 DEF tokenPart
  <2>2. TokenTypes' /\ AloneInv' /\ GivenInv'
    BY <2>1 DEF TokenInv, TokenTypes, AloneInv, StoredSoFar, Togo, GivenInv, Tokens!GivenTokenWorks
  <2>3. \A c \in Clients : TodoOK(c)'
    BY <2>1 DEF TokenInv, TodoOK
  <2>. QED  BY <2>2, <2>3 DEF TokenInv
<1>2. ASSUME NEW c \in Clients, Tokens!Command(c) PROVE TokenInv'
  BY <1>2, ValidateKeeps, SetKeyKeeps, SetMetaKeeps, AddActiveKeeps, SetDeviceKeeps, RevokeKeeps,
     FailsKeeps DEF Tokens!Command
<1>. QED  BY <1>1, <1>2, BeginKeeps, ExpireKeeps DEF Tokens!Next

-----------------------------------------------------------------------------
(* Proxies.                                                                *)

\* A proxy that fails too often needs somebody to judge it, or a check after its last failure.
Judged(p) == \E r \in Requesters : asks[r] = "judging" /\ using[r] = p
ProxyInv ==
  /\ good \in [ProxyURLs -> Nat] /\ bad \in [ProxyURLs -> Nat]
  /\ DOMAIN asks = Requesters /\ DOMAIN using = Requesters
  /\ upProxies \subseteq ProxyURLs
  /\ \A p \in upProxies : Pools!TooOften(p) => p \in revived \/ Judged(p)

LEMMA ProxyAlone == ASSUME ProxyInv, UNCHANGED proxyPart PROVE ProxyInv'
BY DEF proxyPart, ProxyInv, Judged, Pools!TooOften

LEMMA ProxyUse == ProxyInv => Pools!FailingNotUsed
BY DEF ProxyInv, Judged, Pools!TooOften, Pools!FailingNotUsed

\* A success never makes a proxy fail.
LEMMA SuccessHelps ==
  ASSUME NEW g \in Nat, NEW b \in Nat PROVE g + 1 < b \div 2 => g < b \div 2
<1>1. b \div 2 \in Nat
  BY SMT
<1>. QED  BY <1>1

LEMMA ProxyInitially == Pools!ProxyInit => ProxyInv
BY DEF Pools!ProxyInit, ProxyInv

LEMMA ProxyTaken == ASSUME ProxyInv, NEW r \in Requesters, Pools!Get(r) PROVE ProxyInv'
<1>1. /\ UNCHANGED <<good, bad, upProxies, revived>>
      /\ DOMAIN asks' = Requesters /\ DOMAIN using' = Requesters
      /\ \A q \in Requesters : asks[q] = "judging" => asks'[q] = asks[q] /\ using'[q] = using[q]
  BY DEF ProxyInv, Pools!Get, Pools!use, Pools!health, Pools!counts
<1>2. \A p \in upProxies : Judged(p) => Judged(p)'
  BY <1>1 DEF Judged
<1>. QED  BY <1>1, <1>2 DEF ProxyInv, Pools!TooOften

LEMMA ProxyWorked == ASSUME ProxyInv, NEW r \in Requesters, Pools!MarkSuccess(r) PROVE ProxyInv'
<1>1. /\ UNCHANGED <<bad, upProxies, revived>>
      /\ DOMAIN asks' = Requesters /\ DOMAIN using' = Requesters
      /\ \A q \in Requesters : asks[q] = "judging" => asks'[q] = asks[q] /\ using'[q] = using[q]
  BY DEF ProxyInv, Pools!MarkSuccess, Pools!Done, Pools!health
<1>2. \A p \in upProxies : Judged(p) => Judged(p)'
  BY <1>1 DEF Judged
<1>3. /\ good' \in [ProxyURLs -> Nat]
      /\ \A p \in ProxyURLs : good'[p] = good[p] \/ good'[p] = good[p] + 1
  <2>1. CASE using[r] \in ProxyURLs
    BY <2>1 DEF ProxyInv, Pools!MarkSuccess
  <2>2. CASE using[r] \notin ProxyURLs
    BY <2>2 DEF ProxyInv, Pools!MarkSuccess
  <2>. QED  BY <2>1, <2>2
<1>4. \A p \in upProxies : Pools!TooOften(p)' => Pools!TooOften(p)
  <2> SUFFICES ASSUME NEW p \in upProxies, Pools!TooOften(p)' PROVE Pools!TooOften(p)
    OBVIOUS
  <2>1. p \in ProxyURLs /\ good[p] \in Nat /\ bad[p] \in Nat
    BY DEF ProxyInv
  <2>2. bad[p] > FailureLimit /\ good'[p] < bad[p] \div 2
    BY <1>1 DEF Pools!TooOften
  <2>3. good[p] < bad[p] \div 2
    BY <1>3, <2>1, <2>2, SuccessHelps
  <2>. QED  BY <2>2, <2>3 DEF Pools!TooOften
<1>. QED  BY <1>1, <1>2, <1>3, <1>4 DEF ProxyInv

LEMMA ProxyFailed == ASSUME ProxyInv, NEW r \in Requesters, Pools!CountFailure(r) PROVE ProxyInv'
<1>1. /\ UNCHANGED <<good, upProxies, revived>> /\ asks[r] = "using"
      /\ DOMAIN asks' = Requesters /\ DOMAIN using' = Requesters
      /\ \A q \in Requesters : asks[q] = "judging" => asks'[q] = asks[q] /\ using'[q] = using[q]
  BY DEF ProxyInv, Pools!CountFailure, Pools!Done, Pools!health
<1>2. \A p \in upProxies : Judged(p) => Judged(p)'
  BY <1>1 DEF Judged
<1>3. bad' \in [ProxyURLs -> Nat]
  BY DEF ProxyInv, Pools!CountFailure
<1>4. \A p \in ProxyURLs : bad'[p] # bad[p] => Judged(p)'
  BY DEF ProxyInv, Pools!CountFailure, Judged
<1>5. \A p \in upProxies : bad'[p] = bad[p] => (Pools!TooOften(p)' <=> Pools!TooOften(p))
  BY <1>1 DEF Pools!TooOften
<1>. QED  BY <1>1, <1>2, <1>3, <1>4, <1>5 DEF ProxyInv

LEMMA ProxyJudged == ASSUME ProxyInv, NEW r \in Requesters, Pools!JudgeFailure(r) PROVE ProxyInv'
<1>1. /\ UNCHANGED <<good, bad>>
      /\ DOMAIN asks' = Requesters /\ DOMAIN using' = Requesters
      /\ \A q \in Requesters : q # r => asks'[q] = asks[q] /\ using'[q] = using[q]
      /\ upProxies' \subseteq upProxies /\ revived' = revived \ {using[r]}
      /\ Pools!TooOften(using[r]) => using[r] \notin upProxies'
  BY DEF ProxyInv, Pools!JudgeFailure, Pools!Done, Pools!counts
<1>2. \A p \in upProxies : Judged(p) /\ p # using[r] => Judged(p)'
  BY <1>1 DEF Judged
<1>3. \A p \in upProxies : Pools!TooOften(p)' <=> Pools!TooOften(p)
  BY <1>1 DEF Pools!TooOften
<1>. QED  BY <1>1, <1>2, <1>3 DEF ProxyInv

LEMMA ProxyChecked ==
  ASSUME ProxyInv, NEW p \in ProxyURLs, NEW ok \in BOOLEAN, Pools!CheckEnds(p, ok) PROVE ProxyInv'
<1>1. /\ UNCHANGED <<good, bad, asks, using>>
      /\ upProxies' \subseteq upProxies \union {p}
      /\ p \in upProxies' => p \in revived'
      /\ \A q \in revived : q # p => q \in revived'
  BY DEF ProxyInv, Pools!CheckEnds, Pools!counts, Pools!use
<1>. QED  BY <1>1 DEF ProxyInv, Judged, Pools!TooOften

LEMMA ProxyEdited ==
  ASSUME ProxyInv,
         \/ Pools!StartRound
         \/ Pools!LoopEnds
         \/ Pools!Close
         \/ \E p \in ProxyURLs : Pools!RemoveProxy(p) \/ Pools!AddProxy(p)
  PROVE ProxyInv'
<1>1. UNCHANGED <<good, bad, asks, using, upProxies, revived>>
  BY DEF Pools!StartRound, Pools!LoopEnds, Pools!Close, Pools!RemoveProxy, Pools!AddProxy,
     Pools!health, Pools!counts, Pools!use
<1>. QED  BY <1>1 DEF ProxyInv, Judged, Pools!TooOften

LEMMA ProxyStep == ProxyInv /\ [Pools!ProxyNext]_proxyPart => ProxyInv'
BY ProxyAlone, ProxyTaken, ProxyWorked, ProxyFailed, ProxyJudged, ProxyChecked, ProxyEdited
   DEF Pools!ProxyNext, Pools!Request

-----------------------------------------------------------------------------
(* User agents.                                                            *)

AgentsInv ==
  /\ userAgents \in Seq(Agents) /\ weights \in Seq(Weights \ {0})
  /\ DOMAIN ownWeight = Agents
  /\ ~unweighted => /\ Len(weights) = Len(userAgents)
                    /\ \A i \in 1..Len(userAgents) : weights[i] = ownWeight[userAgents[i]]

LEMMA AgentsUse == AgentsInv => Pools!WeightsKept
BY DEF AgentsInv, Pools!WeightsKept

LEMMA SameCardinality == \A S : Pools!Cardinality(S) = Cardinality(S)
BY DEF Pools!Cardinality, Cardinality

\* The agents of the configuration, in some order.
LEMMA ConfiguredAgents ==
  /\ Pools!Listing(Configured) \in Seq(Agents)
  /\ \A i, j \in DOMAIN Pools!Listing(Configured) :
       Pools!Listing(Configured)[i] = Pools!Listing(Configured)[j] => i = j
  /\ \A i \in DOMAIN Pools!Listing(Configured) : Pools!Listing(Configured)[i] \in Configured
<1> DEFINE n == Cardinality(Configured)
           Good(f) == Pools!IsInjective(f)
<1>1. n \in Nat /\ ExistsBijection(1..n, Configured)
  BY AgentBounds, FS_CardinalityType
<1>2. \E f \in [1..n -> Configured] : Good(f)
  BY <1>1 DEF ExistsBijection, Bijection, Injection, IsInjective, Pools!IsInjective
<1>3. Pools!Listing(Configured) = CHOOSE f \in [1..n -> Configured] : Good(f)
  BY SameCardinality DEF Pools!Listing
<1> DEFINE s == Pools!Listing(Configured)
<1>4. s \in [1..n -> Configured] /\ Good(s)
  BY <1>2, <1>3
<1>5. \A i, j \in DOMAIN s : s[i] = s[j] => i = j
  BY <1>4 DEF Pools!IsInjective
<1> HIDE DEF Good, n, s
<1>6. s \in Seq(Agents) /\ \A i \in DOMAIN s : s[i] \in Configured
  BY <1>1, <1>4, AgentBounds
<1>. QED  BY <1>5, <1>6 DEF s

LEMMA AgentsInitially == Pools!AgentsInit => AgentsInv
<1> SUFFICES ASSUME Pools!AgentsInit PROVE AgentsInv
  OBVIOUS
<1>1. userAgents = Pools!Listing(Configured) /\ DOMAIN ownWeight = Agents
  BY DEF Pools!AgentsInit
<1>2. /\ userAgents \in Seq(Agents)
      /\ \A i, j \in DOMAIN userAgents : userAgents[i] = userAgents[j] => i = j
      /\ \A i \in DOMAIN userAgents : userAgents[i] \in Configured
  BY <1>1, ConfiguredAgents
<1>3. CASE weights = <<>> /\ unweighted
  BY <1>1, <1>2, <1>3 DEF AgentsInv
<1>4. CASE /\ weights \in [DOMAIN userAgents -> Weights \ {0}] /\ unweighted = FALSE
           /\ ownWeight = [a \in Agents |-> IF a \in Configured
                                            THEN weights[Pools!IndexOf(userAgents, a)] ELSE 0]
  <2>1. weights \in Seq(Weights \ {0}) /\ Len(weights) = Len(userAgents)
    BY <1>2, <1>4
  <2>2. ASSUME NEW i \in 1..Len(userAgents) PROVE weights[i] = ownWeight[userAgents[i]]
    <3>1. i \in DOMAIN userAgents /\ userAgents[i] \in Configured /\ userAgents[i] \in Agents
      BY <1>2, <2>2
    <3>2. Pools!IndexOf(userAgents, userAgents[i]) = i
      BY <1>2, <3>1 DEF Pools!IndexOf
    <3>. QED  BY <1>4, <3>1, <3>2
  <2>. QED  BY <1>1, <1>2, <2>1, <2>2 DEF AgentsInv
<1>. QED  BY <1>3, <1>4 DEF Pools!AgentsInit

LEMMA AgentAdded ==
  ASSUME AgentsInv, NEW a \in Agents, NEW w \in Weights, Pools!Add(a, w) PROVE AgentsInv'
<1>1. /\ userAgents' = Append(userAgents, a)
      /\ weights' = (IF w > 0 THEN Append(weights, w) ELSE weights)
      /\ ownWeight' = [ownWeight EXCEPT ![a] = w]
      /\ unweighted' = (unweighted \/ w = 0)
      /\ a \notin {userAgents[i] : i \in DOMAIN userAgents} /\ userAgents \in Seq(Agents)
  BY DEF Pools!Add, Pools!Range, AgentsInv
<1>2. userAgents \in Seq(Agents) /\ weights \in Seq(Weights \ {0}) /\ DOMAIN ownWeight = Agents
  BY DEF AgentsInv
<1>3. w \in Nat
  BY AgentBounds
<1>4. userAgents' \in Seq(Agents) /\ weights' \in Seq(Weights \ {0}) /\ DOMAIN ownWeight' = Agents
  BY <1>1, <1>2, <1>3
<1>5. ASSUME ~unweighted'
      PROVE  /\ Len(weights') = Len(userAgents')
             /\ \A i \in 1..Len(userAgents') : weights'[i] = ownWeight'[userAgents'[i]]
  <2>1. ~unweighted /\ w # 0 /\ w > 0
    <3>1. unweighted' = (unweighted \/ w = 0)
      BY <1>1
    <3>2. ~unweighted /\ w # 0
      BY <1>5, <3>1, Zenon
    <3>. QED  BY <1>3, <3>2
  <2>2. /\ Len(weights) = Len(userAgents)
        /\ \A i \in 1..Len(userAgents) : weights[i] = ownWeight[userAgents[i]]
    BY <2>1 DEF AgentsInv
  <2>3. weights' = Append(weights, w) /\ userAgents' = Append(userAgents, a)
    BY <1>1, <2>1
  <2>4. Len(weights') = Len(userAgents') /\ Len(userAgents') = Len(userAgents) + 1
    BY <1>2, <2>2, <2>3
  <2>5. ASSUME NEW i \in 1..Len(userAgents) PROVE weights'[i] = ownWeight'[userAgents'[i]]
    <3>1. weights'[i] = weights[i] /\ userAgents'[i] = userAgents[i] /\ userAgents[i] \in Agents
      BY <1>2, <2>2, <2>3
    <3>. QED  BY <1>1, <1>2, <2>2, <3>1
  <2>6. /\ weights'[Len(userAgents) + 1] = w
        /\ userAgents'[Len(userAgents) + 1] = a
    BY <1>2, <2>2, <2>3
  <2>7. weights'[Len(userAgents) + 1] = ownWeight'[userAgents'[Len(userAgents) + 1]]
    BY <1>1, <1>2, <2>6
  <2>8. \A i \in 1..(Len(userAgents) + 1) : i \in 1..Len(userAgents) \/ i = Len(userAgents) + 1
    BY <1>2
  <2>. QED  BY <2>4, <2>5, <2>7, <2>8
<1>. QED  BY <1>4, <1>5 DEF AgentsInv

\* What Without leaves.
LEMMA Removed ==
  ASSUME NEW S, NEW s \in Seq(S), NEW i \in 1..Len(s)
  PROVE  /\ Pools!Without(s, i) \in Seq(S)
         /\ Len(Pools!Without(s, i)) = Len(s) - 1
         /\ \A k \in 1..(Len(s) - 1) :
              Pools!Without(s, i)[k] = IF k < i THEN s[k] ELSE s[k + 1]
<1> DEFINE front == SubSeq(s, 1, i - 1)
           back == SubSeq(s, i + 1, Len(s))
<1>1. Len(s) \in Nat /\ i \in Nat /\ i >= 1 /\ i <= Len(s)
  OBVIOUS
<1>2. /\ front \in Seq(S) /\ Len(front) = i - 1
      /\ \A k \in 1..(i - 1) : front[k] = s[k]
  <2>1. \A k \in 1..(i - 1) : s[k] \in S
    BY <1>1
  <2>2. /\ front \in Seq(S) /\ Len(front) = IF 1 <= i - 1 THEN (i - 1) - 1 + 1 ELSE 0
        /\ \A k \in 1..((i - 1) - 1 + 1) : front[k] = s[1 + k - 1]
    BY <1>1, <2>1, SubSeqProperties
  <2> HIDE DEF front
  <2>. QED  BY <1>1, <2>2
<1>3. /\ back \in Seq(S) /\ Len(back) = Len(s) - i
      /\ \A k \in 1..(Len(s) - i) : back[k] = s[i + k]
  <2>1. \A k \in (i + 1)..Len(s) : s[k] \in S
    BY <1>1
  <2>2. /\ back \in Seq(S) /\ Len(back) = IF i + 1 <= Len(s) THEN Len(s) - (i + 1) + 1 ELSE 0
        /\ \A k \in 1..(Len(s) - (i + 1) + 1) : back[k] = s[i + 1 + k - 1]
    BY <1>1, <2>1, SubSeqProperties
  <2> HIDE DEF back
  <2>. QED  BY <1>1, <2>2
<1>4. Pools!Without(s, i) = front \o back
  BY DEF Pools!Without
<1> HIDE DEF front, back
<1>5. /\ front \o back \in Seq(S) /\ Len(front \o back) = Len(front) + Len(back)
      /\ \A k \in 1..(Len(front) + Len(back)) :
           (front \o back)[k] = IF k <= Len(front) THEN front[k] ELSE back[k - Len(front)]
  BY <1>2, <1>3, ConcatProperties
<1> DEFINE r == front \o back
<1> HIDE DEF r
<1>6. ASSUME NEW k \in 1..(Len(s) - 1) PROVE r[k] = IF k < i THEN s[k] ELSE s[k + 1]
  <2>1. k \in 1..(Len(front) + Len(back))
    BY <1>1, <1>2, <1>3
  <2>2. r[k] = IF k <= Len(front) THEN front[k] ELSE back[k - Len(front)]
    BY <1>5, <2>1 DEF r
  <2>3. CASE k < i
    BY <1>1, <1>2, <2>2, <2>3
  <2>4. CASE ~(k < i)
    <3>1. k - (i - 1) \in 1..(Len(s) - i) /\ ~(k <= i - 1)
      BY <1>1, <2>4
    <3>2. r[k] = back[k - (i - 1)]
      BY <1>2, <2>2, <3>1
    <3>3. back[k - (i - 1)] = s[i + (k - (i - 1))]
      BY <1>3, <3>1
    <3>4. i + (k - (i - 1)) = k + 1
      BY <1>1
    <3>. QED  BY <2>4, <3>2, <3>3, <3>4
  <2>. QED  BY <2>3, <2>4
<1>7. r \in Seq(S) /\ Len(r) = Len(s) - 1
  BY <1>1, <1>2, <1>3, <1>5 DEF r
<1>. QED  BY <1>4, <1>6, <1>7 DEF r

LEMMA AgentRemoved ==
  ASSUME AgentsInv, NEW a \in Agents, Pools!RemoveAgent(a) PROVE AgentsInv'
<1> DEFINE i == Pools!IndexOf(userAgents, a)
<1>1. /\ a \in {userAgents[j] : j \in DOMAIN userAgents}
      /\ userAgents' = Pools!Without(userAgents, i) /\ weights' = Pools!DropsWeight(i)
      /\ ownWeight' = ownWeight /\ unweighted' = unweighted
  BY DEF Pools!RemoveAgent, Pools!Range
<1>2. userAgents \in Seq(Agents) /\ weights \in Seq(Weights \ {0}) /\ DOMAIN ownWeight = Agents
  BY DEF AgentsInv
<1>3. i \in 1..Len(userAgents)
  BY <1>1, <1>2 DEF Pools!IndexOf
<1> HIDE DEF i
<1>4. /\ userAgents' \in Seq(Agents) /\ Len(userAgents') = Len(userAgents) - 1
      /\ \A k \in 1..(Len(userAgents) - 1) :
           userAgents'[k] = IF k < i THEN userAgents[k] ELSE userAgents[k + 1]
  BY <1>1, <1>2, <1>3, Removed
<1>5. CASE Len(weights) >= i
  <2>1. i \in 1..Len(weights) /\ weights' = Pools!Without(weights, i)
    BY <1>1, <1>2, <1>3, <1>5 DEF Pools!DropsWeight
  <2>2. /\ weights' \in Seq(Weights \ {0}) /\ Len(weights') = Len(weights) - 1
        /\ \A k \in 1..(Len(weights) - 1) : weights'[k] = IF k < i THEN weights[k] ELSE weights[k + 1]
    BY <1>2, <2>1, Removed
  <2>3. ASSUME ~unweighted
        PROVE  /\ Len(weights') = Len(userAgents')
               /\ \A k \in 1..Len(userAgents') : weights'[k] = ownWeight[userAgents'[k]]
    <3>1. /\ Len(weights) = Len(userAgents)
          /\ \A k \in 1..Len(userAgents) : weights[k] = ownWeight[userAgents[k]]
      BY <2>3 DEF AgentsInv
    <3>2. Len(userAgents) \in Nat /\ i \in Nat
      BY <1>2, <1>3
    <3>3. ASSUME NEW k \in 1..(Len(userAgents) - 1)
          PROVE  weights'[k] = ownWeight[userAgents'[k]]
      <4>1. k \in 1..Len(userAgents) /\ k + 1 \in 1..Len(userAgents)
        BY <3>2
      <4>. QED  BY <1>4, <2>2, <3>1, <4>1
    <3>. QED  BY <1>4, <2>2, <3>1, <3>3
  <2>. QED  BY <1>1, <1>2, <1>4, <2>2, <2>3 DEF AgentsInv
<1>6. CASE ~(Len(weights) >= i)
  <2>1. weights' = weights
    BY <1>1, <1>6 DEF Pools!DropsWeight
  <2>2. unweighted
    BY <1>2, <1>3, <1>6 DEF AgentsInv
  <2>. QED  BY <1>1, <1>2, <1>4, <2>1, <2>2 DEF AgentsInv
<1>. QED  BY <1>5, <1>6

LEMMA AgentsStep == AgentsInv /\ [Pools!AgentsNext]_agentPart => AgentsInv'
<1> SUFFICES ASSUME AgentsInv, [Pools!AgentsNext]_agentPart PROVE AgentsInv'
  OBVIOUS
<1>1. CASE \/ UNCHANGED agentPart
           \/ Pools!GetRoundRobin
           \/ Pools!GetOther
           \/ \E mobile \in BOOLEAN : Pools!GetKind(mobile)
  <2>1. UNCHANGED <<userAgents, weights, ownWeight, unweighted>>
    BY <1>1 DEF agentPart, Pools!GetRoundRobin, Pools!GetOther, Pools!GetKind, Pools!Choose
  <2>. QED  BY <2>1 DEF AgentsInv
<1>. QED  BY <1>1, AgentAdded, AgentRemoved DEF Pools!AgentsNext

-----------------------------------------------------------------------------
(* Databases.                                                              *)

DbWords == {"lock", "unlock", "rlock", "runlock", "connected?", "client?", "use", "close", "dial",
            "store", "connect", "disconnect", "forget"}

LEMMA JoinIs ==
  ASSUME NEW s \in Seq(DbWords), NEW t \in Seq(DbWords), NEW u \in Seq(DbWords),
         Len(u) = Len(s) + Len(t),
         \A i \in 1..Len(s) : u[i] = s[i],
         \A i \in 1..Len(t) : u[Len(s) + i] = t[i]
  PROVE  s \o t = u
<1> DEFINE w == s \o t
<1>1. /\ w \in Seq(DbWords) /\ Len(w) = Len(s) + Len(t)
      /\ \A i \in 1..(Len(s) + Len(t)) : w[i] = IF i <= Len(s) THEN s[i] ELSE t[i - Len(s)]
  BY ConcatProperties
<1> HIDE DEF w
<1>2. ASSUME NEW i \in 1..(Len(s) + Len(t)) PROVE w[i] = u[i]
  <2>1. CASE i <= Len(s)
    BY <1>1, <2>1
  <2>2. CASE ~(i <= Len(s))
    <3>1. i - Len(s) \in 1..Len(t) /\ Len(s) + (i - Len(s)) = i
      BY <2>2
    <3>2. u[Len(s) + (i - Len(s))] = t[i - Len(s)]
      BY <3>1
    <3>3. w[i] = t[i - Len(s)]
      BY <1>1, <2>2, <3>1
    <3>. QED  BY <3>1, <3>2, <3>3
  <2>. QED  BY <2>1, <2>2
<1>3. w = u
  BY <1>1, <1>2
<1>. QED  BY <1>3 DEF w

LEMMA TwoReads ==
  <<"rlock", "runlock">> \o <<"rlock", "runlock">>
    = <<"rlock", "runlock", "rlock", "runlock">>
<1> DEFINE s == <<"rlock", "runlock">>
           t == <<"rlock", "runlock">>
           u == <<"rlock", "runlock", "rlock", "runlock">>
<1>1. /\ s \in Seq(DbWords) /\ t \in Seq(DbWords) /\ u \in Seq(DbWords)
      /\ Len(s) = 2 /\ Len(t) = 2 /\ Len(u) = 4
  BY DEF DbWords
<1>2. \A i \in 1..2 : u[i] = s[i]
  OBVIOUS
<1>3. \A i \in 1..2 : u[2 + i] = t[i]
  OBVIOUS
<1> HIDE DEF s, t, u
<1>4. /\ Len(u) = Len(s) + Len(t) /\ \A i \in 1..Len(s) : u[i] = s[i]
      /\ \A i \in 1..Len(t) : u[Len(s) + i] = t[i]
  BY <1>1, <1>2, <1>3
<1>5. s \o t = u
  BY <1>1, <1>4, JoinIs
<1>. QED  BY <1>5 DEF s, t, u

LEMMA ThreeReads ==
  <<"rlock", "runlock", "rlock", "runlock">> \o <<"rlock", "runlock">>
    = <<"rlock", "runlock", "rlock", "runlock", "rlock", "runlock">>
<1> DEFINE s == <<"rlock", "runlock", "rlock", "runlock">>
           t == <<"rlock", "runlock">>
           u == <<"rlock", "runlock", "rlock", "runlock", "rlock", "runlock">>
<1>1. /\ s \in Seq(DbWords) /\ t \in Seq(DbWords) /\ u \in Seq(DbWords)
      /\ Len(s) = 4 /\ Len(t) = 2 /\ Len(u) = 6
  BY DEF DbWords
<1>2. \A i \in 1..4 : u[i] = s[i]
  OBVIOUS
<1>3. \A i \in 1..2 : u[4 + i] = t[i]
  OBVIOUS
<1> HIDE DEF s, t, u
<1>4. /\ Len(u) = Len(s) + Len(t) /\ \A i \in 1..Len(s) : u[i] = s[i]
      /\ \A i \in 1..Len(t) : u[Len(s) + i] = t[i]
  BY <1>1, <1>2, <1>3
<1>5. s \o t = u
  BY <1>1, <1>4, JoinIs
<1>. QED  BY <1>5 DEF s, t, u

LEMMA RedisStats ==
  <<"rlock", "runlock", "rlock", "runlock", "rlock", "runlock">> \o <<"rlock", "connected?", "runlock">>
    = <<"rlock", "runlock", "rlock", "runlock", "rlock", "runlock", "rlock", "connected?", "runlock">>
<1> DEFINE s == <<"rlock", "runlock", "rlock", "runlock", "rlock", "runlock">>
           t == <<"rlock", "connected?", "runlock">>
           u == <<"rlock", "runlock", "rlock", "runlock", "rlock", "runlock", "rlock", "connected?", "runlock">>
<1>1. /\ s \in Seq(DbWords) /\ t \in Seq(DbWords) /\ u \in Seq(DbWords)
      /\ Len(s) = 6 /\ Len(t) = 3 /\ Len(u) = 9
  BY DEF DbWords
<1>2. \A i \in 1..6 : u[i] = s[i]
  OBVIOUS
<1>3. \A i \in 1..3 : u[6 + i] = t[i]
  OBVIOUS
<1> HIDE DEF s, t, u
<1>4. /\ Len(u) = Len(s) + Len(t) /\ \A i \in 1..Len(s) : u[i] = s[i]
      /\ \A i \in 1..Len(t) : u[Len(s) + i] = t[i]
  BY <1>1, <1>2, <1>3
<1>5. s \o t = u
  BY <1>1, <1>4, JoinIs
<1>. QED  BY <1>5 DEF s, t, u

LEMMA OneSetter ==
  <<"store", "lock", "connect", "unlock">> \o <<"lock", "unlock">>
    = <<"store", "lock", "connect", "unlock", "lock", "unlock">>
<1> DEFINE s == <<"store", "lock", "connect", "unlock">>
           t == <<"lock", "unlock">>
           u == <<"store", "lock", "connect", "unlock", "lock", "unlock">>
<1>1. /\ s \in Seq(DbWords) /\ t \in Seq(DbWords) /\ u \in Seq(DbWords)
      /\ Len(s) = 4 /\ Len(t) = 2 /\ Len(u) = 6
  BY DEF DbWords
<1>2. \A i \in 1..4 : u[i] = s[i]
  OBVIOUS
<1>3. \A i \in 1..2 : u[4 + i] = t[i]
  OBVIOUS
<1> HIDE DEF s, t, u
<1>4. /\ Len(u) = Len(s) + Len(t) /\ \A i \in 1..Len(s) : u[i] = s[i]
      /\ \A i \in 1..Len(t) : u[Len(s) + i] = t[i]
  BY <1>1, <1>2, <1>3
<1>5. s \o t = u
  BY <1>1, <1>4, JoinIs
<1>. QED  BY <1>5 DEF s, t, u

LEMMA TwoSetters ==
  <<"store", "lock", "connect", "unlock", "lock", "unlock">> \o <<"lock", "unlock">>
    = <<"store", "lock", "connect", "unlock", "lock", "unlock", "lock", "unlock">>
<1> DEFINE s == <<"store", "lock", "connect", "unlock", "lock", "unlock">>
           t == <<"lock", "unlock">>
           u == <<"store", "lock", "connect", "unlock", "lock", "unlock", "lock", "unlock">>
<1>1. /\ s \in Seq(DbWords) /\ t \in Seq(DbWords) /\ u \in Seq(DbWords)
      /\ Len(s) = 6 /\ Len(t) = 2 /\ Len(u) = 8
  BY DEF DbWords
<1>2. \A i \in 1..6 : u[i] = s[i]
  OBVIOUS
<1>3. \A i \in 1..2 : u[6 + i] = t[i]
  OBVIOUS
<1> HIDE DEF s, t, u
<1>4. /\ Len(u) = Len(s) + Len(t) /\ \A i \in 1..Len(s) : u[i] = s[i]
      /\ \A i \in 1..Len(t) : u[Len(s) + i] = t[i]
  BY <1>1, <1>2, <1>3
<1>5. s \o t = u
  BY <1>1, <1>4, JoinIs
<1>. QED  BY <1>5 DEF s, t, u

LEMMA CloseNotes ==
  <<"lock", "unlock">> \o <<"unlock">>
    = <<"lock", "unlock", "unlock">>
<1> DEFINE s == <<"lock", "unlock">>
           t == <<"unlock">>
           u == <<"lock", "unlock", "unlock">>
<1>1. /\ s \in Seq(DbWords) /\ t \in Seq(DbWords) /\ u \in Seq(DbWords)
      /\ Len(s) = 2 /\ Len(t) = 1 /\ Len(u) = 3
  BY DEF DbWords
<1>2. \A i \in 1..2 : u[i] = s[i]
  OBVIOUS
<1>3. \A i \in 1..1 : u[2 + i] = t[i]
  OBVIOUS
<1> HIDE DEF s, t, u
<1>4. /\ Len(u) = Len(s) + Len(t) /\ \A i \in 1..Len(s) : u[i] = s[i]
      /\ \A i \in 1..Len(t) : u[Len(s) + i] = t[i]
  BY <1>1, <1>2, <1>3
<1>5. s \o t = u
  BY <1>1, <1>4, JoinIs
<1>. QED  BY <1>5 DEF s, t, u

LEMMA NoMore == <<"lock", "unlock">> \o <<>> = <<"lock", "unlock">>
<1>1. <<"lock", "unlock">> \in Seq(DbWords)
  BY DEF DbWords
<1>. QED  BY <1>1, ConcatEmptySeq

\* What is left of a call of redis.go and mongo.go that holds nothing, a read lock, or the lock.
Outside(k) ==
  {<<>>, <<"lock", "connected?", "client?", "close">>,
   <<"rlock", "connected?", "client?", "use", "runlock">>,
   <<"rlock", "runlock">>, <<"lock", "unlock">>}
  \union (IF k = "mongodb" THEN {<<"lock", "dial">>}
          ELSE {<<"dial">>,
                <<"store", "lock", "connect", "unlock", "lock", "unlock", "lock", "unlock">>,
                <<"lock", "connect", "unlock", "lock", "unlock", "lock", "unlock">>,
                <<"lock", "unlock", "lock", "unlock">>,
                <<"rlock", "connected?", "runlock">>,
                <<"rlock", "runlock", "rlock", "connected?", "runlock">>,
                <<"rlock", "runlock", "rlock", "runlock", "rlock", "connected?", "runlock">>,
                <<"rlock", "runlock", "rlock", "runlock", "rlock", "runlock",
                  "rlock", "connected?", "runlock">>})
Reading(k) ==
  {<<"connected?", "client?", "use", "runlock">>, <<"client?", "use", "runlock">>,
   <<"use", "runlock">>, <<"runlock">>}
  \union (IF k = "mongodb" THEN {}
          ELSE {<<"connected?", "runlock">>,
                <<"runlock", "rlock", "connected?", "runlock">>,
                <<"runlock", "rlock", "runlock", "rlock", "connected?", "runlock">>,
                <<"runlock", "rlock", "runlock", "rlock", "runlock", "rlock",
                  "connected?", "runlock">>})
Writing(k) ==
  {<<"connected?", "client?", "close">>, <<"client?", "close">>, <<"close">>,
   <<"disconnect", "forget", "unlock">>, <<"forget", "unlock">>, <<"unlock">>}
  \union (IF k = "mongodb"
          THEN {<<"dial">>, <<"store", "connect", "unlock">>, <<"connect", "unlock">>}
          ELSE {<<"connect", "unlock", "lock", "unlock", "lock", "unlock">>,
                <<"unlock", "lock", "unlock", "lock", "unlock">>,
                <<"unlock", "lock", "unlock">>,
                <<"lock", "unlock", "unlock">>})
\* What only a Disconnect has left.
Closing ==
  {<<"lock", "connected?", "client?", "close">>, <<"connected?", "client?", "close">>,
   <<"client?", "close">>, <<"close">>, <<"lock", "unlock", "unlock">>}

LEMMA FromOutside ==
  ASSUME NEW k \in {"redis", "mongodb"}, NEW s \in Outside(k), s # <<>>
  PROVE  /\ Head(s) \in {"lock", "rlock", "dial", "store"}
         /\ Head(s) = "lock" => Tail(s) \in Writing(k) /\ (Tail(s) \in Closing => s \in Closing)
                                /\ Tail(s) # <<"connect", "unlock">>
                                /\ Tail(s) # <<"forget", "unlock">>
         /\ Head(s) = "rlock" => Tail(s) \in Reading(k) /\ Tail(s) \notin Closing
                                 /\ Tail(s) # <<"use", "runlock">>
         /\ Head(s) = "dial" => k = "redis"
         /\ Head(s) = "store" => k = "redis" /\ Tail(s) \in Outside(k) /\ Tail(s) \notin Closing
<1>1. CASE s = <<"lock", "connected?", "client?", "close">>
  <2>1. Head(s) = "lock" /\ Tail(s) = <<"connected?", "client?", "close">>
    BY <1>1
  <2>. QED  BY <1>1, <2>1 DEF Outside, Writing, Reading, Closing
<1>2. CASE s = <<"rlock", "connected?", "client?", "use", "runlock">>
  <2>1. Head(s) = "rlock" /\ Tail(s) = <<"connected?", "client?", "use", "runlock">>
    BY <1>2
  <2>. QED  BY <1>2, <2>1 DEF Outside, Writing, Reading, Closing
<1>3. CASE s = <<"rlock", "runlock">>
  <2>1. Head(s) = "rlock" /\ Tail(s) = <<"runlock">>
    BY <1>3
  <2>. QED  BY <1>3, <2>1 DEF Outside, Writing, Reading, Closing
<1>4. CASE s = <<"lock", "unlock">>
  <2>1. Head(s) = "lock" /\ Tail(s) = <<"unlock">>
    BY <1>4
  <2>. QED  BY <1>4, <2>1 DEF Outside, Writing, Reading, Closing
<1>5. CASE k = "mongodb" /\ s = <<"lock", "dial">>
  <2>1. Head(s) = "lock" /\ Tail(s) = <<"dial">>
    BY <1>5
  <2>. QED  BY <1>5, <2>1 DEF Outside, Writing, Reading, Closing
<1>6. CASE k # "mongodb" /\ s = <<"dial">>
  <2>1. Head(s) = "dial" /\ Tail(s) = <<>>
    BY <1>6
  <2>. QED  BY <1>6, <2>1 DEF Outside, Writing, Reading, Closing
<1>7. CASE k # "mongodb"
             /\ s = <<"store", "lock", "connect", "unlock", "lock", "unlock", "lock", "unlock">>
  <2>1. Head(s) = "store"
          /\ Tail(s) = <<"lock", "connect", "unlock", "lock", "unlock", "lock", "unlock">>
    BY <1>7
  <2>. QED  BY <1>7, <2>1 DEF Outside, Writing, Reading, Closing
<1>8. CASE k # "mongodb" /\ s = <<"lock", "connect", "unlock", "lock", "unlock", "lock", "unlock">>
  <2>1. Head(s) = "lock" /\ Tail(s) = <<"connect", "unlock", "lock", "unlock", "lock", "unlock">>
    BY <1>8
  <2>. QED  BY <1>8, <2>1 DEF Outside, Writing, Reading, Closing
<1>9. CASE k # "mongodb" /\ s = <<"lock", "unlock", "lock", "unlock">>
  <2>1. Head(s) = "lock" /\ Tail(s) = <<"unlock", "lock", "unlock">>
    BY <1>9
  <2>. QED  BY <1>9, <2>1 DEF Outside, Writing, Reading, Closing
<1>10. CASE k # "mongodb" /\ s = <<"rlock", "connected?", "runlock">>
  <2>1. Head(s) = "rlock" /\ Tail(s) = <<"connected?", "runlock">>
    BY <1>10
  <2>. QED  BY <1>10, <2>1 DEF Outside, Writing, Reading, Closing
<1>11. CASE k # "mongodb" /\ s = <<"rlock", "runlock", "rlock", "connected?", "runlock">>
  <2>1. Head(s) = "rlock" /\ Tail(s) = <<"runlock", "rlock", "connected?", "runlock">>
    BY <1>11
  <2>. QED  BY <1>11, <2>1 DEF Outside, Writing, Reading, Closing
<1>12. CASE k # "mongodb"
              /\ s = <<"rlock", "runlock", "rlock", "runlock", "rlock", "connected?", "runlock">>
  <2>1. Head(s) = "rlock"
          /\ Tail(s) = <<"runlock", "rlock", "runlock", "rlock", "connected?", "runlock">>
    BY <1>12
  <2>. QED  BY <1>12, <2>1 DEF Outside, Writing, Reading, Closing
<1>13. CASE k # "mongodb"
              /\ s = <<"rlock", "runlock", "rlock", "runlock", "rlock", "runlock", "rlock", "connected?", "runlock">>
  <2>1. Head(s) = "rlock"
          /\ Tail(s) = <<"runlock", "rlock", "runlock", "rlock", "runlock", "rlock", "connected?", "runlock">>
    BY <1>13
  <2>. QED  BY <1>13, <2>1 DEF Outside, Writing, Reading, Closing
<1>. QED  BY <1>1, <1>2, <1>3, <1>4, <1>5, <1>6, <1>7, <1>8, <1>9, <1>10, <1>11, <1>12, <1>13 DEF Outside

LEMMA FromReading ==
  ASSUME NEW k \in {"redis", "mongodb"}, NEW s \in Reading(k)
  PROVE  /\ s # <<>> /\ Head(s) \in {"connected?", "client?", "use", "runlock"}
         /\ Head(s) = "runlock" => Tail(s) \in Outside(k) /\ Tail(s) \notin Closing
         /\ Head(s) # "runlock" => Tail(s) \in Reading(k) /\ Tail(s) \notin Closing
         /\ Head(s) = "use" => s = <<"use", "runlock">>
         /\ Tail(s) = <<"use", "runlock">> => Head(s) = "client?"
<1>1. CASE s = <<"connected?", "client?", "use", "runlock">>
  <2>1. Head(s) = "connected?" /\ Tail(s) = <<"client?", "use", "runlock">>
    BY <1>1
  <2>. QED  BY <1>1, <2>1 DEF Outside, Reading, Closing
<1>2. CASE s = <<"client?", "use", "runlock">>
  <2>1. Head(s) = "client?" /\ Tail(s) = <<"use", "runlock">>
    BY <1>2
  <2>. QED  BY <1>2, <2>1 DEF Outside, Reading, Closing
<1>3. CASE s = <<"use", "runlock">>
  <2>1. Head(s) = "use" /\ Tail(s) = <<"runlock">>
    BY <1>3
  <2>. QED  BY <1>3, <2>1 DEF Outside, Reading, Closing
<1>4. CASE s = <<"runlock">>
  <2>1. Head(s) = "runlock" /\ Tail(s) = <<>>
    BY <1>4
  <2>. QED  BY <1>4, <2>1 DEF Outside, Reading, Closing
<1>5. CASE k # "mongodb" /\ s = <<"connected?", "runlock">>
  <2>1. Head(s) = "connected?" /\ Tail(s) = <<"runlock">>
    BY <1>5
  <2>. QED  BY <1>5, <2>1 DEF Outside, Reading, Closing
<1>6. CASE k # "mongodb" /\ s = <<"runlock", "rlock", "connected?", "runlock">>
  <2>1. Head(s) = "runlock" /\ Tail(s) = <<"rlock", "connected?", "runlock">>
    BY <1>6
  <2>. QED  BY <1>6, <2>1 DEF Outside, Reading, Closing
<1>7. CASE k # "mongodb" /\ s = <<"runlock", "rlock", "runlock", "rlock", "connected?", "runlock">>
  <2>1. Head(s) = "runlock" /\ Tail(s) = <<"rlock", "runlock", "rlock", "connected?", "runlock">>
    BY <1>7
  <2>. QED  BY <1>7, <2>1 DEF Outside, Reading, Closing
<1>8. CASE k # "mongodb"
             /\ s = <<"runlock", "rlock", "runlock", "rlock", "runlock", "rlock", "connected?", "runlock">>
  <2>1. Head(s) = "runlock"
          /\ Tail(s) = <<"rlock", "runlock", "rlock", "runlock", "rlock", "connected?", "runlock">>
    BY <1>8
  <2>. QED  BY <1>8, <2>1 DEF Outside, Reading, Closing
<1>. QED  BY <1>1, <1>2, <1>3, <1>4, <1>5, <1>6, <1>7, <1>8 DEF Reading

LEMMA FromWriting ==
  ASSUME NEW k \in {"redis", "mongodb"}, NEW s \in Writing(k)
  PROVE  /\ s # <<>>
         /\ Head(s) \in {"connected?", "client?", "close", "disconnect", "forget", "unlock", "dial",
                         "store", "connect", "lock"}
         /\ Head(s) = "unlock" => Tail(s) \in Outside(k) /\ Tail(s) \notin Closing
         /\ Head(s) \in {"connected?", "client?", "disconnect", "forget", "store", "connect"} =>
              Tail(s) \in Writing(k) /\ (Tail(s) \in Closing => s \in Closing)
         /\ Head(s) = "close" => s = <<"close">>
         /\ Head(s) = "dial" => k = "mongodb"
         /\ Head(s) = "lock" => k = "redis" /\ s \in Closing
<1>1. CASE s = <<"connected?", "client?", "close">>
  <2>1. Head(s) = "connected?" /\ Tail(s) = <<"client?", "close">>
    BY <1>1
  <2>. QED  BY <1>1, <2>1 DEF Outside, Writing, Closing
<1>2. CASE s = <<"client?", "close">>
  <2>1. Head(s) = "client?" /\ Tail(s) = <<"close">>
    BY <1>2
  <2>. QED  BY <1>2, <2>1 DEF Outside, Writing, Closing
<1>3. CASE s = <<"close">>
  <2>1. Head(s) = "close" /\ Tail(s) = <<>>
    BY <1>3
  <2>. QED  BY <1>3, <2>1 DEF Outside, Writing, Closing
<1>4. CASE s = <<"disconnect", "forget", "unlock">>
  <2>1. Head(s) = "disconnect" /\ Tail(s) = <<"forget", "unlock">>
    BY <1>4
  <2>. QED  BY <1>4, <2>1 DEF Outside, Writing, Closing
<1>5. CASE s = <<"forget", "unlock">>
  <2>1. Head(s) = "forget" /\ Tail(s) = <<"unlock">>
    BY <1>5
  <2>. QED  BY <1>5, <2>1 DEF Outside, Writing, Closing
<1>6. CASE s = <<"unlock">>
  <2>1. Head(s) = "unlock" /\ Tail(s) = <<>>
    BY <1>6
  <2>. QED  BY <1>6, <2>1 DEF Outside, Writing, Closing
<1>7. CASE k = "mongodb" /\ s = <<"dial">>
  <2>1. Head(s) = "dial" /\ Tail(s) = <<>>
    BY <1>7
  <2>. QED  BY <1>7, <2>1 DEF Outside, Writing, Closing
<1>8. CASE k = "mongodb" /\ s = <<"store", "connect", "unlock">>
  <2>1. Head(s) = "store" /\ Tail(s) = <<"connect", "unlock">>
    BY <1>8
  <2>. QED  BY <1>8, <2>1 DEF Outside, Writing, Closing
<1>9. CASE k = "mongodb" /\ s = <<"connect", "unlock">>
  <2>1. Head(s) = "connect" /\ Tail(s) = <<"unlock">>
    BY <1>9
  <2>. QED  BY <1>9, <2>1 DEF Outside, Writing, Closing
<1>10. CASE k # "mongodb" /\ s = <<"connect", "unlock", "lock", "unlock", "lock", "unlock">>
  <2>1. Head(s) = "connect" /\ Tail(s) = <<"unlock", "lock", "unlock", "lock", "unlock">>
    BY <1>10
  <2>. QED  BY <1>10, <2>1 DEF Outside, Writing, Closing
<1>11. CASE k # "mongodb" /\ s = <<"unlock", "lock", "unlock", "lock", "unlock">>
  <2>1. Head(s) = "unlock" /\ Tail(s) = <<"lock", "unlock", "lock", "unlock">>
    BY <1>11
  <2>. QED  BY <1>11, <2>1 DEF Outside, Writing, Closing
<1>12. CASE k # "mongodb" /\ s = <<"unlock", "lock", "unlock">>
  <2>1. Head(s) = "unlock" /\ Tail(s) = <<"lock", "unlock">>
    BY <1>12
  <2>. QED  BY <1>12, <2>1 DEF Outside, Writing, Closing
<1>13. CASE k # "mongodb" /\ s = <<"lock", "unlock", "unlock">>
  <2>1. Head(s) = "lock" /\ Tail(s) = <<"unlock", "unlock">>
    BY <1>13
  <2>. QED  BY <1>13, <2>1 DEF Outside, Writing, Closing
<1>. QED  BY <1>1, <1>2, <1>3, <1>4, <1>5, <1>6, <1>7, <1>8, <1>9, <1>10, <1>11, <1>12, <1>13 DEF Writing

\* In mongo.go an assignment under the lock is followed by the one that goes with it.
LEMMA MongoWrites ==
  ASSUME NEW s \in Writing("mongodb")
  PROVE  /\ Head(s) \in {"connected?", "client?"} =>
              Tail(s) # <<"connect", "unlock">> /\ Tail(s) # <<"forget", "unlock">>
              /\ s # <<"connect", "unlock">> /\ s # <<"forget", "unlock">>
         /\ Head(s) = "store" => Tail(s) = <<"connect", "unlock">>
         /\ Head(s) = "connect" => s = <<"connect", "unlock">> /\ Tail(s) = <<"unlock">>
         /\ Head(s) = "disconnect" => Tail(s) = <<"forget", "unlock">>
         /\ Head(s) = "forget" => s = <<"forget", "unlock">> /\ Tail(s) = <<"unlock">>
         /\ Head(s) = "unlock" => s = <<"unlock">>
         /\ Head(s) = "dial" => s = <<"dial">>
<1>1. CASE s = <<"connected?", "client?", "close">>
  <2>1. Head(s) = "connected?" /\ Tail(s) = <<"client?", "close">>
    BY <1>1
  <2>. QED  BY <1>1, <2>1 DEF Writing
<1>2. CASE s = <<"client?", "close">>
  <2>1. Head(s) = "client?" /\ Tail(s) = <<"close">>
    BY <1>2
  <2>. QED  BY <1>2, <2>1 DEF Writing
<1>3. CASE s = <<"close">>
  <2>1. Head(s) = "close" /\ Tail(s) = <<>>
    BY <1>3
  <2>. QED  BY <1>3, <2>1 DEF Writing
<1>4. CASE s = <<"disconnect", "forget", "unlock">>
  <2>1. Head(s) = "disconnect" /\ Tail(s) = <<"forget", "unlock">>
    BY <1>4
  <2>. QED  BY <1>4, <2>1 DEF Writing
<1>5. CASE s = <<"forget", "unlock">>
  <2>1. Head(s) = "forget" /\ Tail(s) = <<"unlock">>
    BY <1>5
  <2>. QED  BY <1>5, <2>1 DEF Writing
<1>6. CASE s = <<"unlock">>
  <2>1. Head(s) = "unlock" /\ Tail(s) = <<>>
    BY <1>6
  <2>. QED  BY <1>6, <2>1 DEF Writing
<1>7. CASE s = <<"dial">>
  <2>1. Head(s) = "dial" /\ Tail(s) = <<>>
    BY <1>7
  <2>. QED  BY <1>7, <2>1 DEF Writing
<1>8. CASE s = <<"store", "connect", "unlock">>
  <2>1. Head(s) = "store" /\ Tail(s) = <<"connect", "unlock">>
    BY <1>8
  <2>. QED  BY <1>8, <2>1 DEF Writing
<1>9. CASE s = <<"connect", "unlock">>
  <2>1. Head(s) = "connect" /\ Tail(s) = <<"unlock">>
    BY <1>9
  <2>. QED  BY <1>9, <2>1 DEF Writing
<1>. QED  BY <1>1, <1>2, <1>3, <1>4, <1>5, <1>6, <1>7, <1>8, <1>9 DEF Writing

LEMMA DbPrograms ==
  ASSUME dbKind \in {"redis", "mongodb"}
  PROVE  /\ \A call \in DbCalls : /\ Db!Program(call) \in Outside(dbKind)
                                  /\ Db!Program(call) \in Closing => call = "Disconnect"
         /\ Db!DialSucceeds \in (IF dbKind = "mongodb" THEN Writing(dbKind) ELSE Outside(dbKind))
         /\ Db!DialFails \in (IF dbKind = "mongodb" THEN Writing(dbKind) ELSE Outside(dbKind))
         /\ Db!DialSucceeds \notin Closing /\ Db!DialFails \notin Closing
         /\ Db!CloseSucceeds \in Writing(dbKind) /\ Db!CloseSucceeds \notin Closing
         /\ Db!CloseFails \in Writing(dbKind)
         /\ dbKind = "mongodb" =>
              \A s \in {Db!DialSucceeds, Db!DialFails, Db!CloseSucceeds, Db!CloseFails} :
                s # <<"connect", "unlock">> /\ s # <<"forget", "unlock">>
<1>1. CASE dbKind = "mongodb"
  <2>1. \A call \in DbCalls :
          Db!Program(call) \in {<<"lock", "dial">>, <<"lock", "connected?", "client?", "close">>,
                                <<"rlock", "connected?", "client?", "use", "runlock">>,
                                <<"rlock", "runlock">>, <<"lock", "unlock">>}
    BY <1>1, DbBounds
       DEF Db!Program, Db!StatsProgram, Db!CountQuery, Db!Read, Db!Set
  <2>2. \A call \in DbCalls : Db!Program(call) \in Closing => call = "Disconnect"
    BY <1>1, DbBounds
       DEF Db!Program, Db!StatsProgram, Db!CountQuery, Db!Read, Db!Set, Closing
  <2>3. \A call \in DbCalls : Db!Program(call) \in Outside(dbKind)
    BY <1>1, <2>1 DEF Outside
  <2>4. /\ Db!DialSucceeds = <<"store", "connect", "unlock">> /\ Db!DialFails = <<"unlock">>
        /\ Db!CloseSucceeds = <<"disconnect", "forget", "unlock">> /\ Db!CloseFails = <<"unlock">>
    BY <1>1 DEF Db!DialSucceeds, Db!DialFails, Db!CloseSucceeds, Db!CloseFails
  <2>5. /\ Db!DialSucceeds \in Writing(dbKind) /\ Db!DialFails \in Writing(dbKind)
        /\ Db!CloseSucceeds \in Writing(dbKind) /\ Db!CloseFails \in Writing(dbKind)
    BY <1>1, <2>4 DEF Writing
  <2>6. Db!DialSucceeds \notin Closing /\ Db!DialFails \notin Closing
          /\ Db!CloseSucceeds \notin Closing
    BY <2>4 DEF Closing
  <2>7. \A s \in {Db!DialSucceeds, Db!DialFails, Db!CloseSucceeds, Db!CloseFails} :
                s # <<"connect", "unlock">> /\ s # <<"forget", "unlock">>
    BY <2>4
  <2>. QED  BY <1>1, <2>2, <2>3, <2>5, <2>6, <2>7
<1>2. CASE dbKind = "redis"
  <2>1. Db!StatsProgram = <<"rlock", "runlock", "rlock", "runlock", "rlock", "runlock",
                            "rlock", "connected?", "runlock">>
    BY <1>2, TwoReads, ThreeReads, RedisStats DEF Db!StatsProgram, Db!Read, Db!IsConnected
  <2>2. Db!CountQuery = <<>>
    BY <1>2 DEF Db!CountQuery
  <2>3. \A call \in DbCalls :
          \/ Db!Program(call) = <<"dial">>
          \/ Db!Program(call) = <<"lock", "connected?", "client?", "close">> /\ call = "Disconnect"
          \/ Db!Program(call) = <<"rlock", "connected?", "client?", "use", "runlock">>
          \/ Db!Program(call) = Db!StatsProgram
          \/ Db!Program(call) = <<"rlock", "runlock">>
          \/ Db!Program(call) = Db!CountQuery
    <3> SUFFICES ASSUME NEW call \in DbCalls
                 PROVE  \/ Db!Program(call) = <<"dial">>
                        \/ Db!Program(call) = <<"lock", "connected?", "client?", "close">>
                           /\ call = "Disconnect"
                        \/ Db!Program(call) = <<"rlock", "connected?", "client?", "use", "runlock">>
                        \/ Db!Program(call) = Db!StatsProgram
                        \/ Db!Program(call) = <<"rlock", "runlock">>
                        \/ Db!Program(call) = Db!CountQuery
      OBVIOUS
    <3>1. call \in {"Connect", "Disconnect", "HealthCheck", "Stats", "GetClient",
                   "IncrementQueryCount"}
      BY DbBounds
    <3>2. CASE call = "Connect"
      BY <1>2, <3>2 DEF Db!Program
    <3>3. CASE call = "Disconnect"
      BY <1>2, <3>3 DEF Db!Program
    <3>4. CASE call = "HealthCheck"
      BY <1>2, <3>4 DEF Db!Program
    <3>5. CASE call = "Stats"
      BY <1>2, <3>5 DEF Db!Program
    <3>6. CASE call = "GetClient"
      BY <1>2, <3>6 DEF Db!Program, Db!Read
    <3>7. CASE call = "IncrementQueryCount"
      BY <1>2, <3>7 DEF Db!Program
    <3>. QED  BY <3>1, <3>2, <3>3, <3>4, <3>5, <3>6, <3>7
  <2>4. \A call \in DbCalls : /\ Db!Program(call) \in Outside(dbKind)
                              /\ Db!Program(call) \in Closing => call = "Disconnect"
    <3>1. /\ <<"dial">> \in Outside(dbKind) /\ <<"dial">> \notin Closing
          /\ <<"rlock", "runlock">> \in Outside(dbKind) /\ <<"rlock", "runlock">> \notin Closing
      BY <1>2 DEF Outside, Closing
    <3>2. <<"lock", "connected?", "client?", "close">> \in Outside(dbKind)
      BY <1>2 DEF Outside
    <3>3. /\ <<"rlock", "connected?", "client?", "use", "runlock">> \in Outside(dbKind)
          /\ <<"rlock", "connected?", "client?", "use", "runlock">> \notin Closing
      BY <1>2 DEF Outside, Closing
    <3>4. Db!StatsProgram \in Outside(dbKind) /\ Db!StatsProgram \notin Closing
      BY <1>2, <2>1 DEF Outside, Closing
    <3>5. Db!CountQuery \in Outside(dbKind) /\ Db!CountQuery \notin Closing
      BY <1>2, <2>2 DEF Outside, Closing
    <3>. QED  BY <2>3, <3>1, <3>2, <3>3, <3>4, <3>5, Zenon
  <2>5. Db!NoteError = <<"lock", "unlock">>
    BY <1>2, NoMore DEF Db!NoteError, Db!CountError, Db!Set
  <2>6. /\ Db!DialSucceeds
             = <<"store", "lock", "connect", "unlock", "lock", "unlock", "lock", "unlock">>
        /\ Db!DialFails = <<"lock", "unlock">>
        /\ Db!CloseSucceeds = <<"disconnect", "forget", "unlock">>
        /\ Db!CloseFails = <<"lock", "unlock", "unlock">>
    BY <1>2, <2>5, OneSetter, TwoSetters, CloseNotes
       DEF Db!DialSucceeds, Db!DialFails, Db!CloseSucceeds, Db!CloseFails, Db!Set
  <2>7. /\ Db!DialSucceeds \in Outside(dbKind) /\ Db!DialFails \in Outside(dbKind)
        /\ Db!CloseSucceeds \in Writing(dbKind) /\ Db!CloseFails \in Writing(dbKind)
    BY <1>2, <2>6 DEF Outside, Writing
  <2>8. Db!DialSucceeds \notin Closing /\ Db!DialFails \notin Closing
          /\ Db!CloseSucceeds \notin Closing
    BY <2>6 DEF Closing
  <2>. QED  BY <1>2, <2>4, <2>7, <2>8
<1>. QED  BY <1>1, <1>2

-----------------------------------------------------------------------------
Writes(c) == inside /\ announced = c
UseIt == <<"use", "runlock">>
CallAt(c) == \/ Writes(c) /\ readers[c] = 0 /\ steps[c] \in Writing(dbKind)
             \/ ~Writes(c) /\ readers[c] = 1 /\ steps[c] \in Reading(dbKind)
             \/ ~Writes(c) /\ readers[c] = 0 /\ steps[c] \in Outside(dbKind)
CallerOK(c) == /\ CallAt(c)
               /\ steps[c] \in Closing => dbCall[c] = "Disconnect"
               /\ steps[c] = UseIt => hasClient

\* How the client and connected of mongo.go go together at a point of the writer.
GoTogether(s) == /\ s = <<"connect", "unlock">> => hasClient
                 /\ s = <<"forget", "unlock">> => ~connected
                 /\ s # <<"connect", "unlock">> /\ s # <<"forget", "unlock">> =>
                      (connected <=> hasClient)
Agreed == IF inside THEN GoTogether(steps[announced]) ELSE connected <=> hasClient

DbTypes == /\ DOMAIN steps = DbCallers /\ DOMAIN readers = DbCallers /\ DOMAIN dbCall = DbCallers
           /\ dbKind \in DbKinds /\ hasClient \in BOOLEAN /\ connected \in BOOLEAN
           /\ inside \in BOOLEAN
DbSafe == /\ \A c \in DbCallers : CallerOK(c)
          /\ inside => announced \in DbCallers /\ \A c \in DbCallers : readers[c] = 0
          /\ dbPanic = {}
          /\ dbKind = "mongodb" => Agreed
DbInv == DbTypes /\ (dbKind # "mysql" => DbSafe)

LEMMA TheKinds == ASSUME DbInv, dbKind # "mysql" PROVE dbKind \in {"redis", "mongodb"}
BY DbBounds DEF DbInv, DbTypes

LEMMA DbUse == DbInv => Db!MongoIsSafe
<1> SUFFICES ASSUME DbInv PROVE Db!MongoIsSafe
  OBVIOUS
<1>1. ASSUME NEW c \in DbCallers, Db!WaitsForItself(c), dbKind # "mysql"
      PROVE  dbKind = "redis" /\ dbCall[c] = "Disconnect"
  <2>1. CallerOK(c) /\ dbKind \in {"redis", "mongodb"}
    BY <1>1, TheKinds DEF DbInv, DbSafe
  <2>2. CASE Db!At(c, "lock") /\ announced = c /\ inside
    <3>1. steps[c] \in Writing(dbKind) /\ Head(steps[c]) = "lock"
      BY <2>1, <2>2 DEF CallerOK, CallAt, Writes, Db!At
    <3>2. dbKind = "redis" /\ steps[c] \in Closing
      BY <2>1, <3>1, FromWriting
    <3>. QED  BY <2>1, <3>2 DEF CallerOK
  <2>3. CASE Db!At(c, "rlock") /\ readers[c] > 0
    <3>1. steps[c] \in Reading(dbKind) /\ Head(steps[c]) = "rlock"
      BY <2>1, <2>3 DEF CallerOK, CallAt, Db!At
    <3>. QED  BY <2>1, <3>1, FromReading
  <2>. QED  BY <1>1, <2>2, <2>3 DEF Db!WaitsForItself
<1>2. dbKind # "mysql" => dbPanic = {}
  BY DEF DbInv, DbSafe
<1>3. dbKind = "mongodb" => (~inside => (connected <=> hasClient))
  BY DEF DbInv, DbSafe, Agreed
<1>. QED  BY <1>1, <1>2, <1>3 DEF Db!MongoIsSafe

LEMMA DbInitially == Db!DbInit => DbInv
<1> SUFFICES ASSUME Db!DbInit PROVE DbInv
  OBVIOUS
<1>1. DbTypes /\ ~inside /\ dbPanic = {} /\ (connected <=> hasClient)
  BY DEF Db!DbInit, DbTypes
<1>2. ASSUME NEW c \in DbCallers PROVE CallerOK(c)
  <2>1. steps[c] = <<>> /\ readers[c] = 0
    BY DEF Db!DbInit
  <2>2. <<>> \in Outside(dbKind) /\ <<>> \notin Closing /\ <<>> # UseIt
    BY DEF Outside, Closing, UseIt
  <2>. QED  BY <1>1, <2>1, <2>2 DEF CallerOK, CallAt, Writes
<1>. QED  BY <1>1, <1>2 DEF DbInv, DbSafe, Agreed

\* One caller moves: what has to be looked at.
LEMMA OneMoves ==
  ASSUME DbInv, dbKind # "mysql", NEW c \in DbCallers, dbKind' = dbKind, DbTypes',
         \A d \in DbCallers \ {c} :
           /\ steps'[d] = steps[d] /\ readers'[d] = readers[d] /\ dbCall'[d] = dbCall[d]
           /\ Writes(d)' <=> Writes(d),
         CallerOK(c)',
         (hasClient => hasClient') \/ \A d \in DbCallers : readers[d] = 0,
         inside' => announced' \in DbCallers /\ \A d \in DbCallers : readers'[d] = 0,
         dbPanic' = {},
         dbKind = "mongodb" => Agreed'
  PROVE  DbInv'
<1>1. ASSUME NEW d \in DbCallers PROVE CallerOK(d)'
  <2>1. CASE d = c
    BY <2>1
  <2>2. CASE d # c
    <3>1. /\ steps'[d] = steps[d] /\ readers'[d] = readers[d] /\ dbCall'[d] = dbCall[d]
          /\ Writes(d)' <=> Writes(d)
      BY <2>2
    <3>2. CallerOK(d) /\ dbKind \in {"redis", "mongodb"}
      BY TheKinds DEF DbInv, DbSafe
    <3>3. CallAt(d)' /\ (steps'[d] \in Closing => dbCall'[d] = "Disconnect")
      BY <3>1, <3>2 DEF CallerOK, CallAt
    <3>4. ASSUME steps'[d] = UseIt PROVE hasClient'
      <4>1. hasClient
        BY <3>1, <3>2, <3>4 DEF CallerOK
      <4>2. readers[d] # 0
        <5>1. UseIt \notin Writing(dbKind) /\ UseIt \notin Outside(dbKind)
          BY <3>2 DEF UseIt, Writing, Outside
        <5>. QED  BY <3>1, <3>2, <3>4, <5>1 DEF CallerOK, CallAt
      <4>. QED  BY <4>1, <4>2
    <3>. QED  BY <3>3, <3>4 DEF CallerOK
  <2>. QED  BY <2>1, <2>2
<1>. QED  BY <1>1 DEF DbInv, DbSafe

LEMMA DbTyped ==
  ASSUME DbTypes, NEW c \in DbCallers, Db!Step(c)
  PROVE  DbTypes' /\ dbKind' = dbKind
<1>1. CASE Db!Call(c)
  BY <1>1 DEF DbTypes, Db!Call, Db!GoesOn, Db!lockVars
<1>2. CASE Db!Announce(c) \/ Db!Enter(c) \/ Db!Unlock(c)
  BY <1>2 DEF DbTypes, Db!Announce, Db!Enter, Db!Unlock, Db!Goes, Db!Same
<1>3. CASE Db!RLock(c) \/ Db!RUnlock(c)
  BY <1>3 DEF DbTypes, Db!RLock, Db!RUnlock, Db!Goes, Db!Same
<1>4. CASE Db!Looks(c) \/ Db!Assigns(c)
  BY <1>4 DEF DbTypes, Db!Looks, Db!Assigns, Db!Goes, Db!GoesOn, Db!Same, Db!lockVars
<1>5. CASE Db!Uses(c) \/ Db!Dial(c) \/ Db!CloseClient(c)
  BY <1>5 DEF DbTypes, Db!Uses, Db!Dial, Db!CloseClient, Db!Goes, Db!GoesOn, Db!lockVars
<1>. QED  BY <1>1, <1>2, <1>3, <1>4, <1>5 DEF Db!Step

LEMMA DbCalled ==
  ASSUME DbInv, dbKind # "mysql", NEW c \in DbCallers, Db!Call(c)
  PROVE  DbInv'
<1>1. DbTypes /\ DbTypes' /\ dbKind' = dbKind /\ CallerOK(c) /\ DbSafe
  BY DbTyped DEF DbInv, DbSafe, Db!Step
<1>2. PICK call \in DbCalls : /\ dbCall' = [dbCall EXCEPT ![c] = call]
                              /\ steps' = [steps EXCEPT ![c] = Db!Program(call)]
  BY DEF Db!Call, Db!GoesOn
<1>3. UNCHANGED <<readers, announced, inside, hasClient, connected, dbPanic>> /\ steps[c] = <<>>
  BY DEF Db!Call, Db!lockVars
<1>4. dbKind \in {"redis", "mongodb"}
  BY TheKinds
<1>5. ~Writes(c) /\ readers[c] = 0
  <2>1. <<>> \notin Writing(dbKind) /\ <<>> \notin Reading(dbKind)
    BY <1>4, FromWriting, FromReading
  <2>. QED  BY <1>1, <1>3, <2>1 DEF CallerOK, CallAt
<1>6. steps'[c] = Db!Program(call) /\ dbCall'[c] = call
  BY <1>1, <1>2 DEF DbTypes
<1>7. CallerOK(c)'
  <2>1. Db!Program(call) \in Outside(dbKind)
          /\ (Db!Program(call) \in Closing => call = "Disconnect")
    BY <1>4, DbPrograms
  <2>2. UseIt \notin Outside(dbKind)
    BY <1>4 DEF UseIt, Outside
  <2>. QED  BY <1>1, <1>3, <1>5, <1>6, <2>1, <2>2 DEF CallerOK, CallAt, Writes
<1>8. \A d \in DbCallers \ {c} : steps'[d] = steps[d] /\ dbCall'[d] = dbCall[d]
  BY <1>1, <1>2 DEF DbTypes
<1>9. dbKind = "mongodb" => Agreed'
  <2>1. inside => announced # c
    BY <1>5 DEF Writes
  <2>2. inside => steps'[announced] = steps[announced]
    BY <1>1, <1>8, <2>1 DEF DbSafe
  <2>. QED  BY <1>1, <1>3, <2>2 DEF DbSafe, Agreed, GoTogether
<1>10. inside' => announced' \in DbCallers /\ \A d \in DbCallers : readers'[d] = 0
  BY <1>1, <1>3 DEF DbSafe
<1>. QED  BY <1>1, <1>3, <1>7, <1>8, <1>9, <1>10, OneMoves DEF DbSafe, Writes

\* What may be left of a call, by what it holds.
LeftFor(c, s) == /\ IF Writes(c) THEN s \in Writing(dbKind)
                    ELSE IF readers[c] = 1 THEN s \in Reading(dbKind) ELSE s \in Outside(dbKind)
                 /\ s \in Closing => dbCall[c] = "Disconnect"

\* A step of a caller that leaves the method it is in, and the mutex, alone.
LEMMA DbGoesOn ==
  ASSUME DbInv, dbKind # "mysql", NEW c \in DbCallers, Db!Step(c),
         NEW s, steps' = [steps EXCEPT ![c] = s],
         UNCHANGED <<readers, announced, inside, dbCall, dbPanic>>,
         LeftFor(c, s),
         s = UseIt => hasClient',
         Writes(c) \/ (hasClient => hasClient'),
         dbKind = "mongodb" /\ Writes(c) => GoTogether(s)',
         dbKind = "mongodb" /\ ~Writes(c) => UNCHANGED <<hasClient, connected>>
  PROVE  DbInv'
<1>1. DbTypes /\ DbTypes' /\ dbKind' = dbKind /\ CallerOK(c) /\ DbSafe
  BY DbTyped DEF DbInv, DbSafe
<1>2. steps'[c] = s /\ \A d \in DbCallers \ {c} : steps'[d] = steps[d]
  BY <1>1 DEF DbTypes
<1>3. \A d \in DbCallers : (Writes(d)' <=> Writes(d))
  BY DEF Writes
<1>4. CallerOK(c)'
  BY <1>1, <1>2, <1>3 DEF CallerOK, CallAt, LeftFor
<1>5. Writes(c) => \A d \in DbCallers : readers[d] = 0
  BY <1>1 DEF Writes, DbSafe
<1>6. dbKind = "mongodb" => Agreed'
  <2>1. CASE Writes(c)
    BY <1>2, <2>1 DEF Writes, Agreed
  <2>2. CASE ~Writes(c) /\ inside
    <3>1. announced \in DbCallers \ {c}
      BY <1>1, <2>2 DEF DbSafe, Writes
    <3>2. steps'[announced] = steps[announced]
      BY <1>2, <3>1
    <3>. QED  BY <1>1, <2>2, <3>2 DEF DbSafe, Agreed, GoTogether
  <2>3. CASE ~Writes(c) /\ ~inside
    BY <1>1, <2>3 DEF DbSafe, Agreed
  <2>. QED  BY <2>1, <2>2, <2>3
<1>7. inside' => announced' \in DbCallers /\ \A d \in DbCallers : readers'[d] = 0
  BY <1>1 DEF DbSafe
<1>8. dbPanic' = {}
  BY <1>1 DEF DbSafe
<1>. QED  BY <1>1, <1>2, <1>3, <1>4, <1>5, <1>6, <1>7, <1>8, OneMoves

\* What the caller and its callers' lock are when a command is next.
LEMMA DbStands ==
  ASSUME DbInv, dbKind # "mysql", NEW c \in DbCallers
  PROVE  /\ DbTypes /\ dbKind \in {"redis", "mongodb"} /\ DbSafe /\ CallerOK(c) /\ CallAt(c)
         /\ "none" \notin DbCallers
BY TheKinds, DbBounds DEF DbInv, DbSafe, CallerOK

LEMMA DbAnnounced ==
  ASSUME DbInv, dbKind # "mysql", NEW c \in DbCallers, Db!Announce(c)
  PROVE  DbInv'
<1>1. DbTypes' /\ dbKind' = dbKind
  BY DbStands, DbTyped DEF Db!Step
<1>2. /\ UNCHANGED <<steps, readers, inside, hasClient, connected, dbCall, dbPanic>>
      /\ announced = "none" /\ announced' = c
  BY DEF Db!Announce, Db!Same, Db!None
<1>3. ~inside
  BY <1>2, DbStands DEF DbSafe
<1>4. \A d \in DbCallers : (Writes(d)' <=> Writes(d))
  BY <1>2, <1>3 DEF Writes
<1>5. CallerOK(c)'
  BY <1>1, <1>2, <1>4, DbStands DEF CallerOK, CallAt
<1>6. (dbKind = "mongodb" => Agreed') /\ dbPanic' = {}
  BY <1>2, <1>3, DbStands DEF DbSafe, Agreed
<1>. QED  BY <1>1, <1>2, <1>3, <1>4, <1>5, <1>6, OneMoves

LEMMA DbEntered ==
  ASSUME DbInv, dbKind # "mysql", NEW c \in DbCallers, Db!Enter(c)
  PROVE  DbInv'
<1>1. DbTypes' /\ dbKind' = dbKind
  BY DbStands, DbTyped DEF Db!Step
<1>2. /\ UNCHANGED <<readers, announced, hasClient, connected, dbCall, dbPanic>>
      /\ announced = c /\ ~inside /\ inside' /\ \A d \in DbCallers : readers[d] = 0
      /\ steps[c] # <<>> /\ Head(steps[c]) = "lock"
  BY DEF Db!Enter, Db!Same, Db!At
<1>3. steps'[c] = Tail(steps[c]) /\ \A d \in DbCallers \ {c} : steps'[d] = steps[d]
  BY DbStands DEF Db!Enter, Db!Goes, DbTypes
<1>4. Writes(c)' /\ \A d \in DbCallers \ {c} : (Writes(d)' <=> Writes(d))
  BY <1>2 DEF Writes
<1>5. steps[c] \in Outside(dbKind)
  BY <1>2, DbStands DEF CallAt, Writes
<1>6. /\ Tail(steps[c]) \in Writing(dbKind) /\ (Tail(steps[c]) \in Closing => steps[c] \in Closing)
      /\ Tail(steps[c]) # <<"connect", "unlock">> /\ Tail(steps[c]) # <<"forget", "unlock">>
  BY <1>2, <1>5, DbStands, FromOutside
<1>7. UseIt \notin Writing(dbKind)
  BY DbStands DEF UseIt, Writing
<1>8. CallerOK(c)'
  BY <1>1, <1>2, <1>3, <1>4, <1>6, <1>7, DbStands DEF CallerOK, CallAt
<1>9. (dbKind = "mongodb" => Agreed') /\ dbPanic' = {}
  BY <1>2, <1>3, <1>6, DbStands DEF DbSafe, Agreed, GoTogether
<1>. QED  BY <1>1, <1>2, <1>3, <1>4, <1>8, <1>9, OneMoves

LEMMA DbUnlocked ==
  ASSUME DbInv, dbKind # "mysql", NEW c \in DbCallers, Db!Unlock(c)
  PROVE  DbInv'
<1>1. DbTypes' /\ dbKind' = dbKind
  BY DbStands, DbTyped DEF Db!Step
<1>2. /\ UNCHANGED <<readers, hasClient, connected, dbCall, dbPanic>> /\ ~inside'
      /\ steps[c] # <<>> /\ Head(steps[c]) = "unlock"
  BY DEF Db!Unlock, Db!Same, Db!At
<1>3. steps'[c] = Tail(steps[c]) /\ \A d \in DbCallers \ {c} : steps'[d] = steps[d]
  BY DbStands DEF Db!Unlock, Db!Goes, DbTypes
<1>4. Writes(c) /\ readers[c] = 0 /\ steps[c] \in Writing(dbKind)
  BY <1>2, DbStands, FromOutside, FromReading DEF CallAt
<1>5. \A d \in DbCallers \ {c} : (Writes(d)' <=> Writes(d))
  BY <1>2, <1>4 DEF Writes
<1>6. Tail(steps[c]) \in Outside(dbKind) /\ Tail(steps[c]) \notin Closing
  BY <1>2, <1>4, DbStands, FromWriting
<1>7. UseIt \notin Outside(dbKind)
  BY DbStands DEF UseIt, Outside
<1>8. CallerOK(c)'
  BY <1>1, <1>2, <1>3, <1>4, <1>6, <1>7, DbStands DEF CallerOK, CallAt, Writes
<1>9. dbKind = "mongodb" => Agreed'
  <2>1. ASSUME dbKind = "mongodb" PROVE steps[announced] = <<"unlock">> /\ inside
    BY <1>2, <1>4, <2>1, MongoWrites DEF Writes
  <2>2. <<"unlock">> # <<"connect", "unlock">> /\ <<"unlock">> # <<"forget", "unlock">>
    OBVIOUS
  <2>. QED  BY <1>2, <2>1, <2>2, DbStands DEF DbSafe, Agreed, GoTogether
<1>10. dbPanic' = {}
  BY <1>2, DbStands DEF DbSafe
<1>. QED  BY <1>1, <1>2, <1>3, <1>5, <1>8, <1>9, <1>10, OneMoves

LEMMA DbReads ==
  ASSUME DbInv, dbKind # "mysql", NEW c \in DbCallers, Db!RLock(c)
  PROVE  DbInv'
<1>1. DbTypes' /\ dbKind' = dbKind
  BY DbStands, DbTyped DEF Db!Step
<1>2. /\ UNCHANGED <<announced, inside, hasClient, connected, dbCall, dbPanic>>
      /\ announced = "none" /\ steps[c] # <<>> /\ Head(steps[c]) = "rlock"
  BY DEF Db!RLock, Db!Same, Db!At, Db!None
<1>3. /\ steps'[c] = Tail(steps[c]) /\ readers'[c] = readers[c] + 1
      /\ \A d \in DbCallers \ {c} : steps'[d] = steps[d] /\ readers'[d] = readers[d]
  BY DbStands DEF Db!RLock, Db!Goes, DbTypes
<1>4. ~inside
  BY <1>2, DbStands DEF DbSafe
<1>5. readers[c] = 0 /\ steps[c] \in Outside(dbKind)
  BY <1>2, <1>4, DbStands, FromReading DEF CallAt, Writes
<1>6. /\ Tail(steps[c]) \in Reading(dbKind) /\ Tail(steps[c]) \notin Closing
      /\ Tail(steps[c]) # <<"use", "runlock">>
  BY <1>2, <1>5, DbStands, FromOutside
<1>7. CallerOK(c)'
  BY <1>1, <1>2, <1>3, <1>4, <1>5, <1>6, DbStands DEF CallerOK, CallAt, Writes, UseIt
<1>8. (dbKind = "mongodb" => Agreed') /\ dbPanic' = {}
  BY <1>2, <1>4, DbStands DEF DbSafe, Agreed
<1>9. \A d \in DbCallers \ {c} : (Writes(d)' <=> Writes(d))
  BY <1>2 DEF Writes
<1>. QED  BY <1>1, <1>2, <1>3, <1>4, <1>7, <1>8, <1>9, DbStands, OneMoves

LEMMA DbHasRead ==
  ASSUME DbInv, dbKind # "mysql", NEW c \in DbCallers, Db!RUnlock(c)
  PROVE  DbInv'
<1>1. DbTypes' /\ dbKind' = dbKind
  BY DbStands, DbTyped DEF Db!Step
<1>2. /\ UNCHANGED <<announced, inside, hasClient, connected, dbCall, dbPanic>>
      /\ steps[c] # <<>> /\ Head(steps[c]) = "runlock"
  BY DEF Db!RUnlock, Db!Same, Db!At
<1>3. /\ steps'[c] = Tail(steps[c]) /\ readers'[c] = readers[c] - 1
      /\ \A d \in DbCallers \ {c} : steps'[d] = steps[d] /\ readers'[d] = readers[d]
  BY DbStands DEF Db!RUnlock, Db!Goes, DbTypes
<1>4. ~Writes(c) /\ readers[c] = 1 /\ steps[c] \in Reading(dbKind)
  BY <1>2, DbStands, FromOutside, FromWriting DEF CallAt
<1>5. ~inside
  BY <1>4, DbStands DEF DbSafe
<1>6. Tail(steps[c]) \in Outside(dbKind) /\ Tail(steps[c]) \notin Closing
  BY <1>2, <1>4, DbStands, FromReading
<1>7. UseIt \notin Outside(dbKind)
  BY DbStands DEF UseIt, Outside
<1>8. CallerOK(c)'
  <2>1. readers'[c] = 0
    BY <1>3, <1>4
  <2>2. ~Writes(c)' /\ steps'[c] \in Outside(dbKind)'
    BY <1>1, <1>2, <1>3, <1>5, <1>6 DEF Writes
  <2>3. CallAt(c)'
    BY <2>1, <2>2 DEF CallAt
  <2>. QED  BY <1>3, <1>6, <1>7, <2>3 DEF CallerOK
<1>9. (dbKind = "mongodb" => Agreed') /\ dbPanic' = {}
  BY <1>2, <1>5, DbStands DEF DbSafe, Agreed
<1>10. \A d \in DbCallers \ {c} : (Writes(d)' <=> Writes(d))
  BY <1>2 DEF Writes
<1>. QED  BY <1>1, <1>2, <1>3, <1>5, <1>8, <1>9, <1>10, DbStands, OneMoves

\* The defers of a call that returns early.
LEMMA DbEarly ==
  ASSUME DbInv, dbKind # "mysql", NEW c \in DbCallers, Writes(c) \/ readers[c] = 1
  PROVE  /\ IF Writes(c) THEN Db!Unlocks(c) = <<"unlock">> ELSE Db!Unlocks(c) = <<"runlock">>
         /\ <<"unlock">> \in Writing(dbKind) /\ <<"runlock">> \in Reading(dbKind)
         /\ <<"unlock">> \notin Closing /\ <<"runlock">> \notin Closing
         /\ <<"unlock">> # UseIt /\ <<"runlock">> # UseIt
         /\ <<"unlock">> # <<"connect", "unlock">> /\ <<"unlock">> # <<"forget", "unlock">>
<1>1. Writes(c) => Db!Unlocks(c) = <<"unlock">>
  BY DEF Writes, Db!Unlocks
<1>2. ~Writes(c) => Db!Unlocks(c) = <<"runlock">>
  <2>1. [i \in 1..1 |-> "runlock"] = <<"runlock">>
    OBVIOUS
  <2>. QED  BY <2>1 DEF Writes, Db!Unlocks
<1>3. /\ <<"unlock">> \in Writing(dbKind) /\ <<"runlock">> \in Reading(dbKind)
      /\ <<"unlock">> \notin Closing /\ <<"runlock">> \notin Closing
  BY DbStands DEF Writing, Reading, Closing
<1>4. /\ <<"unlock">> # UseIt /\ <<"runlock">> # UseIt
      /\ <<"unlock">> # <<"connect", "unlock">> /\ <<"unlock">> # <<"forget", "unlock">>
  BY DEF UseIt
<1>. QED  BY <1>1, <1>2, <1>3, <1>4

LEMMA DbLooked ==
  ASSUME DbInv, dbKind # "mysql", NEW c \in DbCallers, Db!Looks(c)
  PROVE  DbInv'
<1>1. /\ UNCHANGED <<readers, announced, inside, hasClient, connected, dbCall, dbPanic>>
      /\ steps[c] # <<>> /\ Head(steps[c]) \in {"connected?", "client?"}
  BY DEF Db!Looks, Db!Same, Db!At, Db!lockVars
<1>2. \/ steps' = [steps EXCEPT ![c] = Tail(steps[c])] /\ (Head(steps[c]) = "client?" => hasClient)
      \/ steps' = [steps EXCEPT ![c] = Db!Unlocks(c)]
  BY DEF Db!Looks, Db!At, Db!Goes, Db!GoesOn
<1>3. \/ Writes(c) /\ steps[c] \in Writing(dbKind)
      \/ ~Writes(c) /\ readers[c] = 1 /\ steps[c] \in Reading(dbKind)
  BY <1>1, DbStands, FromOutside DEF CallAt
<1>4. dbKind = "mongodb" /\ Writes(c) =>
        GoTogether(steps[c]) /\ steps[c] # <<"connect", "unlock">>
          /\ steps[c] # <<"forget", "unlock">>
        /\ Tail(steps[c]) # <<"connect", "unlock">> /\ Tail(steps[c]) # <<"forget", "unlock">>
  <2>1. dbKind = "mongodb" /\ Writes(c) => GoTogether(steps[c]) /\ steps[c] \in Writing("mongodb")
    BY <1>3, DbStands DEF DbSafe, Agreed, Writes
  <2>. QED  BY <1>1, <2>1, MongoWrites
<1>5. Db!Step(c)
  BY DEF Db!Step
<1>6. CASE steps' = [steps EXCEPT ![c] = Tail(steps[c])]
             /\ (Head(steps[c]) = "client?" => hasClient)
  <2>1. PICK s : s = Tail(steps[c])
    OBVIOUS
  <2>2. IF Writes(c) THEN s \in Writing(dbKind) /\ (s \in Closing => steps[c] \in Closing)
        ELSE readers[c] = 1 /\ s \in Reading(dbKind) /\ s \notin Closing
    <3>1. CASE Writes(c)
      BY <1>1, <1>3, <2>1, <3>1, DbStands, FromWriting
    <3>2. CASE ~Writes(c)
      BY <1>1, <1>3, <2>1, <3>2, DbStands, FromReading
    <3>. QED  BY <3>1, <3>2
  <2>3. s = UseIt => hasClient'
    <3>1. CASE Writes(c)
      <4>1. UseIt \notin Writing(dbKind)
        BY DbStands DEF UseIt, Writing
      <4>. QED  BY <2>2, <3>1, <4>1
    <3>2. CASE ~Writes(c)
      BY <1>1, <1>3, <1>6, <2>1, <3>2, DbStands, FromReading DEF UseIt
    <3>. QED  BY <3>1, <3>2
  <2>4. LeftFor(c, s)
    BY <2>2, DbStands DEF CallerOK, LeftFor
  <2>5. dbKind = "mongodb" /\ Writes(c) => GoTogether(s)'
    BY <1>1, <1>4, <2>1 DEF GoTogether
  <2>6. steps' = [steps EXCEPT ![c] = s]
    BY <1>6, <2>1
  <2>. QED  BY <1>1, <1>5, <2>3, <2>4, <2>5, <2>6, DbGoesOn
<1>7. CASE steps' = [steps EXCEPT ![c] = Db!Unlocks(c)]
  <2>1. Writes(c) \/ readers[c] = 1
    BY <1>3
  <2>2. PICK s : s = Db!Unlocks(c)
    OBVIOUS
  <2>3. /\ IF Writes(c) THEN s \in Writing(dbKind) ELSE readers[c] = 1 /\ s \in Reading(dbKind)
        /\ s \notin Closing /\ s # UseIt
        /\ Writes(c) => s # <<"connect", "unlock">> /\ s # <<"forget", "unlock">>
    BY <1>3, <2>1, <2>2, DbEarly
  <2>4. LeftFor(c, s)
    BY <2>3 DEF LeftFor
  <2>5. dbKind = "mongodb" /\ Writes(c) => GoTogether(s)'
    BY <1>1, <1>4, <2>3 DEF GoTogether
  <2>6. steps' = [steps EXCEPT ![c] = s]
    BY <1>7, <2>2
  <2>. QED  BY <1>1, <1>5, <2>3, <2>4, <2>5, <2>6, DbGoesOn
<1>. QED  BY <1>2, <1>6, <1>7

LEMMA DbUsed ==
  ASSUME DbInv, dbKind # "mysql", NEW c \in DbCallers, Db!Uses(c)
  PROVE  DbInv'
<1>1. /\ UNCHANGED <<readers, announced, inside, hasClient, connected, dbCall>>
      /\ steps[c] # <<>> /\ Head(steps[c]) = "use"
  BY DEF Db!Uses, Db!At, Db!lockVars
<1>2. ~Writes(c) /\ readers[c] = 1 /\ steps[c] \in Reading(dbKind)
  BY <1>1, DbStands, FromOutside, FromWriting DEF CallAt
<1>3. hasClient /\ Tail(steps[c]) \in Reading(dbKind) /\ Tail(steps[c]) \notin Closing
      /\ Tail(steps[c]) # UseIt
  <2>1. steps[c] = UseIt
    BY <1>1, <1>2, DbStands, FromReading DEF UseIt
  <2>. QED  BY <1>1, <1>2, <2>1, DbStands, FromReading DEF CallerOK, UseIt
<1>4. steps' = [steps EXCEPT ![c] = Tail(steps[c])] /\ dbPanic' = dbPanic
  BY <1>3 DEF Db!Uses, Db!Goes
<1>5. Db!Step(c)
  BY DEF Db!Step
<1>6. PICK s : s = Tail(steps[c])
  OBVIOUS
<1>7. LeftFor(c, s) /\ s # UseIt /\ steps' = [steps EXCEPT ![c] = s]
  BY <1>2, <1>3, <1>4, <1>6 DEF LeftFor
<1>. QED  BY <1>1, <1>2, <1>4, <1>5, <1>7, DbGoesOn

LEMMA DbDialed ==
  ASSUME DbInv, dbKind # "mysql", NEW c \in DbCallers, Db!Dial(c)
  PROVE  DbInv'
<1>1. /\ UNCHANGED <<readers, announced, inside, hasClient, connected, dbCall, dbPanic>>
      /\ steps[c] # <<>> /\ Head(steps[c]) = "dial"
  BY DEF Db!Dial, Db!At, Db!lockVars
<1>2. PICK s \in {Db!DialSucceeds, Db!DialFails} : steps' = [steps EXCEPT ![c] = s]
  BY DEF Db!Dial, Db!GoesOn
<1>3. \/ dbKind = "mongodb" /\ Writes(c) /\ steps[c] \in Writing("mongodb")
      \/ dbKind # "mongodb" /\ ~Writes(c) /\ readers[c] = 0
  BY <1>1, DbStands, FromOutside, FromReading, FromWriting DEF CallAt
<1>4. /\ s \in (IF dbKind = "mongodb" THEN Writing(dbKind) ELSE Outside(dbKind)) /\ s \notin Closing
      /\ dbKind = "mongodb" => s # <<"connect", "unlock">> /\ s # <<"forget", "unlock">>
  BY <1>2, DbStands, DbPrograms
<1>5. s # UseIt
  BY <1>4, DbStands DEF UseIt, Writing, Outside
<1>6. dbKind = "mongodb" => GoTogether(s)'
  <2>1. dbKind = "mongodb" => GoTogether(steps[c]) /\ steps[c] = <<"dial">>
    BY <1>1, <1>3, DbStands, MongoWrites DEF DbSafe, Agreed, Writes
  <2>2. <<"dial">> # <<"connect", "unlock">> /\ <<"dial">> # <<"forget", "unlock">>
    OBVIOUS
  <2>. QED  BY <1>1, <1>4, <2>1, <2>2 DEF GoTogether
<1>7. Db!Step(c)
  BY DEF Db!Step
<1>8. LeftFor(c, s)
  BY <1>3, <1>4, DbStands DEF LeftFor
<1>. QED  BY <1>1, <1>2, <1>5, <1>6, <1>7, <1>8, DbGoesOn

LEMMA DbClosed ==
  ASSUME DbInv, dbKind # "mysql", NEW c \in DbCallers, Db!CloseClient(c)
  PROVE  DbInv'
<1>1. /\ UNCHANGED <<readers, announced, inside, hasClient, connected, dbCall, dbPanic>>
      /\ steps[c] # <<>> /\ Head(steps[c]) = "close"
  BY DEF Db!CloseClient, Db!At, Db!lockVars
<1>2. PICK s \in {Db!CloseSucceeds, Db!CloseFails} : steps' = [steps EXCEPT ![c] = s]
  BY DEF Db!CloseClient, Db!GoesOn
<1>3. Writes(c) /\ steps[c] \in Writing(dbKind) /\ steps[c] = <<"close">>
  BY <1>1, DbStands, FromOutside, FromReading, FromWriting DEF CallAt
<1>4. /\ s \in Writing(dbKind)
      /\ dbKind = "mongodb" => s # <<"connect", "unlock">> /\ s # <<"forget", "unlock">>
  BY <1>2, DbStands, DbPrograms
<1>5. s # UseIt
  BY <1>4, DbStands DEF UseIt, Writing
<1>6. dbKind = "mongodb" => GoTogether(s)'
  <2>1. dbKind = "mongodb" => GoTogether(steps[c])
    BY <1>3, DbStands DEF DbSafe, Agreed, Writes
  <2>2. <<"close">> # <<"connect", "unlock">> /\ <<"close">> # <<"forget", "unlock">>
    OBVIOUS
  <2>. QED  BY <1>1, <1>3, <1>4, <2>1, <2>2 DEF GoTogether
<1>7. dbCall[c] = "Disconnect"
  <2>1. <<"close">> \in Closing
    BY DEF Closing
  <2>. QED  BY <1>3, <2>1, DbStands DEF CallerOK
<1>8. Db!Step(c)
  BY DEF Db!Step
<1>9. LeftFor(c, s)
  BY <1>3, <1>4, <1>7 DEF LeftFor
<1>. QED  BY <1>1, <1>2, <1>3, <1>5, <1>6, <1>8, <1>9, DbGoesOn

LEMMA DbAssigned ==
  ASSUME DbInv, dbKind # "mysql", NEW c \in DbCallers, Db!Assigns(c)
  PROVE  DbInv'
<1>1. /\ UNCHANGED <<readers, announced, inside, dbCall, dbPanic>> /\ steps[c] # <<>>
      /\ \/ Head(steps[c]) = "store" /\ hasClient' = TRUE /\ connected' = connected
         \/ Head(steps[c]) = "forget" /\ hasClient' = FALSE /\ connected' = connected
         \/ Head(steps[c]) = "connect" /\ connected' = TRUE /\ hasClient' = hasClient
         \/ Head(steps[c]) = "disconnect" /\ connected' = FALSE /\ hasClient' = hasClient
  BY DEF Db!Assigns, Db!At, Db!lockVars, Db!Same
<1>2. PICK s : s = Tail(steps[c])
  OBVIOUS
<1>3. \/ Writes(c) /\ steps[c] \in Writing(dbKind)
      \/ dbKind # "mongodb" /\ ~Writes(c) /\ readers[c] = 0 /\ steps[c] \in Outside(dbKind)
         /\ Head(steps[c]) = "store"
  BY <1>1, DbStands, FromOutside, FromReading DEF CallAt
<1>4. IF Writes(c) THEN s \in Writing(dbKind) /\ (s \in Closing => steps[c] \in Closing)
      ELSE s \in Outside(dbKind) /\ s \notin Closing
  <2>1. CASE Writes(c)
    BY <1>1, <1>2, <1>3, <2>1, DbStands, FromWriting
  <2>2. CASE ~Writes(c)
    BY <1>1, <1>2, <1>3, <2>2, DbStands, FromOutside
  <2>. QED  BY <2>1, <2>2
<1>5. s # UseIt
  <2>1. UseIt \notin Writing(dbKind) /\ UseIt \notin Outside(dbKind)
    BY DbStands DEF UseIt, Writing, Outside
  <2>. QED  BY <1>4, <2>1
<1>6. ASSUME dbKind = "mongodb" PROVE Writes(c) /\ GoTogether(s)'
  <2>1. Writes(c) /\ steps[c] \in Writing("mongodb") /\ GoTogether(steps[c])
    BY <1>3, <1>6, DbStands DEF DbSafe, Agreed, Writes
  <2>2. /\ Head(steps[c]) = "store" => s = <<"connect", "unlock">>
        /\ Head(steps[c]) = "connect" => steps[c] = <<"connect", "unlock">> /\ s = <<"unlock">>
        /\ Head(steps[c]) = "disconnect" => s = <<"forget", "unlock">>
        /\ Head(steps[c]) = "forget" => steps[c] = <<"forget", "unlock">> /\ s = <<"unlock">>
    BY <1>2, <2>1, MongoWrites
  <2>3. /\ <<"unlock">> # <<"connect", "unlock">> /\ <<"unlock">> # <<"forget", "unlock">>
        /\ <<"connect", "unlock">> # <<"forget", "unlock">>
    OBVIOUS
  <2>4. hasClient \in BOOLEAN /\ connected \in BOOLEAN
    BY DbStands DEF DbTypes
  <2>5. CASE Head(steps[c]) = "store" /\ hasClient' = TRUE /\ connected' = connected
    <3>1. s = <<"connect", "unlock">> /\ s # <<"forget", "unlock">>
      BY <2>2, <2>3, <2>5
    <3>2. hasClient'
      BY <2>5
    <3>. QED  BY <2>1, <3>1, <3>2 DEF GoTogether
  <2>6. CASE Head(steps[c]) = "forget" /\ hasClient' = FALSE /\ connected' = connected
    BY <2>1, <2>2, <2>3, <2>4, <2>6 DEF GoTogether
  <2>7. CASE Head(steps[c]) = "connect" /\ connected' = TRUE /\ hasClient' = hasClient
    BY <2>1, <2>2, <2>3, <2>4, <2>7 DEF GoTogether
  <2>8. CASE Head(steps[c]) = "disconnect" /\ connected' = FALSE /\ hasClient' = hasClient
    <3>1. s = <<"forget", "unlock">> /\ s # <<"connect", "unlock">>
      BY <2>2, <2>3, <2>8
    <3>2. ~connected'
      BY <2>8
    <3>. QED  BY <2>1, <3>1, <3>2 DEF GoTogether
  <2>. QED  BY <1>1, <2>1, <2>5, <2>6, <2>7, <2>8
<1>7. steps' = [steps EXCEPT ![c] = s] /\ Db!Step(c)
  BY <1>2 DEF Db!Assigns, Db!Goes, Db!Step
<1>8. LeftFor(c, s)
  BY <1>3, <1>4, DbStands DEF CallerOK, LeftFor
<1>9. Writes(c) \/ (hasClient => hasClient')
  BY <1>1, <1>3
<1>. QED  BY <1>1, <1>5, <1>6, <1>7, <1>8, <1>9, DbGoesOn

LEMMA DbStep == DbInv /\ [Db!Next]_dbPart => DbInv'
<1> SUFFICES ASSUME DbInv, [Db!Next]_dbPart PROVE DbInv'
  OBVIOUS
<1>1. CASE UNCHANGED dbPart
  BY <1>1 DEF dbPart, DbInv, DbTypes, DbSafe, CallerOK, CallAt, Writes, Agreed, GoTogether
<1>2. ASSUME NEW c \in DbCallers, Db!Step(c) PROVE DbInv'
  <2>1. CASE dbKind = "mysql"
    <3>1. DbTypes' /\ dbKind' = dbKind
      BY <1>2, DbTyped DEF DbInv
    <3>. QED  BY <2>1, <3>1 DEF DbInv
  <2>2. CASE dbKind # "mysql"
    BY <1>2, <2>2, DbCalled, DbAnnounced, DbEntered, DbUnlocked, DbReads, DbHasRead, DbLooked,
       DbUsed, DbDialed, DbClosed, DbAssigned DEF Db!Step
  <2>. QED  BY <2>1, <2>2
<1>. QED  BY <1>1, <1>2 DEF Db!Next

-----------------------------------------------------------------------------
(* Rate limits.                                                            *)

LimitSteps == {"idle", "zrem", "zcard", "zadd", "expire", "incr", "expireCounter", "decide"}
Stamps == {stamp[h] : h \in Handlers}

\* The time that WindowHolds counts in, up to t.
Span(t) == {s \in Nat : t - Window + MaxDelay < s /\ s <= t}

\* A request that has counted itself through, and still has its entry.
Passing(h) == /\ step[h] \in {"zadd", "expire", "decide"} /\ count[h] < Limit
              /\ step[h] = "expire" => stamp[h] \in Limits!LiveSet
Through(s) == s \notin lapsed /\ (s \in allowed \/ \E h \in Handlers : Passing(h) /\ stamp[h] = s)
\* Its commands are done and it was not lost: the set has it for a window.
Settled(s) ==
  s \notin lapsed /\ (s \in allowed \/ \E h \in Handlers : step[h] = "decide" /\ stamp[h] = s)
\* The key expired under it.
Lost(s) == s \in lapsed \/ \E h \in Handlers : /\ step[h] = "expire"
  /\ stamp[h] \notin Limits!LiveSet
                                               /\ stamp[h] = s
Throughs(t) == {s \in Span(t) : Through(s)}
Losses(t) == {s \in Span(t) : Lost(s)}

\* The request counted in a fixed window.
Counting(h) == step[h] \in {"expireCounter", "decide"} /\ count[h] <= Limit
InWindow(w) == {s \in Nat : Limits!Truncated(s) = w}
Counted(s) == s \notin lapsed /\ (s \in allowed \/ \E h \in Handlers : Counting(h) /\ stamp[h] = s)
CountedIn(w) == {s \in InWindow(w) : Counted(s)}
LapsedIn(w) == {s \in InWindow(w) : s \in lapsed}
Incrs(w) == {h \in Handlers : step[h] = "incr" /\ Limits!Truncated(stamp[h]) = w}

LimitShapes ==
  /\ window \in {"sliding", "fixed"} /\ clock \in Nat /\ clock <= MaxClock
  /\ step \in [Handlers -> LimitSteps] /\ stamp \in [Handlers -> Nat] /\ count \in [Handlers -> Nat]
  /\ zset \in SUBSET Nat /\ IsFiniteSet(zset) /\ zsetUntil \in Nat
  /\ counter \in [Limits!Windows -> Nat] /\ counterUntil \in [Limits!Windows -> Nat]
  /\ allowed \in SUBSET Nat /\ IsFiniteSet(allowed) /\ lapsed \in SUBSET Nat /\ IsFiniteSet(lapsed)
TimeInv ==
  /\ \A h \in Handlers : /\ stamp[h] <= clock
                         /\ step[h] \notin {"idle", "decide"} => clock <= stamp[h] + MaxDelay
  /\ \A s \in allowed \cup lapsed : s <= clock
  /\ \A g, h \in Handlers : g # h /\ stamp[g] = stamp[h] => step[g] = "idle" /\ step[h] = "idle"
\* What settled is in the set until its window is over, and the key lives as long; a key that
\* has expired under a request lives on for its window when it is set again.
EntriesInv ==
  /\ \A s \in Nat : Settled(s) => /\ zsetUntil >= s + Window
                                  /\ clock < s + Window => s \in zset
  /\ \A s \in Nat : Lost(s) => zsetUntil <= clock \/ zsetUntil >= s + Window
SpanInv == \A t \in Nat : Cardinality(Throughs(t)) <= Limit + Cardinality(Handlers) - 1
LossInv == \A t \in Nat : Cardinality(Losses(t)) <= Cardinality(Handlers)
SlidingInv ==
  /\ \A h \in Handlers : step[h] \notin {"incr", "expireCounter"}
  /\ EntriesInv /\ SpanInv /\ LossInv
\* The counter of a window counts whom it lets through, until the window is over.
CounterInv(w) ==
  /\ counterUntil[w] >= (w + 1) * Window
  /\ Cardinality(CountedIn(w)) <= Limit
  /\ Limits!Truncated(clock) <= w => /\ Cardinality(CountedIn(w)) <= counter[w]
                                     /\ LapsedIn(w) = {}
  /\ Cardinality(LapsedIn(w)) + Cardinality(Incrs(w)) <= Cardinality(Handlers)
FixedInv ==
  /\ \A h \in Handlers : step[h] \in {"idle", "incr", "expireCounter", "decide"}
  /\ \A w \in Limits!Windows : CounterInv(w)
LimitInv == /\ LimitShapes /\ TimeInv
            /\ window = "sliding" => SlidingInv
            /\ window = "fixed" => FixedInv

-----------------------------------------------------------------------------
LEMMA LimitCardinality == \A S : Limits!Cardinality(S) = Cardinality(S)
BY DEF Limits!Cardinality, Cardinality

LEMMA HandlersCount == Cardinality(Handlers) \in Nat /\ Cardinality(Handlers) > 0
BY RateBounds, FS_CardinalityType, FS_EmptySet

LEMMA StampsFinite ==
  ASSUME LimitShapes
  PROVE  /\ IsFiniteSet(Stamps) /\ Stamps \subseteq Nat
         /\ Cardinality(Stamps) \in Nat /\ Cardinality(Stamps) <= Cardinality(Handlers)
<1>1. IsFiniteSet(Handlers) /\ stamp \in Surjection(Handlers, Stamps)
  BY RateBounds DEF Surjection, Stamps, LimitShapes
<1>2. IsFiniteSet(Stamps) /\ Cardinality(Stamps) <= Cardinality(Handlers)
  BY <1>1, FS_Surjection
<1>. QED  BY <1>2, FS_CardinalityType DEF Stamps, LimitShapes

LEMMA SetsFinite ==
  ASSUME LimitShapes
  PROVE  /\ \A t : IsFiniteSet(Throughs(t)) /\ Cardinality(Throughs(t)) \in Nat
         /\ \A t : IsFiniteSet(Losses(t)) /\ Cardinality(Losses(t)) \in Nat
         /\ \A w : IsFiniteSet(CountedIn(w)) /\ Cardinality(CountedIn(w)) \in Nat
         /\ \A w : IsFiniteSet(LapsedIn(w)) /\ Cardinality(LapsedIn(w)) \in Nat
         /\ \A w : IsFiniteSet(Incrs(w)) /\ Cardinality(Incrs(w)) \in Nat
<1>1. IsFiniteSet(allowed \cup Stamps) /\ IsFiniteSet(lapsed \cup Stamps) /\ IsFiniteSet(lapsed)
  BY StampsFinite, FS_Union DEF LimitShapes
<1>2. \A t : Throughs(t) \subseteq allowed \cup Stamps
  BY DEF Throughs, Through, Stamps
<1>3. \A t : Losses(t) \subseteq lapsed \cup Stamps
  BY DEF Losses, Lost, Stamps
<1>4. \A w : CountedIn(w) \subseteq allowed \cup Stamps
  BY DEF CountedIn, Counted, Stamps
<1>5. \A w : LapsedIn(w) \subseteq lapsed /\ Incrs(w) \subseteq Handlers
  BY DEF LapsedIn, Incrs
<1>. QED  BY <1>1, <1>2, <1>3, <1>4, <1>5, RateBounds, FS_Subset, FS_CardinalityType

LEMMA OneMoreStamp ==
  ASSUME NEW S, S \in SUBSET Nat, IsFiniteSet(S), NEW n \in Nat, NEW T, T = S \/ T = S \cup {n}
  PROVE  T \in SUBSET Nat /\ IsFiniteSet(T)
<1>1. IsFiniteSet(S \cup {n}) /\ S \cup {n} \in SUBSET Nat
  BY FS_AddElement
<1>. QED  BY <1>1

\* The numbers of the windows.
LEMMA Multiples ==
  /\ \A q, s \in Nat : q * s \in Nat /\ (q + 1) * s = q * s + s
  /\ \A p, q, s \in Nat : p <= q => p * s <= q * s
OBVIOUS

LEMMA WindowOf ==
  ASSUME NEW n \in Nat
  PROVE  /\ Limits!Truncated(n) \in Nat
         /\ Limits!Truncated(n) * Window <= n /\ n < (Limits!Truncated(n) + 1) * Window
<1> DEFINE q == n \div Window
<1>1. q \in Nat /\ Window * q <= n /\ n < Window * q + Window
  BY RateBounds
<1> HIDE DEF q
<1>2. Window * q = q * Window /\ (q + 1) * Window = q * Window + Window
  BY <1>1, RateBounds, Multiples
<1>. QED  BY <1>1, <1>2 DEF q, Limits!Truncated

LEMMA WindowsInOrder ==
  ASSUME NEW m \in Nat, NEW n \in Nat, m <= n
  PROVE  Limits!Truncated(m) <= Limits!Truncated(n)
<1> DEFINE p == Limits!Truncated(m)
           q == Limits!Truncated(n)
<1>1. p \in Nat /\ q \in Nat /\ p * Window <= m /\ n < (q + 1) * Window
  BY WindowOf
<1> HIDE DEF p, q
<1>2. SUFFICES ASSUME q + 1 <= p PROVE FALSE
  BY <1>1 DEF p, q
<1>3. (q + 1) * Window <= p * Window /\ (q + 1) * Window \in Nat /\ p * Window \in Nat
  BY <1>1, <1>2, RateBounds, Multiples
<1>. QED  BY <1>1, <1>3

LEMMA NeverExpires ==
  ASSUME NEW n \in Nat, n <= MaxClock
  PROVE  /\ Limits!Never \in Nat /\ n + Window < Limits!Never /\ n < Limits!Never
         /\ Limits!Truncated(n) \in Limits!Windows
         /\ (Limits!Truncated(n) + 1) * Window <= n + Window
         /\ (Limits!Truncated(n) + 1) * Window <= Limits!Never
<1>1. Limits!Truncated(n) \in Limits!Windows
  BY WindowsInOrder, WindowOf, RateBounds DEF Limits!Windows
<1>2. (Limits!Truncated(n) + 1) * Window = Limits!Truncated(n) * Window + Window
  BY WindowOf, RateBounds, Multiples
<1>. QED  BY <1>1, <1>2, WindowOf, RateBounds, Multiples DEF Limits!Never

-----------------------------------------------------------------------------
LEMMA LimitInitially == Limits!Init => LimitInv
<1> SUFFICES ASSUME Limits!Init PROVE LimitInv
  OBVIOUS
<1>1. LimitShapes
  BY NeverExpires, RateBounds, FS_EmptySet DEF Limits!Init, LimitShapes, LimitSteps
<1>2. TimeInv
  BY <1>1 DEF Limits!Init, TimeInv, LimitShapes
<1>3. /\ \A s : ~Through(s) /\ ~Settled(s) /\ ~Lost(s) /\ ~Counted(s)
      /\ \A w : LapsedIn(w) = {} /\ Incrs(w) = {}
  BY DEF Limits!Init, Through, Settled, Lost, Counted, LapsedIn, Incrs, Passing, Counting
<1>4. Cardinality({}) = 0
  BY FS_EmptySet
<1>5. SlidingInv \/ window # "sliding"
  <2>1. \A t : Throughs(t) = {} /\ Losses(t) = {}
    BY <1>3 DEF Throughs, Losses
  <2>2. SpanInv /\ LossInv
    <3>1. \A t : Cardinality(Throughs(t)) = 0 /\ Cardinality(Losses(t)) = 0
      BY <1>4, <2>1
    <3>2. 0 <= Limit + Cardinality(Handlers) - 1 /\ 0 <= Cardinality(Handlers)
      BY RateBounds, HandlersCount
    <3>. QED  BY <3>1, <3>2 DEF SpanInv, LossInv
  <2>3. EntriesInv
    BY <1>3 DEF EntriesInv
  <2>4. \A h \in Handlers : step[h] \notin {"incr", "expireCounter"}
    BY DEF Limits!Init
  <2>. QED  BY <2>2, <2>3, <2>4 DEF SlidingInv
<1>6. FixedInv
  <2>1. \A w : CountedIn(w) = {}
    BY <1>3 DEF CountedIn
  <2>2. ASSUME NEW w \in Limits!Windows PROVE CounterInv(w)
    <3>1. counterUntil[w] >= (w + 1) * Window /\ counter[w] = 0
      <4>1. w \in Nat /\ w <= Limits!Truncated(MaxClock)
        BY <2>2, WindowOf, RateBounds DEF Limits!Windows
      <4>2. (w + 1) * Window <= (Limits!Truncated(MaxClock) + 1) * Window
        <5> DEFINE q == Limits!Truncated(MaxClock)
        <5>1. q \in Nat /\ w \in Nat /\ w <= q /\ Window \in Nat
          BY <4>1, WindowOf, RateBounds
        <5> HIDE DEF q
        <5>2. w + 1 \in Nat /\ q + 1 \in Nat /\ w + 1 <= q + 1
          BY <5>1
        <5>3. (w + 1) * Window <= (q + 1) * Window
          BY <5>1, <5>2, Multiples
        <5>. QED  BY <5>3 DEF q
      <4>3. (Limits!Truncated(MaxClock) + 1) * Window <= Limits!Never
        BY NeverExpires, RateBounds
      <4>4. (w + 1) * Window \in Nat /\ (Limits!Truncated(MaxClock) + 1) * Window \in Nat
        BY <4>1, WindowOf, RateBounds, Multiples
      <4>5. counterUntil[w] = Limits!Never /\ counter[w] = 0 /\ Limits!Never \in Nat
        BY NeverExpires, RateBounds DEF Limits!Init
      <4>. QED  BY <4>2, <4>3, <4>4, <4>5
    <3>. QED  BY <1>3, <1>4, <2>1, <3>1, RateBounds, HandlersCount DEF CounterInv
  <2>3. \A h \in Handlers : step[h] \in {"idle", "incr", "expireCounter", "decide"}
    BY DEF Limits!Init
  <2>. QED  BY <2>2, <2>3 DEF FixedInv
<1>. QED  BY <1>1, <1>2, <1>5, <1>6 DEF LimitInv

-----------------------------------------------------------------------------
(* The state's shape and the times of the requests.                        *)

LEMMA LiveFinite ==
  ASSUME LimitShapes
  PROVE  /\ Limits!LiveSet \in SUBSET Nat /\ IsFiniteSet(Limits!LiveSet)
         /\ Cardinality(Limits!LiveSet) \in Nat
BY FS_EmptySet, FS_CardinalityType DEF LimitShapes, Limits!LiveSet

LEMMA ZSetShapes ==
  ASSUME LimitShapes, NEW h \in Handlers, Limits!Sliding(h)
  PROVE  LimitShapes'
<1>1. UNCHANGED <<window, clock, stamp, counter, counterUntil, allowed>>
  BY DEF Limits!Sliding, Limits!counters
<1>2. step' \in [Handlers -> LimitSteps] /\ count' \in [Handlers -> Nat]
  BY LiveFinite, LimitCardinality
     DEF LimitShapes, LimitSteps, Limits!Sliding, Limits!To, Limits!ZRemRangeByScore, Limits!ZCard,
         Limits!ZAdd, Limits!Expire
<1>3. zset' \in SUBSET Nat /\ IsFiniteSet(zset')
  <2>1. \A S : S \subseteq Limits!LiveSet => S \in SUBSET Nat /\ IsFiniteSet(S)
    BY LiveFinite, FS_Subset
  <2>2. stamp[h] \in Nat /\ IsFiniteSet(Limits!LiveSet \cup {stamp[h]})
    BY LiveFinite, FS_AddElement DEF LimitShapes
  <2>3. \/ zset' \subseteq Limits!LiveSet \/ zset' = Limits!LiveSet \cup {stamp[h]} \/ zset' = zset
    BY DEF Limits!Sliding, Limits!ZRemRangeByScore, Limits!ZCard, Limits!ZAdd, Limits!Expire,
           Limits!Stored, Limits!sorted
  <2>. QED  BY <2>1, <2>2, <2>3, LiveFinite DEF LimitShapes
<1>4. zsetUntil' \in Nat
  <2>1. zsetUntil' \in {zsetUntil, Limits!Never, clock + Window}
    BY DEF Limits!Sliding, Limits!ZRemRangeByScore, Limits!ZCard, Limits!ZAdd, Limits!Expire,
           Limits!Stored, Limits!sorted
  <2>. QED  BY <2>1, NeverExpires, RateBounds DEF LimitShapes
<1>5. lapsed' \in SUBSET Nat /\ IsFiniteSet(lapsed')
  <2>1. lapsed' = lapsed \/ lapsed' = lapsed \cup {stamp[h]}
    BY DEF Limits!Sliding, Limits!ZRemRangeByScore, Limits!ZCard, Limits!ZAdd, Limits!Expire
  <2>2. lapsed \in SUBSET Nat /\ IsFiniteSet(lapsed) /\ stamp[h] \in Nat
    BY DEF LimitShapes
  <2>. QED  BY <2>1, <2>2, OneMoreStamp
<1>. QED  BY <1>1, <1>2, <1>3, <1>4, <1>5 DEF LimitShapes, Limits!Windows, Limits!Truncated

LEMMA CounterShapes ==
  ASSUME LimitShapes, TimeInv, NEW h \in Handlers, Limits!Fixed(h)
  PROVE  LimitShapes'
<1>1. UNCHANGED <<window, clock, stamp, zset, zsetUntil, allowed>>
  BY DEF Limits!Fixed, Limits!sorted
<1>2. stamp[h] \in Nat /\ stamp[h] <= MaxClock
  BY RateBounds DEF LimitShapes, TimeInv
<1> DEFINE w == Limits!Truncated(stamp[h])
<1>3. w \in Limits!Windows /\ Limits!Never \in Nat
  BY <1>2, NeverExpires
<1>4. Limits!LiveCounter(w) \in Nat
  BY <1>3 DEF Limits!LiveCounter, LimitShapes
<1> HIDE DEF w
<1>5. CASE Limits!Incr(h)
  <2>1. /\ count' = [count EXCEPT ![h] = Limits!LiveCounter(w) + 1]
        /\ counter' = [counter EXCEPT ![w] = Limits!LiveCounter(w) + 1]
        /\ counterUntil' = [counterUntil EXCEPT ![w] = IF clock < @ THEN @ ELSE Limits!Never]
        /\ step' = [step EXCEPT ![h] = "expireCounter"] \/ step' = [step EXCEPT ![h] = "decide"]
        /\ lapsed' = lapsed \/ lapsed' = lapsed \cup {stamp[h]}
    BY <1>5 DEF Limits!Incr, Limits!To, w
  <2>2. lapsed' \in SUBSET Nat /\ IsFiniteSet(lapsed')
    <3>1. lapsed \in SUBSET Nat /\ IsFiniteSet(lapsed)
      BY DEF LimitShapes
    <3>. QED  BY <1>2, <2>1, <3>1, OneMoreStamp
  <2>3. counter' \in [Limits!Windows -> Nat] /\ counterUntil' \in [Limits!Windows -> Nat]
    BY <1>3, <1>4, <2>1 DEF LimitShapes
  <2>4. count' \in [Handlers -> Nat] /\ step' \in [Handlers -> LimitSteps]
    BY <1>4, <2>1 DEF LimitShapes, LimitSteps
  <2>. QED  BY <1>1, <2>2, <2>3, <2>4 DEF LimitShapes, Limits!Windows, Limits!Truncated
<1>6. CASE Limits!ExpireCounter(h)
  <2>1. /\ counterUntil' = [counterUntil EXCEPT ![w] = clock + Window]
             \/ counterUntil' = counterUntil
        /\ step' = [step EXCEPT ![h] = "decide"]
        /\ UNCHANGED <<counter, count, lapsed>>
    BY <1>6 DEF Limits!ExpireCounter, Limits!To, w
  <2>2. counterUntil' \in [Limits!Windows -> Nat]
    BY <1>3, <2>1, RateBounds DEF LimitShapes
  <2>3. step' \in [Handlers -> LimitSteps]
    BY <2>1 DEF LimitShapes, LimitSteps
  <2>. QED  BY <1>1, <2>1, <2>2, <2>3 DEF LimitShapes, Limits!Windows, Limits!Truncated
<1>. QED  BY <1>5, <1>6 DEF Limits!Fixed

LEMMA ShapesKeep == LimitShapes /\ TimeInv /\ [Limits!Next]_limitPart => LimitShapes'
<1> SUFFICES ASSUME LimitShapes, TimeInv, [Limits!Next]_limitPart PROVE LimitShapes'
  OBVIOUS
<1> USE DEF Limits!Windows, Limits!Truncated
<1>1. CASE UNCHANGED limitPart
  BY <1>1 DEF limitPart, LimitShapes
<1>2. CASE Limits!ClockTicks
  BY <1>2, RateBounds DEF Limits!ClockTicks, Limits!sorted, Limits!counters, LimitShapes
<1>3. CASE Limits!GetRateLimitStatus
  <2>1. zset' \subseteq Limits!LiveSet /\ zsetUntil' \in {zsetUntil, Limits!Never}
    BY <1>3 DEF Limits!GetRateLimitStatus, Limits!Stored
  <2>2. zset' \in SUBSET Nat /\ IsFiniteSet(zset') /\ zsetUntil' \in Nat
    BY <2>1, LiveFinite, FS_Subset, NeverExpires, RateBounds DEF LimitShapes
  <2>. QED  BY <1>3, <2>2 DEF Limits!GetRateLimitStatus, Limits!counters, LimitShapes
<1>4. ASSUME NEW h \in Handlers, Limits!Arrives(h) PROVE LimitShapes'
  BY <1>4 DEF Limits!Arrives, Limits!sorted, Limits!counters, LimitShapes, LimitSteps
<1>5. ASSUME NEW h \in Handlers, Limits!Decide(h) PROVE LimitShapes'
  <2>1. allowed' = allowed \/ allowed' = allowed \cup {stamp[h]}
    BY <1>5 DEF Limits!Decide
  <2>2. /\ allowed \in SUBSET Nat /\ IsFiniteSet(allowed) /\ stamp[h] \in Nat
    BY DEF LimitShapes
  <2>3. allowed' \in SUBSET Nat /\ IsFiniteSet(allowed')
    BY <2>1, <2>2, OneMoreStamp
  <2>. QED  BY <1>5, <2>3 DEF Limits!Decide, Limits!To, Limits!sorted, Limits!counters, LimitShapes,
                              LimitSteps
<1>6. ASSUME NEW h \in Handlers, Limits!RedisFails(h) PROVE LimitShapes'
  BY <1>6 DEF Limits!RedisFails, Limits!To, Limits!sorted, Limits!counters, LimitShapes, LimitSteps
<1>. QED  BY <1>1, <1>2, <1>3, <1>4, <1>5, <1>6, ZSetShapes, CounterShapes DEF Limits!Next

LEMMA TimesKeep == LimitShapes /\ TimeInv /\ [Limits!Next]_limitPart => TimeInv' /\ window' = window
<1> SUFFICES ASSUME LimitShapes, TimeInv, [Limits!Next]_limitPart PROVE TimeInv' /\ window' = window
  OBVIOUS
<1>1. CASE UNCHANGED limitPart
  BY <1>1 DEF limitPart, TimeInv
<1>2. CASE Limits!ClockTicks
  BY <1>2, RateBounds DEF Limits!ClockTicks, LimitShapes, TimeInv
<1>3. CASE Limits!GetRateLimitStatus
  BY <1>3 DEF Limits!GetRateLimitStatus, TimeInv
<1>4. ASSUME NEW h \in Handlers, Limits!Arrives(h) PROVE TimeInv' /\ window' = window
  <2>1. /\ stamp' = [stamp EXCEPT ![h] = clock] /\ \A g \in Handlers : stamp[g] # clock
        /\ step[h] = "idle" /\ UNCHANGED <<window, clock, allowed, lapsed>>
        /\ step' = [step EXCEPT ![h] = "zrem"] \/ step' = [step EXCEPT ![h] = "incr"]
    BY <1>4 DEF Limits!Arrives
  <2>. QED  BY <2>1, RateBounds DEF LimitShapes, TimeInv
<1>5. ASSUME NEW h \in Handlers, NEW next \in LimitSteps,
             step' = [step EXCEPT ![h] = next], step[h] \notin {"idle", "decide"} \/ next = "idle",
             UNCHANGED <<window, clock, stamp>>,
             allowed' \subseteq allowed \cup {stamp[h]}, lapsed' \subseteq lapsed \cup {stamp[h]}
      PROVE  TimeInv' /\ window' = window
  <2>1. \A s \in allowed' \cup lapsed' : s <= clock
    BY <1>5 DEF TimeInv
  <2>2. \A g \in Handlers : step'[g] \notin {"idle", "decide"} => clock <= stamp[g] + MaxDelay
    BY <1>5 DEF TimeInv, LimitShapes
  <2>3. step[h] # "idle" \/ next = "idle"
    BY <1>5
  <2>4. \A g, k \in Handlers : g # k /\ stamp[g] = stamp[k] => step'[g] = "idle"
          /\ step'[k] = "idle"
    BY <1>5, <2>3 DEF TimeInv, LimitShapes
  <2>. QED  BY <1>5, <2>1, <2>2, <2>4 DEF TimeInv
<1>6. ASSUME NEW h \in Handlers, Limits!Sliding(h) PROVE TimeInv' /\ window' = window
  BY <1>5, <1>6
     DEF LimitSteps, Limits!Sliding, Limits!To, Limits!ZRemRangeByScore, Limits!ZCard, Limits!ZAdd,
         Limits!Expire
<1>7. ASSUME NEW h \in Handlers, Limits!Fixed(h) PROVE TimeInv' /\ window' = window
  <2>1. /\ step' = [step EXCEPT ![h] = "expireCounter"] \/ step' = [step EXCEPT ![h] = "decide"]
        /\ step[h] \notin {"idle", "decide"} /\ UNCHANGED <<window, clock, stamp, allowed>>
        /\ lapsed' \subseteq lapsed \cup {stamp[h]}
    BY <1>7 DEF Limits!Fixed, Limits!To, Limits!Incr, Limits!ExpireCounter
  <2>. QED  BY <1>5, <2>1 DEF LimitSteps
<1>8. ASSUME NEW h \in Handlers, Limits!Decide(h) \/ Limits!RedisFails(h)
      PROVE  TimeInv' /\ window' = window
  <2>1. /\ step' = [step EXCEPT ![h] = "idle"] /\ UNCHANGED <<window, clock, stamp, lapsed>>
        /\ allowed' \subseteq allowed \cup {stamp[h]}
    BY <1>8 DEF Limits!Decide, Limits!RedisFails, Limits!To
  <2>. QED  BY <1>5, <2>1 DEF LimitSteps
<1>. QED  BY <1>1, <1>2, <1>3, <1>4, <1>6, <1>7, <1>8 DEF Limits!Next

-----------------------------------------------------------------------------
(* The sliding window.                                                     *)

LEMMA SpanKept ==
  ASSUME LimitShapes, SpanInv, \A s \in Nat : Through(s)' => Through(s)
  PROVE  SpanInv'
<1> SUFFICES ASSUME NEW t \in Nat
             PROVE  Cardinality(Throughs(t)') <= Limit + Cardinality(Handlers) - 1
  BY DEF SpanInv
<1>1. Throughs(t)' \subseteq Throughs(t)
  BY DEF Throughs, Span
<1>2. /\ Cardinality(Throughs(t)') \in Nat /\ Cardinality(Throughs(t)) \in Nat
      /\ Cardinality(Throughs(t)') <= Cardinality(Throughs(t))
  BY <1>1, SetsFinite, FS_Subset, FS_CardinalityType
<1>3. Cardinality(Throughs(t)) <= Limit + Cardinality(Handlers) - 1
  BY DEF SpanInv
<1>. QED  BY <1>2, <1>3, RateBounds, HandlersCount

LEMMA LossKept ==
  ASSUME LimitShapes, LossInv, \A s \in Nat : Lost(s)' => Lost(s)
  PROVE  LossInv'
<1> SUFFICES ASSUME NEW t \in Nat PROVE Cardinality(Losses(t)') <= Cardinality(Handlers)
  BY DEF LossInv
<1>1. Losses(t)' \subseteq Losses(t)
  BY DEF Losses, Span
<1>2. /\ Cardinality(Losses(t)') \in Nat /\ Cardinality(Losses(t)) \in Nat
      /\ Cardinality(Losses(t)') <= Cardinality(Losses(t))
  BY <1>1, SetsFinite, FS_Subset, FS_CardinalityType
<1>3. Cardinality(Losses(t)) <= Cardinality(Handlers)
  BY DEF LossInv
<1>. QED  BY <1>2, <1>3, HandlersCount

LEMMA SlidingKept ==
  ASSUME LimitShapes, SlidingInv, EntriesInv',
         \A h \in Handlers : step'[h] \notin {"incr", "expireCounter"},
         \A s \in Nat : (Through(s)' => Through(s)) /\ (Lost(s)' => Lost(s))
  PROVE  SlidingInv'
BY SpanKept, LossKept DEF SlidingInv

\* While the set is left alone.
LEMMA EntriesKept ==
  ASSUME EntriesInv, UNCHANGED <<clock, zset, zsetUntil>>,
         \A s \in Nat : (Settled(s)' => Settled(s)) /\ (Lost(s)' => Lost(s))
  PROVE  EntriesInv'
BY DEF EntriesInv

LEMMA TheyHaveBeen ==
  ASSUME LimitShapes, TimeInv
  PROVE  /\ \A s \in Nat : Settled(s) \/ Lost(s) => s <= clock /\ s + Window < Limits!Never
         /\ \A s \in Nat : s <= clock => s + Window < Limits!Never
         /\ clock < Limits!Never /\ Limits!Never \in Nat
<1>1. \A s \in Nat : s <= clock => s + Window < Limits!Never
  BY NeverExpires, RateBounds DEF LimitShapes
<1>2. \A s \in Nat : Settled(s) \/ Lost(s) => s <= clock
  BY DEF Settled, Lost, TimeInv
<1>. QED  BY <1>1, <1>2, NeverExpires, RateBounds DEF LimitShapes

\* A settled request is in the live set while its window lasts.
LEMMA SettledLives ==
  ASSUME LimitShapes, EntriesInv, NEW s \in Nat, Settled(s), clock < s + Window
  PROVE  s \in Limits!LiveSet
<1>1. s \in zset /\ zsetUntil >= s + Window /\ clock \in Nat /\ zsetUntil \in Nat
  BY DEF EntriesInv, LimitShapes
<1>2. clock < zsetUntil
  BY <1>1, RateBounds
<1>. QED  BY <1>1, <1>2 DEF Limits!LiveSet

\* A command that leaves the set S behind.
LEMMA StoredLive ==
  ASSUME LimitShapes, TimeInv, NEW S, Limits!Stored(S), clock' = clock
  PROVE  /\ zset' = S /\ Limits!LiveSet' = S
         /\ zsetUntil' = Limits!Never \/ (zsetUntil' = zsetUntil /\ clock < zsetUntil)
<1>1. zset' = S /\ (zsetUntil' = Limits!Never \/ (zsetUntil' = zsetUntil /\ clock < zsetUntil))
  BY DEF Limits!Stored, Limits!LiveSet
<1>2. clock < zsetUntil'
  BY <1>1, TheyHaveBeen
<1>3. Limits!LiveSet' = IF clock' < zsetUntil' THEN zset' ELSE {}
  BY DEF Limits!LiveSet
<1>. QED  BY <1>1, <1>2, <1>3

LEMMA TrimKeeps ==
  ASSUME LimitShapes, TimeInv, SlidingInv, NEW n \in Nat, n <= clock,
         Limits!Stored({s \in Limits!LiveSet : s > n - Window}),
         UNCHANGED <<clock, stamp, count, allowed, lapsed>>,
         \/ step' = step
         \/ \E h \in Handlers : step[h] = "zrem" /\ step' = [step EXCEPT ![h] = "zcard"]
  PROVE  SlidingInv'
<1> DEFINE S == {s \in Limits!LiveSet : s > n - Window}
<1>1. /\ zset' = S /\ Limits!LiveSet' = S
      /\ zsetUntil' = Limits!Never \/ (zsetUntil' = zsetUntil /\ clock < zsetUntil)
  BY StoredLive
<1>2. \A g \in Handlers : /\ step'[g] = step[g] \/ (step[g] = "zrem" /\ step'[g] = "zcard")
  BY DEF LimitShapes
<1>3. \A g \in Handlers : step[g] = "expire" =>
                            (stamp[g] \in Limits!LiveSet' <=> stamp[g] \in Limits!LiveSet)
  <2>1. \A g \in Handlers : step[g] = "expire" => stamp[g] > n - Window
    BY RateBounds DEF LimitShapes, TimeInv
  <2>. QED  BY <1>1, <2>1
<1>4. \A s \in Nat : (Through(s)' => Through(s)) /\ (Lost(s)' => Lost(s))
                      /\ (Settled(s)' => Settled(s))
  <2>1. \A g \in Handlers : Passing(g)' => Passing(g)
    BY <1>2, <1>3 DEF Passing
  <2>2. \A s \in Nat : Through(s)' => Through(s)
    BY <2>1 DEF Through
  <2>3. \A s \in Nat : Lost(s)' => Lost(s)
    BY <1>2, <1>3 DEF Lost
  <2>4. \A s \in Nat : Settled(s)' => Settled(s)
    BY <1>2 DEF Settled
  <2>. QED  BY <2>2, <2>3, <2>4
<1>5. EntriesInv'
  <2>1. ASSUME NEW s \in Nat, Settled(s)
        PROVE  zsetUntil' >= s + Window /\ (clock < s + Window => s \in S)
    <3>1. zsetUntil' >= s + Window
      BY <1>1, <2>1, TheyHaveBeen, RateBounds DEF SlidingInv, EntriesInv
    <3>2. clock < s + Window => s \in Limits!LiveSet
      BY <2>1, SettledLives DEF SlidingInv
    <3>3. clock < s + Window => s > n - Window
      BY RateBounds DEF LimitShapes
    <3>. QED  BY <3>1, <3>2, <3>3
  <2>2. ASSUME NEW s \in Nat, Lost(s) PROVE zsetUntil' <= clock \/ zsetUntil' >= s + Window
    BY <1>1, <2>2, TheyHaveBeen, RateBounds DEF SlidingInv, EntriesInv
  <2>. QED  BY <1>1, <1>4, <2>1, <2>2 DEF EntriesInv
<1>6. \A h \in Handlers : step'[h] \notin {"incr", "expireCounter"}
  BY <1>2 DEF SlidingInv
<1>. QED  BY <1>4, <1>5, <1>6, SlidingKept

\* Steps of a request that leave the set alone, and do not count.
LEMMA QuietKeeps ==
  ASSUME LimitShapes, TimeInv, SlidingInv, window = "sliding", NEW h \in Handlers,
         Limits!Arrives(h) \/ Limits!Decide(h) \/ Limits!RedisFails(h)
  PROVE  SlidingInv'
<1>1. UNCHANGED <<clock, zset, zsetUntil, lapsed>>
  BY DEF Limits!Arrives, Limits!Decide, Limits!RedisFails, Limits!sorted
<1>2. Limits!LiveSet' = Limits!LiveSet
  BY <1>1 DEF Limits!LiveSet
<1>3. /\ \A g \in Handlers \ {h} : step'[g] = step[g] /\ stamp'[g] = stamp[g]
           /\ count'[g] = count[g]
      /\ step'[h] \in {"idle", "zrem"}
  BY DEF LimitShapes, Limits!Arrives, Limits!Decide, Limits!RedisFails, Limits!To
<1>4. \A g \in Handlers : /\ step'[g] \in {"zadd", "expire", "decide"} =>
                               g # h
                          /\ Passing(g)' => g # h /\ Passing(g)
  BY <1>2, <1>3 DEF Passing
<1>5. \A s \in allowed' : s \in allowed \/ (s = stamp[h] /\ Passing(h) /\ step[h] = "decide")
  BY DEF Limits!Arrives, Limits!Decide, Limits!IsAllowed, Limits!RedisFails, Passing
<1>6. \A s \in Nat : Through(s)' => Through(s)
  BY <1>1, <1>3, <1>4, <1>5 DEF Through
<1>7. \A s \in Nat : Lost(s)' => Lost(s)
  BY <1>1, <1>2, <1>3, <1>4 DEF Lost
<1>8. \A s \in Nat : Settled(s)' => Settled(s)
  BY <1>1, <1>3, <1>4, <1>5 DEF Settled
<1>9. EntriesInv'
  BY <1>1, <1>7, <1>8, EntriesKept DEF SlidingInv
<1>10. \A g \in Handlers : step'[g] \notin {"incr", "expireCounter"}
  BY <1>3 DEF SlidingInv
<1>. QED  BY <1>6, <1>7, <1>9, <1>10, SlidingKept

\* Who is counted through now finds those of its span that settled in the set.
LEMMA CountKeeps ==
  ASSUME LimitShapes, TimeInv, SlidingInv, NEW h \in Handlers, Limits!ZCard(h),
         UNCHANGED <<clock, stamp, allowed>>
  PROVE  SlidingInv'
<1>1. /\ UNCHANGED <<clock, zset, zsetUntil, lapsed, stamp, allowed>>
      /\ step[h] = "zcard" /\ step' = [step EXCEPT ![h] = "zadd"]
      /\ count' = [count EXCEPT ![h] = Cardinality(Limits!LiveSet)]
  BY LimitCardinality DEF Limits!ZCard, Limits!To, Limits!sorted
<1>2. Limits!LiveSet' = Limits!LiveSet
  BY <1>1 DEF Limits!LiveSet
<1>3. /\ step'[h] = "zadd" /\ count'[h] = Cardinality(Limits!LiveSet)
      /\ \A g \in Handlers \ {h} : step'[g] = step[g] /\ count'[g] = count[g]
  BY <1>1 DEF LimitShapes
<1>4. \A s \in Nat : (Lost(s)' => Lost(s)) /\ (Settled(s)' => Settled(s))
  BY <1>1, <1>2, <1>3 DEF Lost, Settled
<1>5. EntriesInv'
  BY <1>1, <1>4, EntriesKept DEF SlidingInv
<1>6. \A g \in Handlers \ {h} : Passing(g)' <=> Passing(g)
  BY <1>1, <1>2, <1>3 DEF Passing
<1>7. Passing(h)' <=> Cardinality(Limits!LiveSet) < Limit
  BY <1>3 DEF Passing
<1>8. ASSUME NEW t \in Nat PROVE Cardinality(Throughs(t)') <= Limit + Cardinality(Handlers) - 1
  <2>1. CASE Cardinality(Limits!LiveSet) < Limit /\ stamp[h] \in Span(t)
    <3>1. ASSUME NEW s \in Throughs(t)' PROVE s \in Limits!LiveSet \cup Stamps
      <4>1. s \in Span(t) /\ s \in Nat /\ s \notin lapsed
            /\ (s \in allowed \/ \E g \in Handlers : stamp[g] = s)
        BY <1>1, <3>1 DEF Throughs, Through, Span
      <4>2. clock < s + Window
        <5>1. clock <= stamp[h] + MaxDelay /\ stamp[h] <= t /\ t - Window + MaxDelay < s
          BY <1>1, <2>1, <4>1 DEF TimeInv, Span
        <5>. QED  BY <4>1, <5>1, RateBounds DEF LimitShapes
      <4>3. s \in allowed => Settled(s)
        BY <4>1 DEF Settled
      <4>. QED  BY <4>1, <4>2, <4>3, SettledLives DEF SlidingInv, Stamps
    <3>2. /\ IsFiniteSet(Limits!LiveSet \cup Stamps)
          /\ Cardinality(Limits!LiveSet \cup Stamps)
               = Cardinality(Limits!LiveSet) + Cardinality(Stamps)
                   - Cardinality(Limits!LiveSet \cap Stamps)
          /\ Cardinality(Limits!LiveSet \cap Stamps) \in Nat
      BY LiveFinite, StampsFinite, FS_Union, FS_Intersection, FS_CardinalityType
    <3>3. /\ Cardinality(Throughs(t)') <= Cardinality(Limits!LiveSet \cup Stamps)
          /\ Cardinality(Throughs(t)') \in Nat
      BY <3>1, <3>2, FS_Subset, FS_CardinalityType
    <3>. QED  BY <2>1, <3>2, <3>3, LiveFinite, StampsFinite, HandlersCount, RateBounds
  <2>2. CASE ~(Cardinality(Limits!LiveSet) < Limit /\ stamp[h] \in Span(t))
    <3>1. Throughs(t)' \subseteq Throughs(t)
      BY <1>1, <1>6, <1>7, <2>2 DEF Throughs, Through, Span
    <3>2. /\ Cardinality(Throughs(t)') \in Nat /\ Cardinality(Throughs(t)) \in Nat
          /\ Cardinality(Throughs(t)') <= Cardinality(Throughs(t))
      BY <3>1, SetsFinite, FS_Subset, FS_CardinalityType
    <3>3. Cardinality(Throughs(t)) <= Limit + Cardinality(Handlers) - 1
      BY DEF SlidingInv, SpanInv
    <3>. QED  BY <3>2, <3>3, RateBounds, HandlersCount
  <2>. QED  BY <2>1, <2>2
<1>9. LossInv'
  BY <1>4, LossKept DEF SlidingInv
<1>10. \A g \in Handlers : step'[g] \notin {"incr", "expireCounter"}
  BY <1>3 DEF SlidingInv
<1>. QED  BY <1>5, <1>8, <1>9, <1>10 DEF SlidingInv, SpanInv

LEMMA AddKeeps ==
  ASSUME LimitShapes, TimeInv, SlidingInv, NEW h \in Handlers, Limits!ZAdd(h),
         UNCHANGED <<clock, stamp, allowed>>
  PROVE  SlidingInv'
<1>1. /\ zset' = Limits!LiveSet \cup {stamp[h]} /\ Limits!LiveSet' = Limits!LiveSet \cup {stamp[h]}
      /\ zsetUntil' = Limits!Never \/ (zsetUntil' = zsetUntil /\ clock < zsetUntil)
  BY StoredLive DEF Limits!ZAdd
<1>2. /\ step[h] = "zadd" /\ step'[h] = "expire" /\ UNCHANGED <<clock, stamp, allowed, count,
                                                                lapsed>>
      /\ \A g \in Handlers \ {h} : step'[g] = step[g]
  BY DEF Limits!ZAdd, Limits!To, LimitShapes
<1>3. \A g \in Handlers \ {h} : step[g] = "expire" =>
         (stamp[g] \in Limits!LiveSet' <=> stamp[g] \in Limits!LiveSet)
  BY <1>1, <1>2 DEF TimeInv
<1>4. stamp[h] \in Limits!LiveSet'
  BY <1>1
<1>5. \A g \in Handlers : Passing(g)' => Passing(g)
  BY <1>2, <1>3 DEF Passing
<1>6. \A s \in Nat : Through(s)' => Through(s)
  BY <1>2, <1>5 DEF Through
<1>7. \A s \in Nat : Lost(s)' => Lost(s)
  BY <1>2, <1>3, <1>4 DEF Lost
<1>8. \A s \in Nat : Settled(s)' => Settled(s)
  BY <1>2 DEF Settled
<1>9. EntriesInv'
  <2>1. ASSUME NEW s \in Nat, Settled(s)
        PROVE  zsetUntil' >= s + Window /\ (clock < s + Window => s \in zset')
    <3>1. zsetUntil' >= s + Window
      BY <1>1, <2>1, TheyHaveBeen, RateBounds DEF SlidingInv, EntriesInv
    <3>2. clock < s + Window => s \in Limits!LiveSet
      BY <2>1, SettledLives DEF SlidingInv
    <3>. QED  BY <1>1, <3>1, <3>2
  <2>2. ASSUME NEW s \in Nat, Lost(s) PROVE zsetUntil' <= clock \/ zsetUntil' >= s + Window
    BY <1>1, <2>2, TheyHaveBeen, RateBounds DEF SlidingInv, EntriesInv
  <2>. QED  BY <1>2, <1>7, <1>8, <2>1, <2>2 DEF EntriesInv
<1>10. \A g \in Handlers : step'[g] \notin {"incr", "expireCounter"}
  BY <1>2 DEF SlidingInv
<1>. QED  BY <1>6, <1>7, <1>9, <1>10, SlidingKept

LEMMA EntryExpires ==
  ASSUME LimitShapes, TimeInv, SlidingInv, NEW h \in Handlers, Limits!Expire(h),
         UNCHANGED <<clock, stamp, allowed>>
  PROVE  SlidingInv'
<1>1. /\ step[h] = "expire" /\ step'[h] = "decide" /\ UNCHANGED <<clock, stamp, allowed, count>>
      /\ \A g \in Handlers \ {h} : step'[g] = step[g]
      /\ zset' = Limits!LiveSet
      /\ zsetUntil' = IF Limits!LiveSet = {} THEN Limits!Never ELSE clock + Window
      /\ lapsed' = IF stamp[h] \in Limits!LiveSet THEN lapsed ELSE lapsed \cup {stamp[h]}
  BY DEF Limits!Expire, Limits!To, LimitShapes
<1>2. zsetUntil' > clock /\ \A s \in Nat : s <= clock => zsetUntil' >= s + Window
  <2>1. zsetUntil' = Limits!Never \/ zsetUntil' = clock + Window
    BY <1>1
  <2>2. /\ clock \in Nat /\ Limits!Never \in Nat /\ clock < Limits!Never
        /\ \A s \in Nat : s <= clock => s + Window < Limits!Never
    BY TheyHaveBeen DEF LimitShapes
  <2>. QED  BY <2>1, <2>2, RateBounds
<1>3. Limits!LiveSet' = Limits!LiveSet
  <2>1. clock' < zsetUntil'
    BY <1>1, <1>2, TheyHaveBeen, RateBounds DEF LimitShapes
  <2>. QED  BY <1>1, <2>1 DEF Limits!LiveSet
<1>4. \A s \in Nat : Lost(s)' => Lost(s)
  <2>1. \A s \in lapsed' : s \in lapsed \/ (s = stamp[h] /\ stamp[h] \notin Limits!LiveSet)
    BY <1>1
  <2>. QED  BY <1>1, <1>3, <2>1 DEF Lost
<1>5. \A g \in Handlers : Passing(g)' /\ stamp[g] \notin lapsed' => Passing(g)
  BY <1>1, <1>3 DEF Passing
<1>6. \A s \in Nat : Through(s)' => Through(s)
  BY <1>1, <1>5 DEF Through
<1>7. \A s \in Nat : Settled(s)' => Settled(s) \/ s \in Limits!LiveSet
  BY <1>1 DEF Settled
<1>8. \A s \in Nat : Settled(s)' \/ Lost(s)' => s <= clock
  BY <1>1 DEF Settled, Lost, TimeInv, LimitShapes
<1>9. EntriesInv'
  <2>1. ASSUME NEW s \in Nat, Settled(s)'
        PROVE  zsetUntil' >= s + Window /\ (clock < s + Window => s \in zset')
    <3>1. Settled(s) /\ clock < s + Window => s \in Limits!LiveSet
      BY SettledLives DEF SlidingInv
    <3>. QED  BY <1>1, <1>2, <1>7, <1>8, <2>1, <3>1
  <2>2. ASSUME NEW s \in Nat, Lost(s)' PROVE zsetUntil' >= s + Window
    BY <1>2, <1>8, <2>2
  <2>. QED  BY <1>1, <2>1, <2>2 DEF EntriesInv
<1>10. \A g \in Handlers : step'[g] \notin {"incr", "expireCounter"}
  BY <1>1 DEF SlidingInv
<1>. QED  BY <1>4, <1>6, <1>9, <1>10, SlidingKept

\* The key expires at most once under the requests of a span.
LEMMA TickKeeps ==
  ASSUME LimitShapes, TimeInv, SlidingInv, Limits!ClockTicks
  PROVE  SlidingInv'
<1>1. /\ clock' = clock + 1 /\ UNCHANGED <<step, stamp, count, zset, zsetUntil, allowed, lapsed>>
      /\ \A h \in Handlers : step[h] \notin {"idle", "decide"} => clock < stamp[h] + MaxDelay
  BY DEF Limits!ClockTicks, Limits!sorted
<1>2. clock \in Nat /\ zsetUntil \in Nat /\ Window \in Nat /\ MaxDelay \in Nat
  BY RateBounds DEF LimitShapes
<1>3. \/ Limits!LiveSet' = Limits!LiveSet
      \/ Limits!LiveSet' = {} /\ zsetUntil = clock + 1
  BY <1>1, <1>2 DEF Limits!LiveSet
<1>4. Limits!LiveSet' \subseteq Limits!LiveSet
  BY <1>3
<1>5. \A g \in Handlers : Passing(g)' => Passing(g)
  BY <1>1, <1>4 DEF Passing
<1>6. \A s \in Nat : (Through(s)' => Through(s)) /\ (Settled(s)' => Settled(s))
  BY <1>1, <1>5 DEF Through, Settled
<1>7. \A s \in Nat : Lost(s)' => Lost(s) \/ zsetUntil = clock + 1
  BY <1>1, <1>3 DEF Lost
<1>8. EntriesInv'
  <2>1. ASSUME NEW s \in Nat, Settled(s)
        PROVE  zsetUntil >= s + Window /\ (clock + 1 < s + Window => s \in zset)
    BY <1>2, <2>1 DEF SlidingInv, EntriesInv
  <2>2. ASSUME NEW s \in Nat, Lost(s)'
        PROVE  zsetUntil <= clock + 1 \/ zsetUntil >= s + Window
    <3>1. Lost(s) => zsetUntil <= clock \/ zsetUntil >= s + Window
      BY DEF SlidingInv, EntriesInv
    <3>. QED  BY <1>2, <1>7, <2>2, <3>1
  <2>. QED  BY <1>1, <1>6, <2>1, <2>2 DEF EntriesInv
<1>9. ASSUME NEW t \in Nat PROVE Cardinality(Losses(t)') <= Cardinality(Handlers)
  <2>1. CASE \E h \in Handlers : /\ step[h] = "expire" /\ stamp[h] \in Span(t)
                                 /\ stamp[h] \in Limits!LiveSet /\ stamp[h] \notin Limits!LiveSet'
    <3>1. PICK h \in Handlers : /\ step[h] = "expire" /\ stamp[h] \in Span(t)
                                /\ stamp[h] \in Limits!LiveSet /\ stamp[h] \notin Limits!LiveSet'
      BY <2>1
    <3>2. zsetUntil = clock + 1 /\ clock < stamp[h] + MaxDelay /\ stamp[h] <= t /\ stamp[h] \in Nat
      BY <1>1, <1>3, <3>1 DEF Span
    <3>3. ASSUME NEW s \in Losses(t)' PROVE s \in Stamps
      <4>1. s \in Nat /\ t - Window + MaxDelay < s
        BY <3>3 DEF Losses, Span
      <4>2. s \in lapsed => zsetUntil >= s + Window
        BY <1>2, <3>2, <4>1 DEF SlidingInv, EntriesInv, Lost
      <4>3. s \notin lapsed
        BY <1>2, <3>2, <4>1, <4>2
      <4>. QED  BY <1>1, <3>3, <4>3 DEF Losses, Lost, Stamps
    <3>4. Cardinality(Losses(t)') \in Nat /\ Cardinality(Losses(t)') <= Cardinality(Stamps)
      BY <3>3, StampsFinite, FS_Subset, FS_CardinalityType
    <3>. QED  BY <3>4, StampsFinite, HandlersCount
  <2>2. CASE ~ \E h \in Handlers : /\ step[h] = "expire" /\ stamp[h] \in Span(t)
                                   /\ stamp[h] \in Limits!LiveSet /\ stamp[h] \notin Limits!LiveSet'
    <3>1. Losses(t)' \subseteq Losses(t)
      BY <1>1, <2>2 DEF Losses, Lost, Span
    <3>2. /\ Cardinality(Losses(t)') \in Nat /\ Cardinality(Losses(t)) \in Nat
          /\ Cardinality(Losses(t)') <= Cardinality(Losses(t))
      BY <3>1, SetsFinite, FS_Subset, FS_CardinalityType
    <3>3. Cardinality(Losses(t)) <= Cardinality(Handlers)
      BY DEF SlidingInv, LossInv
    <3>. QED  BY <3>2, <3>3, HandlersCount
  <2>. QED  BY <2>1, <2>2
<1>10. SpanInv'
  BY <1>6, SpanKept DEF SlidingInv
<1>11. \A g \in Handlers : step'[g] \notin {"incr", "expireCounter"}
  BY <1>1 DEF SlidingInv
<1>. QED  BY <1>8, <1>9, <1>10, <1>11 DEF SlidingInv, LossInv

LEMMA SlidingStep ==
  ASSUME LimitShapes, TimeInv, SlidingInv, window = "sliding", [Limits!Next]_limitPart
  PROVE  SlidingInv'
<1>1. CASE UNCHANGED limitPart
  <2>1. UNCHANGED <<window, clock, step, stamp, count, zset, zsetUntil, allowed, lapsed>>
    BY <1>1 DEF limitPart
  <2>2. Limits!LiveSet' = Limits!LiveSet
    BY <2>1 DEF Limits!LiveSet
  <2>3. \A g \in Handlers : Passing(g)' => Passing(g)
    BY <2>1, <2>2 DEF Passing
  <2>4. \A s \in Nat : (Through(s)' => Through(s)) /\ (Settled(s)' => Settled(s))
    BY <2>1, <2>3 DEF Through, Settled
  <2>5. \A s \in Nat : Lost(s)' => Lost(s)
    BY <2>1, <2>2 DEF Lost
  <2>6. EntriesInv'
    BY <2>1, <2>4, <2>5, EntriesKept DEF SlidingInv
  <2>7. \A g \in Handlers : step'[g] \notin {"incr", "expireCounter"}
    BY <2>1 DEF SlidingInv
  <2>. QED  BY <2>4, <2>5, <2>6, <2>7, SlidingKept
<1>2. CASE Limits!GetRateLimitStatus
  <2>1. /\ Limits!Stored({s \in Limits!LiveSet : s > clock - Window})
        /\ UNCHANGED <<clock, stamp, count, allowed, lapsed, step>>
    BY <1>2 DEF Limits!GetRateLimitStatus
  <2>. QED  BY <2>1, TrimKeeps DEF LimitShapes
<1>3. ASSUME NEW h \in Handlers, Limits!Sliding(h) PROVE SlidingInv'
  <2>1. UNCHANGED <<clock, stamp, allowed>> /\ stamp[h] \in Nat /\ stamp[h] <= clock
    BY <1>3 DEF Limits!Sliding, LimitShapes, TimeInv
  <2>2. CASE Limits!ZRemRangeByScore(h)
    <3>1. /\ Limits!Stored({s \in Limits!LiveSet : s > stamp[h] - Window})
          /\ step[h] = "zrem" /\ step' = [step EXCEPT ![h] = "zcard"] /\ UNCHANGED <<count, lapsed>>
      BY <2>2 DEF Limits!ZRemRangeByScore, Limits!To
    <3>. QED  BY <2>1, <3>1, TrimKeeps
  <2>. QED  BY <1>3, <2>1, <2>2, CountKeeps, AddKeeps, EntryExpires DEF Limits!Sliding
<1>4. ASSUME NEW h \in Handlers PROVE ~Limits!Fixed(h)
  BY DEF SlidingInv, Limits!Fixed, Limits!Incr, Limits!ExpireCounter
<1>. QED  BY <1>1, <1>2, <1>3, <1>4, TickKeeps, QuietKeeps DEF Limits!Next

-----------------------------------------------------------------------------
(* The fixed window.                                                       *)

\* A window nobody is counted in, or lost in, anew.
LEMMA CounterKept ==
  ASSUME LimitShapes, FixedInv, NEW w \in Limits!Windows,
         CountedIn(w)' \subseteq CountedIn(w), LapsedIn(w)' = LapsedIn(w),
         Incrs(w)' \subseteq Incrs(w), counter'[w] = counter[w],
         counterUntil'[w] >= (w + 1) * Window,
         Limits!Truncated(clock') <= w => Limits!Truncated(clock) <= w
  PROVE  CounterInv(w)'
<1>1. CounterInv(w)
  BY DEF FixedInv
<1>2. /\ Cardinality(CountedIn(w)') \in Nat /\ Cardinality(CountedIn(w)) \in Nat
      /\ Cardinality(CountedIn(w)') <= Cardinality(CountedIn(w))
  BY SetsFinite, FS_Subset, FS_CardinalityType
<1>3. /\ Cardinality(Incrs(w)') \in Nat /\ Cardinality(Incrs(w)) \in Nat
      /\ Cardinality(Incrs(w)') <= Cardinality(Incrs(w)) /\ Cardinality(LapsedIn(w)) \in Nat
  BY SetsFinite, FS_Subset, FS_CardinalityType
<1>4. counter[w] \in Nat
  BY DEF LimitShapes
<1>5. Cardinality(CountedIn(w)') <= Limit
  BY <1>1, <1>2, RateBounds DEF CounterInv
<1>6. Limits!Truncated(clock') <= w => Cardinality(CountedIn(w)') <= counter'[w]
        /\ LapsedIn(w)' = {}
  BY <1>1, <1>2, <1>4 DEF CounterInv
<1>7. Cardinality(LapsedIn(w)') + Cardinality(Incrs(w)') <= Cardinality(Handlers)
  BY <1>1, <1>3, HandlersCount DEF CounterInv
<1>8. Limits!Truncated(clock)' = Limits!Truncated(clock')
  BY DEF Limits!Truncated
<1>. QED  BY <1>5, <1>6, <1>7, <1>8 DEF CounterInv

LEMMA FixedArrives ==
  ASSUME LimitShapes, TimeInv, FixedInv, window = "fixed", NEW h \in Handlers, Limits!Arrives(h)
  PROVE  FixedInv'
<1>1. /\ UNCHANGED <<clock, counter, counterUntil, allowed, lapsed>>
      /\ step[h] = "idle" /\ step'[h] = "incr" /\ stamp'[h] = clock
      /\ \A g \in Handlers \ {h} : step'[g] = step[g] /\ stamp'[g] = stamp[g]
           /\ count'[g] = count[g]
  BY DEF Limits!Arrives, Limits!counters, LimitShapes
<1>2. \A w : LapsedIn(w)' = LapsedIn(w)
  BY <1>1 DEF LapsedIn, InWindow, Limits!Truncated
<1>3. \A s : Counted(s)' => Counted(s)
  BY <1>1 DEF Counted, Counting
<1>4. \A w : CountedIn(w)' \subseteq CountedIn(w)
  BY <1>3 DEF CountedIn, InWindow, Limits!Truncated
<1>5. ASSUME NEW w \in Limits!Windows PROVE CounterInv(w)'
  <2>1. counterUntil[w] >= (w + 1) * Window
    BY DEF FixedInv, CounterInv
  <2>2. CASE w # Limits!Truncated(clock)
    <3>1. Incrs(w)' \subseteq Incrs(w)
      BY <1>1, <2>2 DEF Incrs, Limits!Truncated
    <3>. QED  BY <1>1, <1>2, <1>4, <2>1, <3>1, CounterKept
  <2>3. CASE w = Limits!Truncated(clock)
    <3>1. CounterInv(w) /\ LapsedIn(w) = {} /\ Limits!Truncated(clock)' = Limits!Truncated(clock)
      <4>1. w \in Int
        BY <2>3, WindowOf DEF LimitShapes
      <4>2. Limits!Truncated(clock) <= w
        BY <2>3, <4>1
      <4>. QED  BY <1>1, <4>2 DEF FixedInv, CounterInv, Limits!Truncated
    <3>2. Cardinality(Incrs(w)') \in Nat /\ Cardinality(Incrs(w)') <= Cardinality(Handlers)
      <4>1. Incrs(w)' \subseteq Handlers
        BY DEF Incrs
      <4>. QED  BY <4>1, RateBounds, FS_Subset, FS_CardinalityType
    <3>3. Cardinality(LapsedIn(w)') = 0
      BY <1>2, <3>1, FS_EmptySet
    <3>4. /\ Cardinality(CountedIn(w)') \in Nat /\ Cardinality(CountedIn(w)) \in Nat
          /\ Cardinality(CountedIn(w)') <= Cardinality(CountedIn(w)) /\ counter[w] \in Nat
      BY <1>4, SetsFinite, FS_Subset, FS_CardinalityType DEF LimitShapes
    <3>5. /\ Cardinality(CountedIn(w)') <= Limit
          /\ Limits!Truncated(clock) <= w => Cardinality(CountedIn(w)') <= counter[w]
      BY <3>1, <3>4, RateBounds DEF CounterInv
    <3>6. Cardinality(LapsedIn(w)') + Cardinality(Incrs(w)') <= Cardinality(Handlers)
      BY <3>2, <3>3, HandlersCount
    <3>. QED  BY <1>1, <1>2, <2>1, <3>1, <3>5, <3>6 DEF CounterInv
  <2>. QED  BY <2>2, <2>3
<1>6. \A g \in Handlers : step'[g] \in {"idle", "incr", "expireCounter", "decide"}
  BY <1>1 DEF FixedInv
<1>7. Limits!Windows' = Limits!Windows
  BY DEF Limits!Windows, Limits!Truncated
<1>. QED  BY <1>5, <1>6, <1>7 DEF FixedInv

LEMMA FixedQuiet ==
  ASSUME LimitShapes, TimeInv, FixedInv, window = "fixed",
         \/ UNCHANGED limitPart
         \/ Limits!ClockTicks
         \/ \E h \in Handlers : Limits!Decide(h) \/ Limits!RedisFails(h)
  PROVE  FixedInv'
<1>1. /\ UNCHANGED <<counter, counterUntil, stamp, count, lapsed>>
      /\ clock \in Nat /\ (clock' = clock \/ clock' = clock + 1)
  BY DEF limitPart, Limits!ClockTicks, Limits!Decide, Limits!RedisFails, Limits!counters, LimitShapes
<1>2. \A g \in Handlers : step'[g] = step[g] \/ step'[g] = "idle"
  BY DEF limitPart, Limits!ClockTicks, Limits!Decide, Limits!RedisFails, Limits!To, LimitShapes
<1>3. \A s \in allowed' : s \in allowed \/ \E h \in Handlers : Counting(h) /\ stamp[h] = s
  BY DEF limitPart, Limits!ClockTicks, Limits!Decide, Limits!IsAllowed, Limits!RedisFails, Counting
<1>4. \A w : /\ LapsedIn(w)' = LapsedIn(w) /\ Incrs(w)' \subseteq Incrs(w)
  BY <1>1, <1>2 DEF LapsedIn, InWindow, Incrs, Limits!Truncated
<1>5. \A s : Counted(s)' => Counted(s)
  <2>1. \A g \in Handlers : Counting(g)' => Counting(g)
    BY <1>1, <1>2 DEF Counting
  <2>. QED  BY <1>1, <1>3, <2>1 DEF Counted
<1>6. \A w : CountedIn(w)' \subseteq CountedIn(w)
  BY <1>5 DEF CountedIn, InWindow, Limits!Truncated
<1>7. ASSUME NEW w \in Limits!Windows PROVE CounterInv(w)'
  <2>1. counterUntil[w] >= (w + 1) * Window
    BY DEF FixedInv, CounterInv
  <2>2. Limits!Truncated(clock') <= w => Limits!Truncated(clock) <= w
    <3>1. Limits!Truncated(clock) <= Limits!Truncated(clock')
      BY <1>1, WindowsInOrder
    <3>2. Limits!Truncated(clock) \in Nat /\ Limits!Truncated(clock') \in Nat /\ w \in Int
      BY <1>1, <1>7, WindowOf DEF Limits!Windows
    <3>. QED  BY <3>1, <3>2
  <2>. QED  BY <1>1, <1>4, <1>6, <2>1, <2>2, CounterKept
<1>8. \A g \in Handlers : step'[g] \in {"idle", "incr", "expireCounter", "decide"}
  BY <1>2 DEF FixedInv
<1>9. Limits!Windows' = Limits!Windows
  BY DEF Limits!Windows, Limits!Truncated
<1>. QED  BY <1>7, <1>8, <1>9 DEF FixedInv

\* The end of a window is before any expiry set in it.
LEMMA OwnWindow ==
  ASSUME LimitShapes, TimeInv, NEW h \in Handlers
  PROVE  /\ stamp[h] \in Nat /\ stamp[h] <= clock /\ clock \in Nat
         /\ Limits!Truncated(stamp[h]) \in Limits!Windows /\ Limits!Truncated(stamp[h]) \in Nat
         /\ Limits!Truncated(clock) \in Nat
         /\ Limits!Truncated(stamp[h]) <= Limits!Truncated(clock)
         /\ (Limits!Truncated(stamp[h]) + 1) * Window <= clock + Window
         /\ (Limits!Truncated(stamp[h]) + 1) * Window <= Limits!Never
<1>1. stamp[h] \in Nat /\ stamp[h] <= clock /\ clock \in Nat /\ stamp[h] <= MaxClock
  BY RateBounds DEF LimitShapes, TimeInv
<1>2. /\ Limits!Truncated(stamp[h]) \in Limits!Windows /\ Limits!Truncated(stamp[h]) \in Nat
      /\ Limits!Truncated(clock) \in Nat
      /\ Limits!Truncated(stamp[h]) <= Limits!Truncated(clock)
  BY <1>1, WindowOf, WindowsInOrder, NeverExpires
<1>3. /\ (Limits!Truncated(stamp[h]) + 1) * Window <= stamp[h] + Window
      /\ (Limits!Truncated(stamp[h]) + 1) * Window <= Limits!Never
      /\ (Limits!Truncated(stamp[h]) + 1) * Window \in Nat
  BY <1>1, <1>2, NeverExpires, Multiples, RateBounds
<1>. QED  BY <1>1, <1>2, <1>3, RateBounds

LEMMA FixedExpire ==
  ASSUME LimitShapes, TimeInv, FixedInv, NEW h \in Handlers, Limits!ExpireCounter(h),
         UNCHANGED <<clock, stamp, allowed>>
  PROVE  FixedInv'
<1> DEFINE v == Limits!Truncated(stamp[h])
<1>1. /\ UNCHANGED <<clock, stamp, allowed, counter, count, lapsed>>
      /\ step[h] = "expireCounter" /\ step'[h] = "decide"
      /\ \A g \in Handlers \ {h} : step'[g] = step[g]
      /\ \/ counterUntil' = [counterUntil EXCEPT ![v] = clock + Window]
         \/ counterUntil' = counterUntil
  BY DEF Limits!ExpireCounter, Limits!To, LimitShapes
<1>2. v \in Limits!Windows /\ (v + 1) * Window <= clock + Window
  BY OwnWindow
<1> HIDE DEF v
<1>3. \A w : /\ LapsedIn(w)' = LapsedIn(w) /\ Incrs(w)' \subseteq Incrs(w)
  BY <1>1 DEF LapsedIn, InWindow, Incrs, Limits!Truncated
<1>4. \A g \in Handlers : Counting(g)' => Counting(g)
  BY <1>1 DEF Counting
<1>5. \A w : CountedIn(w)' \subseteq CountedIn(w)
  BY <1>1, <1>4 DEF Counted, CountedIn, InWindow, Limits!Truncated
<1>6. ASSUME NEW w \in Limits!Windows PROVE CounterInv(w)'
  <2>1. counterUntil[w] >= (w + 1) * Window
    BY DEF FixedInv, CounterInv
  <2>2. counterUntil'[w] = counterUntil[w] \/ (w = v /\ counterUntil'[w] = clock + Window)
    BY <1>1, <1>2 DEF LimitShapes
  <2>3. counterUntil'[w] >= (w + 1) * Window
    BY <1>2, <2>1, <2>2
  <2>. QED  BY <1>1, <1>3, <1>5, <2>3, CounterKept
<1>7. \A g \in Handlers : step'[g] \in {"idle", "incr", "expireCounter", "decide"}
  BY <1>1 DEF FixedInv
<1>8. Limits!Windows' = Limits!Windows
  BY DEF Limits!Windows, Limits!Truncated
<1>. QED  BY <1>6, <1>7, <1>8 DEF FixedInv

LEMMA OneMoreCounts ==
  ASSUME NEW S, IsFiniteSet(S), NEW x
  PROVE  /\ IsFiniteSet(S \cup {x}) /\ Cardinality(S \cup {x}) \in Nat /\ Cardinality(S) \in Nat
         /\ Cardinality(S \cup {x}) <= Cardinality(S) + 1
<1>1. IsFiniteSet(S \cup {x}) /\ Cardinality(S \cup {x}) \in Nat /\ Cardinality(S) \in Nat
  BY FS_AddElement, FS_CardinalityType
<1>2. Cardinality(S \cup {x}) = Cardinality(S) \/ Cardinality(S \cup {x}) = Cardinality(S) + 1
  BY FS_AddElement
<1>. QED  BY <1>1, <1>2

LEMMA FixedIncr ==
  ASSUME LimitShapes, TimeInv, FixedInv, NEW h \in Handlers, Limits!Incr(h),
         UNCHANGED <<clock, stamp, allowed>>
  PROVE  FixedInv'
<1>0. PICK v \in Limits!Windows : v = Limits!Truncated(stamp[h])
  BY OwnWindow
<1> DEFINE n == Limits!LiveCounter(v) + 1
<1>1. /\ UNCHANGED <<clock, stamp, allowed>> /\ step[h] = "incr"
      /\ step' = [step EXCEPT ![h] = "expireCounter"] \/ step' = [step EXCEPT ![h] = "decide"]
      /\ count' = [count EXCEPT ![h] = n] /\ counter' = [counter EXCEPT ![v] = n]
      /\ counterUntil' = [counterUntil EXCEPT ![v] = IF clock < @ THEN @ ELSE Limits!Never]
      /\ lapsed' = IF Limits!Truncated(clock) = v THEN lapsed ELSE lapsed \cup {stamp[h]}
  BY <1>0 DEF Limits!Incr, Limits!To
<1>2. /\ stamp[h] \in Nat /\ clock \in Nat /\ v \in Limits!Windows /\ v \in Nat
      /\ Limits!Truncated(clock) \in Nat /\ v <= Limits!Truncated(clock)
      /\ (v + 1) * Window <= Limits!Never
  BY <1>0, OwnWindow
<1>3. clock < (Limits!Truncated(clock) + 1) * Window
  BY <1>2, WindowOf
<1>4. CounterInv(v) /\ counterUntil[v] \in Nat /\ counter[v] \in Nat
  BY <1>2 DEF FixedInv, LimitShapes
<1>5. n = IF clock < counterUntil[v] THEN counter[v] + 1 ELSE 1
  BY DEF Limits!LiveCounter
<1>6. h \in Incrs(v)
  BY <1>0, <1>1 DEF Incrs
<1>7. \A w : LapsedIn(w)' = {s \in InWindow(w) : s \in lapsed'}
  BY DEF LapsedIn, InWindow, Limits!Truncated
<1>8. \A w : CountedIn(w)' = {s \in InWindow(w) : Counted(s)'}
  BY DEF CountedIn, InWindow, Limits!Truncated
<1>9. \A w : stamp[h] \in InWindow(w) => w = v
  BY <1>0, <1>2 DEF InWindow
<1>10. (v + 1) * Window \in Nat
  BY <1>2, RateBounds, Multiples
<1> HIDE DEF n
<1>11. /\ step'[h] \in {"expireCounter", "decide"} /\ count'[h] = n
       /\ \A g \in Handlers \ {h} : step'[g] = step[g] /\ count'[g] = count[g]
  BY <1>1 DEF LimitShapes
<1>12. \A s : s # stamp[h] => (s \in lapsed' <=> s \in lapsed)
  BY <1>1
<1>13. \A s : s # stamp[h] => (Counted(s)' => Counted(s))
  BY <1>1, <1>11, <1>12 DEF Counted, Counting
<1>14. \A w : w # v => LapsedIn(w)' = LapsedIn(w) /\ CountedIn(w)' \subseteq CountedIn(w)
  BY <1>7, <1>8, <1>9, <1>12, <1>13 DEF LapsedIn, CountedIn
<1>15. \A w : Incrs(w)' \subseteq Incrs(w)
  BY <1>1, <1>11 DEF Incrs, Limits!Truncated
<1>16. ASSUME NEW w \in Limits!Windows, w # v PROVE CounterInv(w)'
  <2>1. counterUntil[w] >= (w + 1) * Window
    BY DEF FixedInv, CounterInv
  <2>2. counter'[w] = counter[w] /\ counterUntil'[w] = counterUntil[w]
    BY <1>1, <1>2, <1>16 DEF LimitShapes
  <2>. QED  BY <1>1, <1>14, <1>15, <1>16, <2>1, <2>2, CounterKept
<1>17. CounterInv(v)'
  <2>1. counter'[v] = n /\ counterUntil'[v] = IF clock < counterUntil[v] THEN counterUntil[v]
                                              ELSE Limits!Never
    BY <1>1, <1>2 DEF LimitShapes
  <2>2. counterUntil'[v] >= (v + 1) * Window
    BY <1>2, <1>4, <2>1 DEF CounterInv
  <2>3. Limits!Truncated(clock)' = Limits!Truncated(clock)
    BY <1>1 DEF Limits!Truncated
  <2>4. CASE Limits!Truncated(clock) = v
    <3>1. n = counter[v] + 1 /\ LapsedIn(v) = {} /\ lapsed' = lapsed
      <4>1. clock < counterUntil[v] /\ LapsedIn(v) = {}
        BY <1>2, <1>3, <1>4, <1>10, <2>4 DEF CounterInv
      <4>. QED  BY <1>1, <1>5, <2>4, <4>1
    <3>2. LapsedIn(v)' = LapsedIn(v)
      BY <1>7, <3>1 DEF LapsedIn
    <3>3. /\ Cardinality(CountedIn(v)) \in Nat /\ IsFiniteSet(CountedIn(v))
          /\ Cardinality(CountedIn(v)) <= counter[v] /\ Cardinality(CountedIn(v)) <= Limit
      BY <1>2, <1>4, <2>4, SetsFinite DEF CounterInv
    <3>4. /\ Cardinality(CountedIn(v)') <= n /\ Cardinality(CountedIn(v)') <= Limit
      <4>1. CASE n <= Limit
        <5>1. CountedIn(v)' \subseteq CountedIn(v) \cup {stamp[h]}
          BY <1>8, <1>13 DEF CountedIn
        <5>2. /\ IsFiniteSet(CountedIn(v) \cup {stamp[h]})
              /\ Cardinality(CountedIn(v) \cup {stamp[h]}) \in Nat
              /\ Cardinality(CountedIn(v) \cup {stamp[h]}) <= Cardinality(CountedIn(v)) + 1
          BY <3>3, OneMoreCounts
        <5>3. /\ Cardinality(CountedIn(v)') \in Nat
              /\ Cardinality(CountedIn(v)') <= Cardinality(CountedIn(v) \cup {stamp[h]})
          BY <5>1, <5>2, FS_Subset, FS_CardinalityType
        <5>. QED  BY <1>4, <3>1, <3>3, <4>1, <5>2, <5>3, RateBounds
      <4>2. CASE ~(n <= Limit)
        <5>1. \A g \in Handlers : Counting(g)' => Counting(g)
          BY <1>11, <4>2 DEF Counting
        <5>2. CountedIn(v)' \subseteq CountedIn(v)
          BY <1>1, <1>8, <3>1, <5>1 DEF CountedIn, Counted
        <5>3. /\ Cardinality(CountedIn(v)') \in Nat
              /\ Cardinality(CountedIn(v)') <= Cardinality(CountedIn(v))
          BY <3>3, <5>2, FS_Subset, FS_CardinalityType
        <5>. QED  BY <1>4, <3>1, <3>3, <5>3, RateBounds
      <4>. QED  BY <4>1, <4>2
    <3>5. Cardinality(LapsedIn(v)') + Cardinality(Incrs(v)') <= Cardinality(Handlers)
      <4>1. /\ Cardinality(Incrs(v)') \in Nat /\ Cardinality(Incrs(v)) \in Nat
            /\ Cardinality(Incrs(v)') <= Cardinality(Incrs(v)) /\ Cardinality(LapsedIn(v)) \in Nat
        BY <1>15, SetsFinite, FS_Subset, FS_CardinalityType
      <4>. QED  BY <1>4, <3>2, <4>1, HandlersCount DEF CounterInv
    <3>. QED  BY <2>1, <2>2, <2>3, <3>1, <3>2, <3>4, <3>5 DEF CounterInv
  <2>5. CASE Limits!Truncated(clock) # v
    <3>1. lapsed' = lapsed \cup {stamp[h]} /\ ~(Limits!Truncated(clock) <= v)
      BY <1>1, <1>2, <2>5
    <3>2. CountedIn(v)' \subseteq CountedIn(v)
      <4>1. ~Counted(stamp[h])'
        BY <3>1 DEF Counted
      <4>. QED  BY <1>8, <1>13, <4>1 DEF CountedIn
    <3>3. Cardinality(CountedIn(v)') <= Limit
      <4>1. /\ Cardinality(CountedIn(v)') \in Nat /\ Cardinality(CountedIn(v)) \in Nat
            /\ Cardinality(CountedIn(v)') <= Cardinality(CountedIn(v))
        BY <3>2, SetsFinite, FS_Subset, FS_CardinalityType
      <4>. QED  BY <1>4, <4>1, RateBounds DEF CounterInv
    <3>4. Cardinality(LapsedIn(v)') + Cardinality(Incrs(v)') <= Cardinality(Handlers)
      <4>1. LapsedIn(v)' \subseteq LapsedIn(v) \cup {stamp[h]}
        BY <1>7, <3>1 DEF LapsedIn
      <4>2. /\ IsFiniteSet(LapsedIn(v) \cup {stamp[h]})
            /\ Cardinality(LapsedIn(v) \cup {stamp[h]}) \in Nat /\ Cardinality(LapsedIn(v)) \in Nat
            /\ Cardinality(LapsedIn(v) \cup {stamp[h]}) <= Cardinality(LapsedIn(v)) + 1
        BY SetsFinite, OneMoreCounts
      <4>3. /\ Cardinality(LapsedIn(v)') \in Nat
            /\ Cardinality(LapsedIn(v)') <= Cardinality(LapsedIn(v)) + 1
        BY <4>1, <4>2, FS_Subset, FS_CardinalityType
      <4>4. Incrs(v)' \subseteq Incrs(v) \ {h}
        BY <1>11, <1>15 DEF Incrs
      <4>5. /\ IsFiniteSet(Incrs(v) \ {h}) /\ Cardinality(Incrs(v)) \in Nat
            /\ Cardinality(Incrs(v) \ {h}) = Cardinality(Incrs(v)) - 1
        BY <1>6, SetsFinite, FS_RemoveElement
      <4>6. /\ Cardinality(Incrs(v)') \in Nat
            /\ Cardinality(Incrs(v)') <= Cardinality(Incrs(v)) - 1
        BY <4>4, <4>5, FS_Subset, FS_CardinalityType
      <4>. QED  BY <1>4, <4>2, <4>3, <4>5, <4>6, HandlersCount DEF CounterInv
    <3>. QED  BY <2>2, <2>3, <3>1, <3>3, <3>4 DEF CounterInv
  <2>. QED  BY <2>4, <2>5
<1>18. \A g \in Handlers : step'[g] \in {"idle", "incr", "expireCounter", "decide"}
  BY <1>11 DEF FixedInv
<1>19. Limits!Windows' = Limits!Windows
  BY DEF Limits!Windows, Limits!Truncated
<1>. QED  BY <1>16, <1>17, <1>18, <1>19 DEF FixedInv

LEMMA FixedStep ==
  ASSUME LimitShapes, TimeInv, FixedInv, window = "fixed", [Limits!Next]_limitPart
  PROVE  FixedInv'
<1>1. ~Limits!GetRateLimitStatus /\ \A h \in Handlers : ~Limits!Sliding(h)
  BY DEF FixedInv, Limits!GetRateLimitStatus, Limits!Sliding, Limits!ZRemRangeByScore, Limits!ZCard,
         Limits!ZAdd, Limits!Expire
<1>2. ASSUME NEW h \in Handlers, Limits!Fixed(h) PROVE FixedInv'
  <2>1. UNCHANGED <<clock, stamp, allowed>> /\ (Limits!Incr(h) \/ Limits!ExpireCounter(h))
    BY <1>2 DEF Limits!Fixed
  <2>. QED  BY <2>1, FixedIncr, FixedExpire
<1>. QED  BY <1>1, <1>2, FixedArrives, FixedQuiet DEF Limits!Next

LEMMA LimitStep == LimitInv /\ [Limits!Next]_limitPart => LimitInv'
<1> SUFFICES ASSUME LimitInv, [Limits!Next]_limitPart PROVE LimitInv'
  OBVIOUS
<1>1. LimitShapes /\ TimeInv
  BY DEF LimitInv
<1>2. LimitShapes' /\ TimeInv' /\ window' = window
  BY <1>1, ShapesKeep, TimesKeep
<1>3. window = "sliding" => SlidingInv'
  BY <1>1, SlidingStep DEF LimitInv
<1>4. window = "fixed" => FixedInv'
  BY <1>1, FixedStep DEF LimitInv
<1>. QED  BY <1>2, <1>3, <1>4 DEF LimitInv

LEMMA LimitUse == LimitInv => Limits!WindowHolds
<1> SUFFICES ASSUME LimitInv, NEW t \in allowed
             PROVE  /\ Cardinality(Limits!Within(t) \ lapsed) <= Limits!Most
                    /\ Cardinality(Limits!Within(t) \cap lapsed) <= Cardinality(Handlers)
  BY LimitCardinality DEF Limits!WindowHolds
<1>1. LimitShapes /\ TimeInv /\ t \in Nat /\ t <= clock /\ clock <= MaxClock
  BY DEF LimitInv, LimitShapes, TimeInv
<1>2. CASE window = "sliding"
  <2>1. /\ Limits!Within(t) \ lapsed \subseteq Throughs(t)
        /\ Limits!Within(t) \cap lapsed \subseteq Losses(t)
    BY <1>1, <1>2 DEF Limits!Within, Throughs, Losses, Through, Lost, Span, LimitShapes
  <2>2. /\ Cardinality(Throughs(t)) <= Limit + Cardinality(Handlers) - 1
        /\ Cardinality(Losses(t)) <= Cardinality(Handlers)
    BY <1>1, <1>2 DEF LimitInv, SlidingInv, SpanInv, LossInv
  <2>3. Limits!Most = Limit + Cardinality(Handlers) - 1
    BY <1>2, LimitCardinality DEF Limits!Most
  <2>4. /\ Cardinality(Limits!Within(t) \ lapsed) \in Nat
        /\ Cardinality(Limits!Within(t) \ lapsed) <= Cardinality(Throughs(t))
        /\ Cardinality(Limits!Within(t) \cap lapsed) \in Nat
        /\ Cardinality(Limits!Within(t) \cap lapsed) <= Cardinality(Losses(t))
        /\ Cardinality(Throughs(t)) \in Nat /\ Cardinality(Losses(t)) \in Nat
    BY <1>1, <2>1, SetsFinite, FS_Subset, FS_CardinalityType
  <2>. QED  BY <2>2, <2>3, <2>4, RateBounds, HandlersCount
<1>3. CASE window = "fixed"
  <2> DEFINE w == Limits!Truncated(t)
  <2>1. w \in Limits!Windows
    <3>1. t <= MaxClock
      BY <1>1, RateBounds DEF LimitShapes
    <3>. QED  BY <1>1, <3>1, NeverExpires
  <2>2. CounterInv(w)
    BY <1>3, <2>1 DEF LimitInv, FixedInv
  <2>3. /\ Limits!Within(t) \ lapsed \subseteq CountedIn(w)
        /\ Limits!Within(t) \cap lapsed \subseteq LapsedIn(w)
    BY <1>1, <1>3 DEF Limits!Within, CountedIn, LapsedIn, Counted, InWindow, LimitShapes
  <2> HIDE DEF w
  <2>4. Limits!Most = Limit
    BY <1>3 DEF Limits!Most
  <2>5. /\ Cardinality(Limits!Within(t) \ lapsed) \in Nat
        /\ Cardinality(Limits!Within(t) \ lapsed) <= Cardinality(CountedIn(w))
        /\ Cardinality(Limits!Within(t) \cap lapsed) \in Nat
        /\ Cardinality(Limits!Within(t) \cap lapsed) <= Cardinality(LapsedIn(w))
        /\ Cardinality(CountedIn(w)) \in Nat /\ Cardinality(LapsedIn(w)) \in Nat
        /\ Cardinality(Incrs(w)) \in Nat
    BY <1>1, <2>3, SetsFinite, FS_Subset, FS_CardinalityType
  <2>. QED  BY <2>2, <2>4, <2>5, RateBounds, HandlersCount DEF CounterInv
<1>. QED  BY <1>2, <1>3 DEF LimitInv, LimitShapes

-----------------------------------------------------------------------------
(* The lock whose commands may fail.                                       *)

LEMMA LockSeconds ==
  /\ Lock!WholeSeconds(Expiration) \in Nat
  /\ Second <= Expiration => Lock!WholeSeconds(Expiration) # 0
<1> DEFINE q == Expiration \div Second
<1>1. q \in Nat /\ Second * q <= Expiration /\ Expiration < Second * q + Second
  BY LockBounds
<1> HIDE DEF q
<1>2. q * Second \in Nat /\ Second * q = q * Second
  BY <1>1, LockBounds, Multiples
<1>3. Second <= Expiration => q # 0
  BY <1>1, LockBounds
<1>4. q # 0 => 1 * Second <= q * Second
  BY <1>1, LockBounds, Multiples
<1>. QED  BY <1>1, <1>2, <1>3, <1>4, LockBounds DEF q, Lock!WholeSeconds

LEMMA LockTypesStep == Lock!TypeOK /\ [Lock!Next]_lockPart => Lock!TypeOK'
<1> SUFFICES ASSUME Lock!TypeOK, [Lock!Next]_lockPart PROVE Lock!TypeOK'
  OBVIOUS
<1> USE LockBounds DEF Lock!TypeOK, Lock!redis, Lock!client, Lock!Goto
<1>1. ASSUME NEW c \in Clients, NEW m \in LockModes, Lock!Begin(c, m) PROVE Lock!TypeOK'
  BY <1>1 DEF Lock!Begin
<1>2. ASSUME NEW c \in Clients, Lock!Acquire(c) PROVE Lock!TypeOK'
  BY <1>2 DEF Lock!Acquire, Lock!Take
<1>3. ASSUME NEW c \in Clients, Lock!Refused(c) PROVE Lock!TypeOK'
  BY <1>3 DEF Lock!Refused, Lock!LastTry
<1>4. ASSUME NEW c \in Clients, Lock!GiveUp(c) \/ Lock!Finish(c) PROVE Lock!TypeOK'
  BY <1>4 DEF Lock!GiveUp, Lock!Finish
<1>5. ASSUME NEW c \in Clients, Lock!AcquireFails(c) PROVE Lock!TypeOK'
  BY <1>5 DEF Lock!AcquireFails
<1>6. ASSUME NEW c \in Clients, Lock!Extend(c) PROVE Lock!TypeOK'
  BY <1>6, LockSeconds DEF Lock!Extend, Lock!Refresh, Lock!Expire, Lock!ExtendRefused
<1>7. ASSUME NEW c \in Clients, Lock!ExtendFails(c) PROVE Lock!TypeOK'
  BY <1>7, LockSeconds DEF Lock!ExtendFails, Lock!ExtendErrs, Lock!Expire, Lock!ExtendRefused
<1>8. ASSUME NEW c \in Clients, Lock!Join(c) PROVE Lock!TypeOK'
  BY <1>8 DEF Lock!Join, Lock!Joined
<1>9. ASSUME NEW c \in Clients, Lock!Release(c) PROVE Lock!TypeOK'
  BY <1>9 DEF Lock!Release, Lock!Delete
<1>10. ASSUME NEW c \in Clients, Lock!Crash(c) PROVE Lock!TypeOK'
  BY <1>10 DEF Lock!Crash
<1>11. CASE Lock!Tick
  <2>1. /\ owner' \in Clients \union {Nobody} /\ ttl' \in Nat /\ (owner' = Nobody <=> ttl' = 0)
    BY <1>11 DEF Lock!Tick, Lock!Age
  <2>2. since' \in [Clients -> Nat]
    BY <1>11 DEF Lock!Tick
  <2>. QED  BY <1>11, <2>1, <2>2 DEF Lock!Tick
<1>12. CASE UNCHANGED lockPart
  BY <1>12 DEF lockPart
<1>. QED  BY <1>1, <1>2, <1>3, <1>4, <1>5, <1>6, <1>7, <1>8, <1>9, <1>10, <1>11, <1>12 DEF Lock!Next

LEMMA LockTypesInitially == Lock!Init => Lock!TypeOK
BY LockBounds DEF Lock!Init, Lock!TypeOK

\* One step takes the key from its owner only as NotRobbed says.
LEMMA LockTaken ==
  ASSUME Lock!TypeOK, [Lock!Next]_lockPart, Second <= Expiration, NEW d \in Clients,
         owner = d, owner' # d
  PROVE  \/ lockPc[d] = "releasing" /\ lockPc'[d] = "idle"
         \/ ttl = 1 /\ Lock!client' = Lock!client
<1>1. d # Nobody /\ Lock!WholeSeconds(Expiration) # 0
  BY LockSeconds, LockBounds
<1> USE DEF Lock!redis
<1>2. ASSUME NEW c \in Clients PROVE /\ \A m \in LockModes : ~Lock!Begin(c, m)
                                     /\ ~Lock!Acquire(c) /\ ~Lock!Refused(c) /\ ~Lock!GiveUp(c)
                                     /\ ~Lock!AcquireFails(c) /\ ~Lock!Finish(c) /\ ~Lock!Join(c)
                                     /\ ~Lock!Crash(c)
  BY <1>1 DEF Lock!Begin, Lock!Acquire, Lock!Refused, Lock!GiveUp, Lock!AcquireFails, Lock!Finish,
              Lock!Join, Lock!Joined, Lock!Crash
<1>3. ASSUME NEW c \in Clients PROVE ~Lock!Extend(c) /\ ~Lock!ExtendFails(c)
  BY <1>1 DEF Lock!Extend, Lock!Refresh, Lock!ExtendFails, Lock!Expire
<1>4. ASSUME NEW c \in Clients, Lock!Release(c)
      PROVE  lockPc[d] = "releasing" /\ lockPc'[d] = "idle"
  <2>1. c = d
    BY <1>4 DEF Lock!Release, Lock!Delete
  <2>. QED  BY <1>4, <2>1 DEF Lock!Release, Lock!Goto, Lock!TypeOK
<1>5. CASE Lock!Tick
  <2>1. ttl \in Nat /\ ttl # 0 /\ ~(ttl > 1)
    BY <1>1, <1>5 DEF Lock!Tick, Lock!Age, Lock!TypeOK
  <2>. QED  BY <1>5, <2>1 DEF Lock!Tick
<1>6. ~UNCHANGED lockPart
  BY DEF lockPart
<1>. QED  BY <1>2, <1>3, <1>4, <1>5, <1>6 DEF Lock!Next

-----------------------------------------------------------------------------
(* The types of what these components keep.                                *)

\* A fault counter grows by one below its bound.
LEMMA CounterTyped ==
  ASSUME NEW max \in Nat, NEW n \in 0 .. max, NEW m, m = n \/ (n < max /\ m = n + 1)
  PROVE  m \in 0 .. max
OBVIOUS

\* The pool of proxies.
\* What a requester has taken is of the configuration, and nobody counts beyond the bound.
ProxySizes ==
  /\ strategy \in Strategies /\ pool \in Seq(ProxyURLs)
  /\ revived \subseteq upProxies /\ round \subseteq ProxyURLs
  /\ \A p \in ProxyURLs : good[p] + bad[p] <= MaxReportsOf
  /\ proxyIndex \in (-MaxIndex - 1) .. MaxIndex /\ poolPanic \in BOOLEAN
  /\ edits \in 0 .. MaxEditions
  /\ asks \in [Requesters -> {"idle", "using", "judging"}]
  /\ using \in [Requesters -> ProxyURLs \cup {Pools!NoURL}]
  /\ \A r \in Requesters : asks[r] # "idle" => using[r] \in ProxyURLs
  /\ checkLoop \in {"on", "off"} /\ poolClosed \in BOOLEAN
ProxyTypes == ProxyInv /\ ProxySizes

LEMMA NextIndexTyped ==
  proxyIndex \in (-MaxIndex - 1) .. MaxIndex => Pools!NextIndex \in (-MaxIndex - 1) .. MaxIndex
<1> SUFFICES ASSUME proxyIndex \in (-MaxIndex - 1) .. MaxIndex
             PROVE  Pools!NextIndex \in (-MaxIndex - 1) .. MaxIndex
  OBVIOUS
<1>1. MaxIndex \in Nat
  BY ProxyBounds
<1>. QED  BY <1>1 DEF Pools!NextIndex

LEMMA CandidatesInPool == strategy \in Strategies => Pools!Candidates \subseteq DOMAIN pool
<1> SUFFICES ASSUME strategy \in Strategies PROVE Pools!Candidates \subseteq Pools!Usable
  BY DEF Pools!Usable
<1>1. strategy \in {"random", "best_latency", "least_used", "weighted", "round_robin"}
  BY ProxyBounds
<1>2. Pools!LeastUsed \subseteq Pools!Usable /\ Pools!Weighted \subseteq Pools!Usable
  BY DEF Pools!LeastUsed, Pools!Weighted
<1>. QED  BY <1>1, <1>2 DEF Pools!Candidates

LEMMA TakenTyped ==
  ASSUME ProxyTypes, NEW r \in Requesters, Pools!Get(r) PROVE ProxySizes'
<1>1. /\ UNCHANGED <<strategy, pool, revived, upProxies, round, good, bad, edits, checkLoop,
                     poolClosed>>
      /\ poolPanic' = poolPanic \/ poolPanic' = TRUE
      /\ proxyIndex' \in {proxyIndex, Pools!NextIndex}
  BY DEF Pools!Get, Pools!health, Pools!counts, Pools!checker
<1>2. proxyIndex' \in (-MaxIndex - 1) .. MaxIndex
  BY <1>1, NextIndexTyped DEF ProxyTypes, ProxySizes
<1>3. \/ UNCHANGED <<asks, using>>
      \/ \E i \in DOMAIN pool : /\ using' = [using EXCEPT ![r] = pool[i]]
                                /\ asks' = [asks EXCEPT ![r] = "using"]
  BY CandidatesInPool DEF Pools!Get, Pools!use, ProxyTypes, ProxySizes
<1>4. \A i \in DOMAIN pool : pool[i] \in ProxyURLs
  BY DEF ProxyTypes, ProxySizes
<1>5. /\ asks' \in [Requesters -> {"idle", "using", "judging"}]
      /\ using' \in [Requesters -> ProxyURLs \cup {Pools!NoURL}]
      /\ \A q \in Requesters : asks'[q] # "idle" => using'[q] \in ProxyURLs
  BY <1>3, <1>4 DEF ProxyTypes, ProxySizes
<1>. QED  BY <1>1, <1>2, <1>5 DEF ProxyTypes, ProxySizes

\* The requester gives its proxy back.
LEMMA DoneTyped ==
  ASSUME ProxyTypes, NEW r \in Requesters, Pools!Done(r)
  PROVE  /\ asks' \in [Requesters -> {"idle", "using", "judging"}]
         /\ using' \in [Requesters -> ProxyURLs \cup {Pools!NoURL}]
         /\ \A q \in Requesters : asks'[q] # "idle" => using'[q] \in ProxyURLs
BY DEF Pools!Done, ProxyTypes, ProxySizes

\* One more success or failure of a proxy below the bound.
LEMMA CountTyped ==
  ASSUME NEW g \in [ProxyURLs -> Nat], NEW b \in [ProxyURLs -> Nat], NEW p \in ProxyURLs,
         NEW max \in Nat, \A q \in ProxyURLs : g[q] + b[q] <= max, g[p] + b[p] < max
  PROVE  \A q \in ProxyURLs : /\ [g EXCEPT ![p] = @ + 1][q] + b[q] <= max
                              /\ g[q] + [b EXCEPT ![p] = @ + 1][q] <= max
<1> SUFFICES ASSUME NEW q \in ProxyURLs
             PROVE  /\ [g EXCEPT ![p] = @ + 1][q] + b[q] <= max
                    /\ g[q] + [b EXCEPT ![p] = @ + 1][q] <= max
  OBVIOUS
<1>1. g[q] \in Nat /\ b[q] \in Nat /\ g[q] + b[q] <= max
  OBVIOUS
<1>2. CASE q = p
  <2>1. [g EXCEPT ![p] = @ + 1][q] = g[q] + 1 /\ [b EXCEPT ![p] = @ + 1][q] = b[q] + 1
    BY <1>2
  <2>. QED  BY <1>1, <1>2, <2>1
<1>3. CASE q # p
  <2>1. [g EXCEPT ![p] = @ + 1][q] = g[q] /\ [b EXCEPT ![p] = @ + 1][q] = b[q]
    BY <1>3
  <2>. QED  BY <1>1, <2>1
<1>. QED  BY <1>2, <1>3

LEMMA ReportTyped ==
  ASSUME ProxyTypes, NEW r \in Requesters, Pools!MarkSuccess(r) \/ Pools!CountFailure(r)
  PROVE  ProxySizes'
<1>0. /\ good \in [ProxyURLs -> Nat] /\ bad \in [ProxyURLs -> Nat] /\ MaxReportsOf \in Nat
      /\ using[r] \in ProxyURLs /\ good[using[r]] + bad[using[r]] < MaxReportsOf
  BY ProxyBounds DEF Pools!MarkSuccess, Pools!CountFailure, Pools!Usage, ProxyTypes, ProxyInv,
                     ProxySizes
<1>1. /\ UNCHANGED <<strategy, pool, revived, upProxies, round, edits, checkLoop, poolClosed,
                     poolPanic, proxyIndex>>
      /\ \/ UNCHANGED <<good, bad>>
         \/ good' = [good EXCEPT ![using[r]] = @ + 1] /\ UNCHANGED bad
         \/ bad' = [bad EXCEPT ![using[r]] = @ + 1] /\ UNCHANGED good
  BY DEF Pools!MarkSuccess, Pools!CountFailure, Pools!health, Pools!checker
<1>2. \A p \in ProxyURLs : good'[p] + bad'[p] <= MaxReportsOf
  <2>1. \A p \in ProxyURLs : good[p] + bad[p] <= MaxReportsOf
    BY DEF ProxyTypes, ProxySizes
  <2>2. \A p \in ProxyURLs : /\ [good EXCEPT ![using[r]] = @ + 1][p] + bad[p] <= MaxReportsOf
                             /\ good[p] + [bad EXCEPT ![using[r]] = @ + 1][p] <= MaxReportsOf
    BY <1>0, <2>1, CountTyped
  <2>. QED  BY <1>1, <2>1, <2>2
<1>3. \/ Pools!Done(r)
      \/ UNCHANGED using /\ asks' = [asks EXCEPT ![r] = "judging"]
  BY DEF Pools!MarkSuccess, Pools!CountFailure
<1>4. /\ asks' \in [Requesters -> {"idle", "using", "judging"}]
      /\ using' \in [Requesters -> ProxyURLs \cup {Pools!NoURL}]
      /\ \A q \in Requesters : asks'[q] # "idle" => using'[q] \in ProxyURLs
  BY <1>0, <1>3, DoneTyped DEF ProxyTypes, ProxySizes
<1>. QED  BY <1>1, <1>2, <1>4 DEF ProxyTypes, ProxySizes

LEMMA JudgedTyped ==
  ASSUME ProxyTypes, NEW r \in Requesters, Pools!JudgeFailure(r) PROVE ProxySizes'
<1>1. /\ UNCHANGED <<strategy, pool, round, edits, checkLoop, poolClosed, poolPanic, proxyIndex,
                     good, bad>>
      /\ upProxies \ {using[r]} \subseteq upProxies' /\ revived' = revived \ {using[r]}
      /\ Pools!Done(r)
  BY DEF Pools!JudgeFailure, Pools!counts, Pools!checker
<1>. QED  BY <1>1, DoneTyped DEF ProxyTypes, ProxySizes

LEMMA PoolTyped ==
  ASSUME ProxyTypes,
         \/ Pools!StartRound
         \/ Pools!LoopEnds
         \/ Pools!Close
         \/ \E p \in ProxyURLs : \/ Pools!RemoveProxy(p)
                                 \/ Pools!AddProxy(p)
                                 \/ \E ok \in BOOLEAN : Pools!CheckEnds(p, ok)
  PROVE  ProxySizes'
<1>0. UNCHANGED <<strategy, good, bad, asks, using, poolPanic, proxyIndex>>
  BY DEF Pools!StartRound, Pools!LoopEnds, Pools!Close, Pools!RemoveProxy, Pools!AddProxy,
         Pools!CheckEnds, Pools!use, Pools!counts
<1> SUFFICES ASSUME TRUE
             PROVE  /\ pool' \in Seq(ProxyURLs) /\ revived' \subseteq upProxies'
                    /\ round' \subseteq ProxyURLs /\ edits' \in 0 .. MaxEditions
                    /\ checkLoop' \in {"on", "off"} /\ poolClosed' \in BOOLEAN
  BY <1>0 DEF ProxyTypes, ProxySizes
<1>1. CASE Pools!StartRound \/ Pools!LoopEnds \/ Pools!Close
  <2>1. /\ UNCHANGED <<pool, revived, upProxies, edits>>
        /\ round' \in {round, Pools!Range(pool)} /\ checkLoop' \in {checkLoop, "off"}
        /\ poolClosed' \in {poolClosed, TRUE}
    BY <1>1 DEF Pools!StartRound, Pools!LoopEnds, Pools!Close, Pools!health
  <2>2. Pools!Range(pool) \subseteq ProxyURLs
    BY DEF ProxyTypes, ProxySizes, Pools!Range
  <2>. QED  BY <2>1, <2>2 DEF ProxyTypes, ProxySizes
<1>2. ASSUME NEW p \in ProxyURLs, NEW ok \in BOOLEAN, Pools!CheckEnds(p, ok)
      PROVE  /\ pool' \in Seq(ProxyURLs) /\ revived' \subseteq upProxies'
             /\ round' \subseteq ProxyURLs /\ edits' \in 0 .. MaxEditions
             /\ checkLoop' \in {"on", "off"} /\ poolClosed' \in BOOLEAN
  BY <1>2 DEF Pools!CheckEnds, ProxyTypes, ProxySizes
<1>3. ASSUME NEW p \in ProxyURLs, Pools!RemoveProxy(p) \/ Pools!AddProxy(p)
      PROVE  /\ pool' \in Seq(ProxyURLs) /\ revived' \subseteq upProxies'
             /\ round' \subseteq ProxyURLs /\ edits' \in 0 .. MaxEditions
             /\ checkLoop' \in {"on", "off"} /\ poolClosed' \in BOOLEAN
  <2>1. /\ UNCHANGED <<revived, upProxies, round, checkLoop, poolClosed>>
        /\ edits < MaxEditions /\ edits' = edits + 1
    BY <1>3 DEF Pools!RemoveProxy, Pools!AddProxy, Pools!health, Pools!checker
  <2>2. edits' \in 0 .. MaxEditions
    BY <2>1, CounterTyped, ProxyBounds DEF ProxyTypes, ProxySizes
  <2>3. pool \in Seq(ProxyURLs)
    BY DEF ProxyTypes, ProxySizes
  <2>4. pool' \in Seq(ProxyURLs)
    <3>1. CASE Pools!RemoveProxy(p)
      <4>1. /\ \E i \in DOMAIN pool : pool[i] = p
            /\ pool' = Pools!Without(pool, Pools!IndexOf(pool, p))
        BY <3>1 DEF Pools!RemoveProxy
      <4>2. Pools!IndexOf(pool, p) \in 1 .. Len(pool)
        BY <2>3, <4>1 DEF Pools!IndexOf
      <4>. QED  BY <2>3, <4>1, <4>2, Removed
    <3>2. CASE Pools!AddProxy(p)
      BY <2>3, <3>2 DEF Pools!AddProxy
    <3>. QED  BY <1>3, <3>1, <3>2
  <2>. QED  BY <2>1, <2>2, <2>4 DEF ProxyTypes, ProxySizes
<1>. QED  BY <1>1, <1>2, <1>3

LEMMA ProxyTypesStep == ProxyTypes /\ [Pools!ProxyNext]_proxyPart => ProxyTypes'
<1> SUFFICES ASSUME ProxyTypes, [Pools!ProxyNext]_proxyPart PROVE ProxySizes'
  BY ProxyStep DEF ProxyTypes
<1>1. CASE UNCHANGED proxyPart
  BY <1>1 DEF proxyPart, ProxyTypes, ProxySizes
<1>. QED  BY <1>1, TakenTyped, ReportTyped, JudgedTyped, PoolTyped DEF Pools!ProxyNext, Pools!Request

\* The proxies of the configuration, in some order.
LEMMA ProxiesInOrder == Pools!Listing(ProxyURLs) \in Seq(ProxyURLs)
<1> DEFINE n == Cardinality(ProxyURLs)
<1>1. n \in Nat /\ ExistsBijection(1..n, ProxyURLs)
  BY ProxyBounds, FS_CardinalityType
<1>2. \E f \in [1..n -> ProxyURLs] : Pools!IsInjective(f)
  BY <1>1 DEF ExistsBijection, Bijection, Injection, IsInjective, Pools!IsInjective
<1>3. Pools!Listing(ProxyURLs) = CHOOSE f \in [1..n -> ProxyURLs] : Pools!IsInjective(f)
  BY SameCardinality DEF Pools!Listing
<1>4. Pools!Listing(ProxyURLs) \in [1..n -> ProxyURLs]
  BY <1>2, <1>3
<1>. QED  BY <1>1, <1>4

LEMMA ProxyTypesInitially == Pools!ProxyInit => ProxyTypes
<1> SUFFICES ASSUME Pools!ProxyInit PROVE ProxySizes
  BY ProxyInitially DEF ProxyTypes
<1>1. /\ 0 \in (-MaxIndex - 1) .. MaxIndex /\ 0 \in 0 .. MaxEditions /\ 0 + 0 <= MaxReportsOf
  BY ProxyBounds
<1>. QED  BY <1>1, ProxiesInOrder DEF Pools!ProxyInit, ProxySizes

LEMMA ProxyTypesUse == ProxyTypes => Pools!ProxyTypeOK
<1> SUFFICES ASSUME ProxyTypes PROVE Pools!ProxyTypeOK
  OBVIOUS
<1>1. ASSUME NEW p \in ProxyURLs
      PROVE  good[p] >= 0 /\ bad[p] >= 0 /\ Pools!Usage(p) <= MaxReportsOf
  <2>1. good[p] \in Nat /\ bad[p] \in Nat /\ good[p] + bad[p] <= MaxReportsOf
    BY DEF ProxyTypes, ProxyInv, ProxySizes
  <2>. QED  BY <2>1 DEF Pools!Usage
<1>. QED  BY <1>1 DEF ProxyTypes, ProxyInv, ProxySizes, Pools!ProxyTypeOK

\* The user agents.
AgentSizes ==
  /\ uaStrategy \in AgentStrategies /\ uaCurrent \in (-MaxAgentIndex - 1) .. MaxAgentIndex
  /\ ownWeight \in [Agents -> Weights] /\ unweighted \in BOOLEAN
  /\ uaChosen \in Agents \cup {Pools!NoAgent} /\ uaPanic \in BOOLEAN
AgentTypes == AgentsInv /\ AgentSizes

LEMMA AgentsOfPool == AgentsInv => Pools!Range(userAgents) \subseteq Agents
BY DEF AgentsInv, Pools!Range

LEMMA RoundRobinTyped == ASSUME AgentTypes, Pools!GetRoundRobin PROVE AgentSizes'
<1>1. /\ UNCHANGED <<uaStrategy, ownWeight, unweighted>> /\ uaCurrent' = Pools!NextAgent
      /\ uaPanic' \in BOOLEAN /\ userAgents # <<>>
      /\ uaChosen' \in IF Pools!BadIndex THEN {Pools!NoAgent}
                       ELSE {userAgents[(Pools!NextAgent % Len(userAgents)) + 1]}
  BY DEF Pools!GetRoundRobin, Pools!Choose, Pools!BadIndex
<1>2. Pools!NextAgent \in (-MaxAgentIndex - 1) .. MaxAgentIndex
  <2>1. uaCurrent \in (-MaxAgentIndex - 1) .. MaxAgentIndex /\ MaxAgentIndex \in Nat
    BY AgentBounds DEF AgentTypes, AgentSizes
  <2>. QED  BY <2>1 DEF Pools!NextAgent
<1>3. userAgents \in Seq(Agents) /\ Len(userAgents) \in Nat \ {0}
  BY <1>1 DEF AgentTypes, AgentsInv
<1>4. (Pools!NextAgent % Len(userAgents)) + 1 \in 1 .. Len(userAgents)
  <2>1. Pools!NextAgent \in Int
    BY <1>2, AgentBounds
  <2>2. \A n \in Int, m \in Nat \ {0} : (n % m) + 1 \in 1 .. m
    OBVIOUS
  <2>. QED  BY <1>3, <2>1, <2>2
<1>5. userAgents[(Pools!NextAgent % Len(userAgents)) + 1] \in Agents
  BY <1>3, <1>4
<1>. QED  BY <1>1, <1>2, <1>5 DEF AgentTypes, AgentSizes

LEMMA AgentTypesStep == AgentTypes /\ [Pools!AgentsNext]_agentPart => AgentTypes'
<1> SUFFICES ASSUME AgentTypes, [Pools!AgentsNext]_agentPart PROVE AgentSizes'
  BY AgentsStep DEF AgentTypes
<1>1. CASE UNCHANGED agentPart
  BY <1>1 DEF agentPart, AgentTypes, AgentSizes
<1>2. CASE Pools!GetOther \/ \E mobile \in BOOLEAN : Pools!GetKind(mobile)
  <2>1. /\ UNCHANGED <<uaStrategy, uaCurrent, ownWeight, unweighted, uaPanic>>
        /\ uaChosen' \in Pools!Range(userAgents) \cup {Pools!NoAgent}
    BY <1>2 DEF Pools!GetOther, Pools!GetKind, Pools!Choose
  <2>. QED  BY <2>1, AgentsOfPool DEF AgentTypes, AgentSizes
<1>3. ASSUME NEW a \in Agents, NEW w \in Weights, Pools!Add(a, w) PROVE AgentSizes'
  BY <1>3 DEF Pools!Add, AgentTypes, AgentSizes
<1>4. ASSUME NEW a \in Agents, Pools!RemoveAgent(a) PROVE AgentSizes'
  BY <1>4 DEF Pools!RemoveAgent, AgentTypes, AgentSizes
<1>. QED  BY <1>1, <1>2, <1>3, <1>4, RoundRobinTyped DEF Pools!AgentsNext

\* Each agent of the configuration has a place.
LEMMA ConfiguredHeld ==
  ASSUME NEW a \in Configured
  PROVE  \E i \in DOMAIN Pools!Listing(Configured) : Pools!Listing(Configured)[i] = a
<1> DEFINE n == Cardinality(Configured)
           s == Pools!Listing(Configured)
<1>1. n \in Nat /\ ExistsBijection(1..n, Configured)
  BY AgentBounds, FS_CardinalityType
<1>2. \E f \in [1..n -> Configured] : Pools!IsInjective(f)
  BY <1>1 DEF ExistsBijection, Bijection, Injection, IsInjective, Pools!IsInjective
<1>3. s = CHOOSE f \in [1..n -> Configured] : Pools!IsInjective(f)
  BY SameCardinality DEF Pools!Listing
<1>4. s \in [1..n -> Configured] /\ Pools!IsInjective(s)
  BY <1>2, <1>3
<1> HIDE DEF n, s
<1>5. s \in Injection(1..n, Configured)
  BY <1>4 DEF Injection, IsInjective, Pools!IsInjective
<1>6. IsFiniteSet(1..n) /\ Cardinality(1..n) = Cardinality(Configured)
  BY <1>1, FS_Interval DEF n
<1>7. s \in Surjection(1..n, Configured)
  BY <1>5, <1>6, AgentBounds, FS_Injection
<1>. QED  BY <1>4, <1>7 DEF Surjection, s

LEMMA AgentTypesInitially == Pools!AgentsInit => AgentTypes
<1> SUFFICES ASSUME Pools!AgentsInit PROVE AgentSizes
  BY AgentsInitially DEF AgentTypes
<1>1. 0 \in (-MaxAgentIndex - 1) .. MaxAgentIndex /\ 0 \in Weights
  BY AgentBounds
<1>2. userAgents = Pools!Listing(Configured)
  BY DEF Pools!AgentsInit
<1>3. ASSUME weights \in [DOMAIN userAgents -> Weights \ {0}],
             ownWeight = [a \in Agents |-> IF a \in Configured
                                           THEN weights[Pools!IndexOf(userAgents, a)] ELSE 0]
      PROVE  ownWeight \in [Agents -> Weights]
  <2>1. ASSUME NEW a \in Configured PROVE Pools!IndexOf(userAgents, a) \in DOMAIN userAgents
    <3>1. \E i \in DOMAIN userAgents : userAgents[i] = a
      BY <1>2, ConfiguredHeld
    <3>. QED  BY <3>1 DEF Pools!IndexOf
  <2>2. \A a \in Configured : weights[Pools!IndexOf(userAgents, a)] \in Weights
    BY <1>3, <2>1
  <2>. QED  BY <1>1, <1>3, <2>2
<1>. QED  BY <1>1, <1>3 DEF Pools!AgentsInit, AgentSizes

LEMMA AgentTypesUse == AgentTypes => Pools!AgentsTypeOK
BY DEF AgentTypes, AgentsInv, AgentSizes, Pools!AgentsTypeOK

\* The database clients.
\* What is left of a call of mysql.go that holds no read lock, one, or two.
NoneHeld ==
  {<<>>, <<"close">>, <<"dial">>, <<"forget">>, <<"lock">>, <<"unlock">>, <<"use">>,
   <<"client?", "use">>, <<"lock", "lock">>, <<"lock", "unlock">>, <<"rlock", "runlock">>,
   <<"unlock", "forget">>, <<"use", "close">>, <<"client?", "use", "close">>,
   <<"disconnect", "unlock", "forget">>, <<"unlock", "lock", "lock">>,
   <<"unlock", "lock", "unlock">>, <<"lock", "disconnect", "unlock", "forget">>,
   <<"lock", "unlock", "lock", "lock">>, <<"lock", "unlock", "lock", "unlock">>,
   <<"rlock", "connected?", "runlock", "client?", "use">>,
   <<"unlock", "lock", "unlock", "lock", "unlock">>,
   <<"connect", "unlock", "lock", "unlock", "lock", "unlock">>,
   <<"rlock", "connected?", "runlock", "client?", "use", "close">>,
   <<"lock", "connect", "unlock", "lock", "unlock", "lock", "unlock">>,
   <<"store", "lock", "connect", "unlock", "lock", "unlock", "lock", "unlock">>,
   <<"rlock", "rlock", "runlock", "rlock", "runlock", "rlock", "connected?", "runlock", "client?", "use", "runlock">>}
OneHeld ==
  {<<"runlock">>, <<"use", "runlock">>, <<"client?", "use", "runlock">>,
   <<"runlock", "client?", "use">>, <<"connected?", "runlock", "client?", "use">>,
   <<"runlock", "client?", "use", "close">>,
   <<"connected?", "runlock", "client?", "use", "close">>,
   <<"rlock", "connected?", "runlock", "client?", "use", "runlock">>,
   <<"rlock", "runlock", "rlock", "connected?", "runlock", "client?", "use", "runlock">>,
   <<"rlock", "runlock", "rlock", "runlock", "rlock", "connected?", "runlock", "client?", "use", "runlock">>}
TwoHeld ==
  {<<"runlock", "runlock">>, <<"runlock", "client?", "use", "runlock">>,
   <<"connected?", "runlock", "client?", "use", "runlock">>,
   <<"runlock", "rlock", "connected?", "runlock", "client?", "use", "runlock">>,
   <<"runlock", "rlock", "runlock", "rlock", "connected?", "runlock", "client?", "use", "runlock">>}
Held(n) == IF n = 0 THEN NoneHeld ELSE IF n = 1 THEN OneHeld ELSE TwoHeld

\* The programs of mysql.go that are put together.
LEMMA MysqlCloses ==
  <<"rlock", "connected?", "runlock">> \o <<"client?", "use", "close">>
    = <<"rlock", "connected?", "runlock", "client?", "use", "close">>
<1> DEFINE s == <<"rlock", "connected?", "runlock">>
           t == <<"client?", "use", "close">>
           u == <<"rlock", "connected?", "runlock", "client?", "use", "close">>
<1>1. /\ s \in Seq(DbWords) /\ t \in Seq(DbWords) /\ u \in Seq(DbWords)
      /\ Len(s) = 3 /\ Len(t) = 3 /\ Len(u) = 6
  BY DEF DbWords
<1>2. \A i \in 1..3 : u[i] = s[i]
  OBVIOUS
<1>3. \A i \in 1..3 : u[3 + i] = t[i]
  OBVIOUS
<1> HIDE DEF s, t, u
<1>4. /\ Len(u) = Len(s) + Len(t) /\ \A i \in 1..Len(s) : u[i] = s[i]
      /\ \A i \in 1..Len(t) : u[Len(s) + i] = t[i]
  BY <1>1, <1>2, <1>3
<1>5. s \o t = u
  BY <1>1, <1>4, JoinIs
<1>. QED  BY <1>5 DEF s, t, u

LEMMA MysqlPings ==
  <<"rlock", "connected?", "runlock">> \o <<"client?", "use">>
    = <<"rlock", "connected?", "runlock", "client?", "use">>
<1> DEFINE s == <<"rlock", "connected?", "runlock">>
           t == <<"client?", "use">>
           u == <<"rlock", "connected?", "runlock", "client?", "use">>
<1>1. /\ s \in Seq(DbWords) /\ t \in Seq(DbWords) /\ u \in Seq(DbWords)
      /\ Len(s) = 3 /\ Len(t) = 2 /\ Len(u) = 5
  BY DEF DbWords
<1>2. \A i \in 1..3 : u[i] = s[i]
  OBVIOUS
<1>3. \A i \in 1..2 : u[3 + i] = t[i]
  OBVIOUS
<1> HIDE DEF s, t, u
<1>4. /\ Len(u) = Len(s) + Len(t) /\ \A i \in 1..Len(s) : u[i] = s[i]
      /\ \A i \in 1..Len(t) : u[Len(s) + i] = t[i]
  BY <1>1, <1>2, <1>3
<1>5. s \o t = u
  BY <1>1, <1>4, JoinIs
<1>. QED  BY <1>5 DEF s, t, u

LEMMA MysqlStatsOpens ==
  <<"rlock">> \o <<"rlock", "runlock">>
    = <<"rlock", "rlock", "runlock">>
<1> DEFINE s == <<"rlock">>
           t == <<"rlock", "runlock">>
           u == <<"rlock", "rlock", "runlock">>
<1>1. /\ s \in Seq(DbWords) /\ t \in Seq(DbWords) /\ u \in Seq(DbWords)
      /\ Len(s) = 1 /\ Len(t) = 2 /\ Len(u) = 3
  BY DEF DbWords
<1>2. \A i \in 1..1 : u[i] = s[i]
  OBVIOUS
<1>3. \A i \in 1..2 : u[1 + i] = t[i]
  OBVIOUS
<1> HIDE DEF s, t, u
<1>4. /\ Len(u) = Len(s) + Len(t) /\ \A i \in 1..Len(s) : u[i] = s[i]
      /\ \A i \in 1..Len(t) : u[Len(s) + i] = t[i]
  BY <1>1, <1>2, <1>3
<1>5. s \o t = u
  BY <1>1, <1>4, JoinIs
<1>. QED  BY <1>5 DEF s, t, u

LEMMA MysqlStatsReads ==
  <<"rlock", "rlock", "runlock">> \o <<"rlock", "runlock">>
    = <<"rlock", "rlock", "runlock", "rlock", "runlock">>
<1> DEFINE s == <<"rlock", "rlock", "runlock">>
           t == <<"rlock", "runlock">>
           u == <<"rlock", "rlock", "runlock", "rlock", "runlock">>
<1>1. /\ s \in Seq(DbWords) /\ t \in Seq(DbWords) /\ u \in Seq(DbWords)
      /\ Len(s) = 3 /\ Len(t) = 2 /\ Len(u) = 5
  BY DEF DbWords
<1>2. \A i \in 1..3 : u[i] = s[i]
  OBVIOUS
<1>3. \A i \in 1..2 : u[3 + i] = t[i]
  OBVIOUS
<1> HIDE DEF s, t, u
<1>4. /\ Len(u) = Len(s) + Len(t) /\ \A i \in 1..Len(s) : u[i] = s[i]
      /\ \A i \in 1..Len(t) : u[Len(s) + i] = t[i]
  BY <1>1, <1>2, <1>3
<1>5. s \o t = u
  BY <1>1, <1>4, JoinIs
<1>. QED  BY <1>5 DEF s, t, u

LEMMA MysqlStatsLooks ==
  <<"rlock", "rlock", "runlock", "rlock", "runlock">> \o <<"rlock", "connected?", "runlock">>
    = <<"rlock", "rlock", "runlock", "rlock", "runlock", "rlock", "connected?", "runlock">>
<1> DEFINE s == <<"rlock", "rlock", "runlock", "rlock", "runlock">>
           t == <<"rlock", "connected?", "runlock">>
           u == <<"rlock", "rlock", "runlock", "rlock", "runlock", "rlock", "connected?", "runlock">>
<1>1. /\ s \in Seq(DbWords) /\ t \in Seq(DbWords) /\ u \in Seq(DbWords)
      /\ Len(s) = 5 /\ Len(t) = 3 /\ Len(u) = 8
  BY DEF DbWords
<1>2. \A i \in 1..5 : u[i] = s[i]
  OBVIOUS
<1>3. \A i \in 1..3 : u[5 + i] = t[i]
  OBVIOUS
<1> HIDE DEF s, t, u
<1>4. /\ Len(u) = Len(s) + Len(t) /\ \A i \in 1..Len(s) : u[i] = s[i]
      /\ \A i \in 1..Len(t) : u[Len(s) + i] = t[i]
  BY <1>1, <1>2, <1>3
<1>5. s \o t = u
  BY <1>1, <1>4, JoinIs
<1>. QED  BY <1>5 DEF s, t, u

LEMMA MysqlStatsUses ==
  <<"rlock", "rlock", "runlock", "rlock", "runlock", "rlock", "connected?", "runlock">> \o <<"client?", "use", "runlock">>
    = <<"rlock", "rlock", "runlock", "rlock", "runlock", "rlock", "connected?", "runlock", "client?", "use", "runlock">>
<1> DEFINE s == <<"rlock", "rlock", "runlock", "rlock", "runlock", "rlock", "connected?", "runlock">>
           t == <<"client?", "use", "runlock">>
           u == <<"rlock", "rlock", "runlock", "rlock", "runlock", "rlock", "connected?", "runlock", "client?", "use", "runlock">>
<1>1. /\ s \in Seq(DbWords) /\ t \in Seq(DbWords) /\ u \in Seq(DbWords)
      /\ Len(s) = 8 /\ Len(t) = 3 /\ Len(u) = 11
  BY DEF DbWords
<1>2. \A i \in 1..8 : u[i] = s[i]
  OBVIOUS
<1>3. \A i \in 1..3 : u[8 + i] = t[i]
  OBVIOUS
<1> HIDE DEF s, t, u
<1>4. /\ Len(u) = Len(s) + Len(t) /\ \A i \in 1..Len(s) : u[i] = s[i]
      /\ \A i \in 1..Len(t) : u[Len(s) + i] = t[i]
  BY <1>1, <1>2, <1>3
<1>5. s \o t = u
  BY <1>1, <1>4, JoinIs
<1>. QED  BY <1>5 DEF s, t, u

LEMMA MysqlNotes ==
  <<"lock", "unlock">> \o <<"lock", "lock">>
    = <<"lock", "unlock", "lock", "lock">>
<1> DEFINE s == <<"lock", "unlock">>
           t == <<"lock", "lock">>
           u == <<"lock", "unlock", "lock", "lock">>
<1>1. /\ s \in Seq(DbWords) /\ t \in Seq(DbWords) /\ u \in Seq(DbWords)
      /\ Len(s) = 2 /\ Len(t) = 2 /\ Len(u) = 4
  BY DEF DbWords
<1>2. \A i \in 1..2 : u[i] = s[i]
  OBVIOUS
<1>3. \A i \in 1..2 : u[2 + i] = t[i]
  OBVIOUS
<1> HIDE DEF s, t, u
<1>4. /\ Len(u) = Len(s) + Len(t) /\ \A i \in 1..Len(s) : u[i] = s[i]
      /\ \A i \in 1..Len(t) : u[Len(s) + i] = t[i]
  BY <1>1, <1>2, <1>3
<1>5. s \o t = u
  BY <1>1, <1>4, JoinIs
<1>. QED  BY <1>5 DEF s, t, u

LEMMA FromNoneHeld ==
  ASSUME NEW s \in NoneHeld, s # << >>
  PROVE  /\ Head(s) = "rlock" => Tail(s) \in OneHeld
         /\ Head(s) # "runlock"
         /\ Head(s) \notin {"rlock", "runlock"} => Tail(s) \in NoneHeld
<1>1. CASE s = <<"close">>
  <2>1. Head(s) = "close" /\ Tail(s) = <<>>
    BY <1>1
  <2>2. <<>> \in NoneHeld
    BY DEF NoneHeld
  <2>. QED  BY <2>1, <2>2
<1>2. CASE s = <<"dial">>
  <2>1. Head(s) = "dial" /\ Tail(s) = <<>>
    BY <1>2
  <2>2. <<>> \in NoneHeld
    BY DEF NoneHeld
  <2>. QED  BY <2>1, <2>2
<1>3. CASE s = <<"forget">>
  <2>1. Head(s) = "forget" /\ Tail(s) = <<>>
    BY <1>3
  <2>2. <<>> \in NoneHeld
    BY DEF NoneHeld
  <2>. QED  BY <2>1, <2>2
<1>4. CASE s = <<"lock">>
  <2>1. Head(s) = "lock" /\ Tail(s) = <<>>
    BY <1>4
  <2>2. <<>> \in NoneHeld
    BY DEF NoneHeld
  <2>. QED  BY <2>1, <2>2
<1>5. CASE s = <<"unlock">>
  <2>1. Head(s) = "unlock" /\ Tail(s) = <<>>
    BY <1>5
  <2>2. <<>> \in NoneHeld
    BY DEF NoneHeld
  <2>. QED  BY <2>1, <2>2
<1>6. CASE s = <<"use">>
  <2>1. Head(s) = "use" /\ Tail(s) = <<>>
    BY <1>6
  <2>2. <<>> \in NoneHeld
    BY DEF NoneHeld
  <2>. QED  BY <2>1, <2>2
<1>7. CASE s = <<"client?", "use">>
  <2>1. Head(s) = "client?" /\ Tail(s) = <<"use">>
    BY <1>7
  <2>2. <<"use">> \in NoneHeld
    BY DEF NoneHeld
  <2>. QED  BY <2>1, <2>2
<1>8. CASE s = <<"lock", "lock">>
  <2>1. Head(s) = "lock" /\ Tail(s) = <<"lock">>
    BY <1>8
  <2>2. <<"lock">> \in NoneHeld
    BY DEF NoneHeld
  <2>. QED  BY <2>1, <2>2
<1>9. CASE s = <<"lock", "unlock">>
  <2>1. Head(s) = "lock" /\ Tail(s) = <<"unlock">>
    BY <1>9
  <2>2. <<"unlock">> \in NoneHeld
    BY DEF NoneHeld
  <2>. QED  BY <2>1, <2>2
<1>10. CASE s = <<"rlock", "runlock">>
  <2>1. Head(s) = "rlock" /\ Tail(s) = <<"runlock">>
    BY <1>10
  <2>2. <<"runlock">> \in OneHeld
    BY DEF OneHeld
  <2>. QED  BY <2>1, <2>2
<1>11. CASE s = <<"unlock", "forget">>
  <2>1. Head(s) = "unlock" /\ Tail(s) = <<"forget">>
    BY <1>11
  <2>2. <<"forget">> \in NoneHeld
    BY DEF NoneHeld
  <2>. QED  BY <2>1, <2>2
<1>12. CASE s = <<"use", "close">>
  <2>1. Head(s) = "use" /\ Tail(s) = <<"close">>
    BY <1>12
  <2>2. <<"close">> \in NoneHeld
    BY DEF NoneHeld
  <2>. QED  BY <2>1, <2>2
<1>13. CASE s = <<"client?", "use", "close">>
  <2>1. Head(s) = "client?" /\ Tail(s) = <<"use", "close">>
    BY <1>13
  <2>2. <<"use", "close">> \in NoneHeld
    BY DEF NoneHeld
  <2>. QED  BY <2>1, <2>2
<1>14. CASE s = <<"disconnect", "unlock", "forget">>
  <2>1. Head(s) = "disconnect" /\ Tail(s) = <<"unlock", "forget">>
    BY <1>14
  <2>2. <<"unlock", "forget">> \in NoneHeld
    BY DEF NoneHeld
  <2>. QED  BY <2>1, <2>2
<1>15. CASE s = <<"unlock", "lock", "lock">>
  <2>1. Head(s) = "unlock" /\ Tail(s) = <<"lock", "lock">>
    BY <1>15
  <2>2. <<"lock", "lock">> \in NoneHeld
    BY DEF NoneHeld
  <2>. QED  BY <2>1, <2>2
<1>16. CASE s = <<"unlock", "lock", "unlock">>
  <2>1. Head(s) = "unlock" /\ Tail(s) = <<"lock", "unlock">>
    BY <1>16
  <2>2. <<"lock", "unlock">> \in NoneHeld
    BY DEF NoneHeld
  <2>. QED  BY <2>1, <2>2
<1>17. CASE s = <<"lock", "disconnect", "unlock", "forget">>
  <2>1. Head(s) = "lock" /\ Tail(s) = <<"disconnect", "unlock", "forget">>
    BY <1>17
  <2>2. <<"disconnect", "unlock", "forget">> \in NoneHeld
    BY DEF NoneHeld
  <2>. QED  BY <2>1, <2>2
<1>18. CASE s = <<"lock", "unlock", "lock", "lock">>
  <2>1. Head(s) = "lock" /\ Tail(s) = <<"unlock", "lock", "lock">>
    BY <1>18
  <2>2. <<"unlock", "lock", "lock">> \in NoneHeld
    BY DEF NoneHeld
  <2>. QED  BY <2>1, <2>2
<1>19. CASE s = <<"lock", "unlock", "lock", "unlock">>
  <2>1. Head(s) = "lock" /\ Tail(s) = <<"unlock", "lock", "unlock">>
    BY <1>19
  <2>2. <<"unlock", "lock", "unlock">> \in NoneHeld
    BY DEF NoneHeld
  <2>. QED  BY <2>1, <2>2
<1>20. CASE s = <<"rlock", "connected?", "runlock", "client?", "use">>
  <2>1. Head(s) = "rlock" /\ Tail(s) = <<"connected?", "runlock", "client?", "use">>
    BY <1>20
  <2>2. <<"connected?", "runlock", "client?", "use">> \in OneHeld
    BY DEF OneHeld
  <2>. QED  BY <2>1, <2>2
<1>21. CASE s = <<"unlock", "lock", "unlock", "lock", "unlock">>
  <2>1. Head(s) = "unlock" /\ Tail(s) = <<"lock", "unlock", "lock", "unlock">>
    BY <1>21
  <2>2. <<"lock", "unlock", "lock", "unlock">> \in NoneHeld
    BY DEF NoneHeld
  <2>. QED  BY <2>1, <2>2
<1>22. CASE s = <<"connect", "unlock", "lock", "unlock", "lock", "unlock">>
  <2>1. Head(s) = "connect" /\ Tail(s) = <<"unlock", "lock", "unlock", "lock", "unlock">>
    BY <1>22
  <2>2. <<"unlock", "lock", "unlock", "lock", "unlock">> \in NoneHeld
    BY DEF NoneHeld
  <2>. QED  BY <2>1, <2>2
<1>23. CASE s = <<"rlock", "connected?", "runlock", "client?", "use", "close">>
  <2>1. Head(s) = "rlock" /\ Tail(s) = <<"connected?", "runlock", "client?", "use", "close">>
    BY <1>23
  <2>2. <<"connected?", "runlock", "client?", "use", "close">> \in OneHeld
    BY DEF OneHeld
  <2>. QED  BY <2>1, <2>2
<1>24. CASE s = <<"lock", "connect", "unlock", "lock", "unlock", "lock", "unlock">>
  <2>1. Head(s) = "lock" /\ Tail(s) = <<"connect", "unlock", "lock", "unlock", "lock", "unlock">>
    BY <1>24
  <2>2. <<"connect", "unlock", "lock", "unlock", "lock", "unlock">> \in NoneHeld
    BY DEF NoneHeld
  <2>. QED  BY <2>1, <2>2
<1>25. CASE s = <<"store", "lock", "connect", "unlock", "lock", "unlock", "lock", "unlock">>
  <2>1. Head(s) = "store"
          /\ Tail(s) = <<"lock", "connect", "unlock", "lock", "unlock", "lock", "unlock">>
    BY <1>25
  <2>2. <<"lock", "connect", "unlock", "lock", "unlock", "lock", "unlock">> \in NoneHeld
    BY DEF NoneHeld
  <2>. QED  BY <2>1, <2>2
<1>26. CASE s = <<"rlock", "rlock", "runlock", "rlock", "runlock", "rlock", "connected?", "runlock", "client?", "use", "runlock">>
  <2>1. Head(s) = "rlock"
          /\ Tail(s) = <<"rlock", "runlock", "rlock", "runlock", "rlock", "connected?", "runlock", "client?", "use", "runlock">>
    BY <1>26
  <2>2. <<"rlock", "runlock", "rlock", "runlock", "rlock", "connected?", "runlock", "client?", "use", "runlock">> \in OneHeld
    BY DEF OneHeld
  <2>. QED  BY <2>1, <2>2
<1>. QED  BY <1>1, <1>2, <1>3, <1>4, <1>5, <1>6, <1>7, <1>8, <1>9, <1>10, <1>11, <1>12, <1>13, <1>14, <1>15, <1>16, <1>17, <1>18, <1>19, <1>20, <1>21, <1>22, <1>23, <1>24, <1>25, <1>26 DEF NoneHeld

LEMMA FromOneHeld ==
  ASSUME NEW s \in OneHeld, s # << >>
  PROVE  /\ Head(s) = "rlock" => Tail(s) \in TwoHeld
         /\ Head(s) = "runlock" => Tail(s) \in NoneHeld
         /\ Head(s) \notin {"rlock", "runlock"} => Tail(s) \in OneHeld
<1>1. CASE s = <<"runlock">>
  <2>1. Head(s) = "runlock" /\ Tail(s) = <<>>
    BY <1>1
  <2>2. <<>> \in NoneHeld
    BY DEF NoneHeld
  <2>. QED  BY <2>1, <2>2
<1>2. CASE s = <<"use", "runlock">>
  <2>1. Head(s) = "use" /\ Tail(s) = <<"runlock">>
    BY <1>2
  <2>2. <<"runlock">> \in OneHeld
    BY DEF OneHeld
  <2>. QED  BY <2>1, <2>2
<1>3. CASE s = <<"client?", "use", "runlock">>
  <2>1. Head(s) = "client?" /\ Tail(s) = <<"use", "runlock">>
    BY <1>3
  <2>2. <<"use", "runlock">> \in OneHeld
    BY DEF OneHeld
  <2>. QED  BY <2>1, <2>2
<1>4. CASE s = <<"runlock", "client?", "use">>
  <2>1. Head(s) = "runlock" /\ Tail(s) = <<"client?", "use">>
    BY <1>4
  <2>2. <<"client?", "use">> \in NoneHeld
    BY DEF NoneHeld
  <2>. QED  BY <2>1, <2>2
<1>5. CASE s = <<"connected?", "runlock", "client?", "use">>
  <2>1. Head(s) = "connected?" /\ Tail(s) = <<"runlock", "client?", "use">>
    BY <1>5
  <2>2. <<"runlock", "client?", "use">> \in OneHeld
    BY DEF OneHeld
  <2>. QED  BY <2>1, <2>2
<1>6. CASE s = <<"runlock", "client?", "use", "close">>
  <2>1. Head(s) = "runlock" /\ Tail(s) = <<"client?", "use", "close">>
    BY <1>6
  <2>2. <<"client?", "use", "close">> \in NoneHeld
    BY DEF NoneHeld
  <2>. QED  BY <2>1, <2>2
<1>7. CASE s = <<"connected?", "runlock", "client?", "use", "close">>
  <2>1. Head(s) = "connected?" /\ Tail(s) = <<"runlock", "client?", "use", "close">>
    BY <1>7
  <2>2. <<"runlock", "client?", "use", "close">> \in OneHeld
    BY DEF OneHeld
  <2>. QED  BY <2>1, <2>2
<1>8. CASE s = <<"rlock", "connected?", "runlock", "client?", "use", "runlock">>
  <2>1. Head(s) = "rlock" /\ Tail(s) = <<"connected?", "runlock", "client?", "use", "runlock">>
    BY <1>8
  <2>2. <<"connected?", "runlock", "client?", "use", "runlock">> \in TwoHeld
    BY DEF TwoHeld
  <2>. QED  BY <2>1, <2>2
<1>9. CASE s = <<"rlock", "runlock", "rlock", "connected?", "runlock", "client?", "use", "runlock">>
  <2>1. Head(s) = "rlock"
          /\ Tail(s) = <<"runlock", "rlock", "connected?", "runlock", "client?", "use", "runlock">>
    BY <1>9
  <2>2. <<"runlock", "rlock", "connected?", "runlock", "client?", "use", "runlock">> \in TwoHeld
    BY DEF TwoHeld
  <2>. QED  BY <2>1, <2>2
<1>10. CASE s = <<"rlock", "runlock", "rlock", "runlock", "rlock", "connected?", "runlock", "client?", "use", "runlock">>
  <2>1. Head(s) = "rlock"
          /\ Tail(s) = <<"runlock", "rlock", "runlock", "rlock", "connected?", "runlock", "client?", "use", "runlock">>
    BY <1>10
  <2>2. <<"runlock", "rlock", "runlock", "rlock", "connected?", "runlock", "client?", "use", "runlock">> \in TwoHeld
    BY DEF TwoHeld
  <2>. QED  BY <2>1, <2>2
<1>. QED  BY <1>1, <1>2, <1>3, <1>4, <1>5, <1>6, <1>7, <1>8, <1>9, <1>10 DEF OneHeld

LEMMA FromTwoHeld ==
  ASSUME NEW s \in TwoHeld, s # << >>
  PROVE  /\ Head(s) # "rlock"
         /\ Head(s) = "runlock" => Tail(s) \in OneHeld
         /\ Head(s) \notin {"rlock", "runlock"} => Tail(s) \in TwoHeld
<1>1. CASE s = <<"runlock", "runlock">>
  <2>1. Head(s) = "runlock" /\ Tail(s) = <<"runlock">>
    BY <1>1
  <2>2. <<"runlock">> \in OneHeld
    BY DEF OneHeld
  <2>. QED  BY <2>1, <2>2
<1>2. CASE s = <<"runlock", "client?", "use", "runlock">>
  <2>1. Head(s) = "runlock" /\ Tail(s) = <<"client?", "use", "runlock">>
    BY <1>2
  <2>2. <<"client?", "use", "runlock">> \in OneHeld
    BY DEF OneHeld
  <2>. QED  BY <2>1, <2>2
<1>3. CASE s = <<"connected?", "runlock", "client?", "use", "runlock">>
  <2>1. Head(s) = "connected?" /\ Tail(s) = <<"runlock", "client?", "use", "runlock">>
    BY <1>3
  <2>2. <<"runlock", "client?", "use", "runlock">> \in TwoHeld
    BY DEF TwoHeld
  <2>. QED  BY <2>1, <2>2
<1>4. CASE s = <<"runlock", "rlock", "connected?", "runlock", "client?", "use", "runlock">>
  <2>1. Head(s) = "runlock"
          /\ Tail(s) = <<"rlock", "connected?", "runlock", "client?", "use", "runlock">>
    BY <1>4
  <2>2. <<"rlock", "connected?", "runlock", "client?", "use", "runlock">> \in OneHeld
    BY DEF OneHeld
  <2>. QED  BY <2>1, <2>2
<1>5. CASE s = <<"runlock", "rlock", "runlock", "rlock", "connected?", "runlock", "client?", "use", "runlock">>
  <2>1. Head(s) = "runlock"
          /\ Tail(s) = <<"rlock", "runlock", "rlock", "connected?", "runlock", "client?", "use", "runlock">>
    BY <1>5
  <2>2. <<"rlock", "runlock", "rlock", "connected?", "runlock", "client?", "use", "runlock">> \in OneHeld
    BY DEF OneHeld
  <2>. QED  BY <2>1, <2>2
<1>. QED  BY <1>1, <1>2, <1>3, <1>4, <1>5 DEF TwoHeld

\* A client is dialled and closed outside of every read lock.
LEMMA DialAndCloseBare ==
  ASSUME NEW s \in OneHeld \cup TwoHeld
  PROVE  Head(s) \notin {"dial", "close"}
<1>1. CASE s = <<"connected?", "runlock", "client?", "use", "close">>
  <2>1. Head(s) = "connected?"
    BY <1>1
  <2>. QED  BY <2>1
<1>2. CASE s = <<"runlock", "client?", "use", "close">>
  <2>1. Head(s) = "runlock"
    BY <1>2
  <2>. QED  BY <2>1
<1>3. CASE s = <<"connected?", "runlock", "client?", "use">>
  <2>1. Head(s) = "connected?"
    BY <1>3
  <2>. QED  BY <2>1
<1>4. CASE s = <<"runlock", "client?", "use">>
  <2>1. Head(s) = "runlock"
    BY <1>4
  <2>. QED  BY <2>1
<1>5. CASE s = <<"rlock", "runlock", "rlock", "runlock", "rlock", "connected?", "runlock", "client?", "use", "runlock">>
  <2>1. Head(s) = "rlock"
    BY <1>5
  <2>. QED  BY <2>1
<1>6. CASE s = <<"rlock", "runlock", "rlock", "connected?", "runlock", "client?", "use", "runlock">>
  <2>1. Head(s) = "rlock"
    BY <1>6
  <2>. QED  BY <2>1
<1>7. CASE s = <<"rlock", "connected?", "runlock", "client?", "use", "runlock">>
  <2>1. Head(s) = "rlock"
    BY <1>7
  <2>. QED  BY <2>1
<1>8. CASE s = <<"client?", "use", "runlock">>
  <2>1. Head(s) = "client?"
    BY <1>8
  <2>. QED  BY <2>1
<1>9. CASE s = <<"use", "runlock">>
  <2>1. Head(s) = "use"
    BY <1>9
  <2>. QED  BY <2>1
<1>10. CASE s = <<"runlock">>
  <2>1. Head(s) = "runlock"
    BY <1>10
  <2>. QED  BY <2>1
<1>11. CASE s = <<"runlock", "rlock", "runlock", "rlock", "connected?", "runlock", "client?", "use", "runlock">>
  <2>1. Head(s) = "runlock"
    BY <1>11
  <2>. QED  BY <2>1
<1>12. CASE s = <<"runlock", "rlock", "connected?", "runlock", "client?", "use", "runlock">>
  <2>1. Head(s) = "runlock"
    BY <1>12
  <2>. QED  BY <2>1
<1>13. CASE s = <<"connected?", "runlock", "client?", "use", "runlock">>
  <2>1. Head(s) = "connected?"
    BY <1>13
  <2>. QED  BY <2>1
<1>14. CASE s = <<"runlock", "client?", "use", "runlock">>
  <2>1. Head(s) = "runlock"
    BY <1>14
  <2>. QED  BY <2>1
<1>15. CASE s = <<"runlock", "runlock">>
  <2>1. Head(s) = "runlock"
    BY <1>15
  <2>. QED  BY <2>1
<1>. QED  BY <1>1, <1>2, <1>3, <1>4, <1>5, <1>6, <1>7, <1>8, <1>9, <1>10, <1>11, <1>12, <1>13, <1>14, <1>15 DEF OneHeld, TwoHeld

LEMMA FromHeld ==
  ASSUME NEW n \in 0 .. 2, NEW s \in Held(n), s # << >>
  PROVE  /\ Head(s) = "rlock" => n < 2 /\ Tail(s) \in Held(n + 1)
         /\ Head(s) = "runlock" => n > 0 /\ Tail(s) \in Held(n - 1)
         /\ Head(s) \notin {"rlock", "runlock"} => Tail(s) \in Held(n)
<1>1. CASE n = 0
  <2>1. Held(n) = NoneHeld /\ Held(n + 1) = OneHeld
    BY <1>1 DEF Held
  <2>. QED  BY <1>1, <2>1, FromNoneHeld
<1>2. CASE n = 1
  <2>1. Held(n) = OneHeld /\ Held(n + 1) = TwoHeld /\ Held(n - 1) = NoneHeld
    BY <1>2 DEF Held
  <2>. QED  BY <1>2, <2>1, FromOneHeld
<1>3. CASE n = 2
  <2>1. Held(n) = TwoHeld /\ Held(n - 1) = OneHeld
    BY <1>3 DEF Held
  <2>. QED  BY <1>3, <2>1, FromTwoHeld
<1>. QED  BY <1>1, <1>2, <1>3

LEMMA MysqlPrograms ==
  ASSUME dbKind = "mysql"
  PROVE  /\ \A call \in DbCalls : Db!Program(call) \in NoneHeld
         /\ Db!DialSucceeds \in NoneHeld /\ Db!DialFails \in NoneHeld
         /\ Db!CloseSucceeds \in NoneHeld /\ Db!CloseFails \in NoneHeld
<1>1. Db!NoteError = <<"lock", "unlock", "lock", "lock">>
  BY MysqlNotes DEF Db!NoteError, Db!CountError, Db!Set
<1>2. Db!StatsProgram
        = <<"rlock", "rlock", "runlock", "rlock", "runlock", "rlock", "connected?", "runlock",
            "client?", "use", "runlock">>
  BY MysqlStatsOpens, MysqlStatsReads, MysqlStatsLooks, MysqlStatsUses
     DEF Db!StatsProgram, Db!Read, Db!IsConnected
<1>3. Db!DialSucceeds
        = <<"store", "lock", "connect", "unlock", "lock", "unlock", "lock", "unlock">>
  BY OneSetter, TwoSetters DEF Db!DialSucceeds, Db!Set
<1>4. /\ Db!DialFails = Db!NoteError /\ Db!CloseFails = Db!NoteError
      /\ Db!CloseSucceeds = <<"lock", "disconnect", "unlock", "forget">>
  BY DEF Db!DialFails, Db!CloseFails, Db!CloseSucceeds
<1>5. ASSUME NEW call \in DbCalls PROVE Db!Program(call) \in NoneHeld
  <2>1. call \in {"Connect", "Disconnect", "HealthCheck", "Stats", "GetClient",
                  "IncrementQueryCount"}
    BY DbBounds
  <2>2. CASE call = "Connect"
    <3>1. Db!Program(call) = <<"dial">>
      BY <2>2 DEF Db!Program
    <3>. QED  BY <3>1 DEF NoneHeld
  <2>3. CASE call = "Disconnect"
    <3>1. Db!Program(call) = <<"rlock", "connected?", "runlock", "client?", "use", "close">>
      BY <2>3, MysqlCloses DEF Db!Program, Db!IsConnected
    <3>. QED  BY <3>1 DEF NoneHeld
  <2>4. CASE call = "HealthCheck"
    <3>1. Db!Program(call) = <<"rlock", "connected?", "runlock", "client?", "use">>
      BY <2>4, MysqlPings DEF Db!Program, Db!IsConnected
    <3>. QED  BY <3>1 DEF NoneHeld
  <2>5. CASE call = "Stats"
    <3>1. Db!Program(call) = Db!StatsProgram
      BY <2>5 DEF Db!Program
    <3>. QED  BY <1>2, <3>1 DEF NoneHeld
  <2>6. CASE call = "GetClient"
    <3>1. Db!Program(call) = <<"rlock", "runlock">>
      BY <2>6 DEF Db!Program, Db!Read
    <3>. QED  BY <3>1 DEF NoneHeld
  <2>7. CASE call = "IncrementQueryCount"
    <3>1. Db!Program(call) = <<"lock", "lock">>
      BY <2>7 DEF Db!Program, Db!CountQuery
    <3>. QED  BY <3>1 DEF NoneHeld
  <2>. QED  BY <2>1, <2>2, <2>3, <2>4, <2>5, <2>6, <2>7
<1>6. Db!NoteError \in NoneHeld /\ Db!DialSucceeds \in NoneHeld /\ Db!CloseSucceeds \in NoneHeld
  BY <1>1, <1>3, <1>4 DEF NoneHeld
<1>. QED  BY <1>4, <1>5, <1>6

\* In mysql.go a caller holds as many read locks as what it has left unlocks; whoever is inside
\* holds none, and nobody else does.
MysqlAt(c) == readers[c] \in 0 .. 2 /\ steps[c] \in Held(readers[c])
DbSizes ==
  /\ dbCall \in [DbCallers -> DbCalls \cup {Db!None}]
  /\ announced \in DbCallers \cup {Db!None}
  /\ inside => announced \in DbCallers /\ \A c \in DbCallers : readers[c] = 0
  /\ dbKind = "mysql" => \A c \in DbCallers : MysqlAt(c)
  /\ readers \in [DbCallers -> 0 .. 2]
  /\ dbPanic \subseteq DbCallers /\ dbCallsMade \in 0 .. MaxDbCalls /\ dbFaults \in 0 .. MaxDbFaults
DbTypesInv == DbInv /\ DbSizes

\* The defers of a call of mysql.go that returns early.
LEMMA MysqlReturns ==
  ASSUME DbTypesInv, dbKind = "mysql", NEW c \in DbCallers
  PROVE  Db!Unlocks(c) \in Held(readers[c])
<1>1. readers[c] \in 0 .. 2 /\ (inside => readers[c] = 0)
  BY DEF DbTypesInv, DbSizes, MysqlAt
<1>2. CASE inside /\ announced = c
  <2>1. Db!Unlocks(c) = <<"unlock">>
    BY <1>2 DEF Db!Unlocks
  <2>2. readers[c] = 0
    BY <1>1, <1>2
  <2>. QED  BY <2>1, <2>2 DEF Held, NoneHeld
<1>3. CASE ~(inside /\ announced = c)
  <2>1. Db!Unlocks(c) = [i \in 1..readers[c] |-> "runlock"]
    BY <1>3 DEF Db!Unlocks
  <2>2. CASE readers[c] = 0
    <3>1. [i \in 1..0 |-> "runlock"] = << >>
      OBVIOUS
    <3>2. << >> \in NoneHeld
      BY DEF NoneHeld
    <3>. QED  BY <2>1, <2>2, <3>1, <3>2 DEF Held
  <2>3. CASE readers[c] = 1
    <3>1. [i \in 1..1 |-> "runlock"] = <<"runlock">>
      OBVIOUS
    <3>2. <<"runlock">> \in OneHeld
      BY DEF OneHeld
    <3>. QED  BY <2>1, <2>3, <3>1, <3>2 DEF Held
  <2>4. CASE readers[c] = 2
    <3>1. [i \in 1..2 |-> "runlock"] = <<"runlock", "runlock">>
      OBVIOUS
    <3>2. <<"runlock", "runlock">> \in TwoHeld
      BY DEF TwoHeld
    <3>. QED  BY <2>1, <2>4, <3>1, <3>2 DEF Held
  <2>. QED  BY <1>1, <2>2, <2>3, <2>4
<1>. QED  BY <1>2, <1>3

\* A step leaves to the caller what its read locks ask for.
LEMMA MysqlStep ==
  ASSUME DbTypesInv, dbKind = "mysql", NEW c \in DbCallers, Db!Step(c)
  PROVE  MysqlAt(c)' /\ \A d \in DbCallers \ {c} : MysqlAt(d)'
<1>0. /\ readers \in [DbCallers -> 0 .. 2] /\ DOMAIN steps = DbCallers
      /\ readers[c] \in 0 .. 2 /\ steps[c] \in Held(readers[c])
      /\ \A d \in DbCallers : MysqlAt(d)
  BY DEF DbTypesInv, DbInv, DbTypes, DbSizes, MysqlAt
<1>1. CASE Db!Call(c)
  <2>1. PICK call \in DbCalls : steps' = [steps EXCEPT ![c] = Db!Program(call)]
    BY <1>1 DEF Db!Call, Db!GoesOn
  <2>2. steps[c] = << >> /\ UNCHANGED readers
    BY <1>1 DEF Db!Call, Db!lockVars
  <2>3. Db!Program(call) \in NoneHeld
    BY MysqlPrograms
  <2>4. readers[c] = 0
    <3>1. << >> \notin OneHeld /\ << >> \notin TwoHeld
      BY DEF OneHeld, TwoHeld
    <3>. QED  BY <1>0, <2>2, <3>1 DEF Held
  <2>. QED  BY <1>0, <2>1, <2>2, <2>3, <2>4 DEF MysqlAt, Held
<1>2. CASE Db!Announce(c)
  <2>1. UNCHANGED <<steps, readers>>
    BY <1>2 DEF Db!Announce
  <2>. QED  BY <1>0, <2>1 DEF MysqlAt
<1>3. CASE Db!Enter(c) \/ Db!Unlock(c) \/ Db!Assigns(c)
  <2>1. /\ steps' = [steps EXCEPT ![c] = Tail(steps[c])] /\ UNCHANGED readers
        /\ steps[c] # << >> /\ Head(steps[c]) \notin {"rlock", "runlock"}
    BY <1>3 DEF Db!Enter, Db!Unlock, Db!Assigns, Db!At, Db!Goes, Db!lockVars
  <2>2. Tail(steps[c]) \in Held(readers[c])
    BY <1>0, <2>1, FromHeld
  <2>. QED  BY <1>0, <2>1, <2>2 DEF MysqlAt
<1>4. CASE Db!RLock(c)
  <2>1. /\ steps' = [steps EXCEPT ![c] = Tail(steps[c])]
        /\ readers' = [readers EXCEPT ![c] = readers[c] + 1]
        /\ steps[c] # << >> /\ Head(steps[c]) = "rlock"
    BY <1>4 DEF Db!RLock, Db!At, Db!Goes
  <2>2. readers[c] < 2 /\ Tail(steps[c]) \in Held(readers[c] + 1)
    BY <1>0, <2>1, FromHeld
  <2>3. readers[c] + 1 \in 0 .. 2
    BY <1>0, <2>2
  <2>. QED  BY <1>0, <2>1, <2>2, <2>3 DEF MysqlAt
<1>5. CASE Db!RUnlock(c)
  <2>1. /\ steps' = [steps EXCEPT ![c] = Tail(steps[c])]
        /\ readers' = [readers EXCEPT ![c] = readers[c] - 1]
        /\ steps[c] # << >> /\ Head(steps[c]) = "runlock"
    BY <1>5 DEF Db!RUnlock, Db!At, Db!Goes
  <2>2. readers[c] > 0 /\ Tail(steps[c]) \in Held(readers[c] - 1)
    BY <1>0, <2>1, FromHeld
  <2>3. readers[c] - 1 \in 0 .. 2
    BY <1>0, <2>2
  <2>. QED  BY <1>0, <2>1, <2>2, <2>3 DEF MysqlAt
<1>6. CASE Db!Looks(c) \/ Db!Uses(c)
  <2>1. /\ steps[c] # << >> /\ Head(steps[c]) \notin {"rlock", "runlock"} /\ UNCHANGED readers
        /\ \/ steps' = [steps EXCEPT ![c] = Tail(steps[c])]
           \/ steps' = [steps EXCEPT ![c] = Db!Unlocks(c)]
    BY <1>6 DEF Db!Looks, Db!Uses, Db!At, Db!Goes, Db!GoesOn, Db!lockVars
  <2>2. Tail(steps[c]) \in Held(readers[c]) /\ Db!Unlocks(c) \in Held(readers[c])
    BY <1>0, <2>1, FromHeld, MysqlReturns
  <2>3. PICK s \in Held(readers[c]) : steps' = [steps EXCEPT ![c] = s]
    BY <2>1, <2>2
  <2>. QED  BY <1>0, <2>1, <2>3 DEF MysqlAt
<1>7. CASE Db!Dial(c) \/ Db!CloseClient(c)
  <2>1. /\ steps[c] # << >> /\ Head(steps[c]) \in {"dial", "close"} /\ UNCHANGED readers
        /\ \E s \in {Db!DialSucceeds, Db!DialFails, Db!CloseSucceeds, Db!CloseFails} :
             steps' = [steps EXCEPT ![c] = s]
    BY <1>7 DEF Db!Dial, Db!CloseClient, Db!At, Db!GoesOn, Db!lockVars
  <2>2. PICK s \in NoneHeld : steps' = [steps EXCEPT ![c] = s]
    BY <2>1, MysqlPrograms
  <2>3. readers[c] = 0
    BY <1>0, <2>1, DialAndCloseBare DEF Held
  <2>. QED  BY <1>0, <2>1, <2>2, <2>3 DEF MysqlAt, Held
<1>. QED  BY <1>1, <1>2, <1>3, <1>4, <1>5, <1>6, <1>7 DEF Db!Step

LEMMA DbLocksTyped ==
  ASSUME DbTypesInv, NEW c \in DbCallers, Db!Step(c)
  PROVE  /\ announced' \in DbCallers \cup {Db!None}
         /\ inside' => announced' \in DbCallers /\ \A d \in DbCallers : readers'[d] = 0
<1>0. /\ announced \in DbCallers \cup {Db!None} /\ Db!None \notin DbCallers
      /\ inside => announced \in DbCallers /\ \A d \in DbCallers : readers[d] = 0
  BY DbBounds DEF DbTypesInv, DbSizes, Db!None
<1>1. CASE Db!Call(c) \/ Db!Looks(c) \/ Db!Uses(c) \/ Db!Dial(c) \/ Db!CloseClient(c)
             \/ Db!Assigns(c)
  <2>1. UNCHANGED <<readers, announced, inside>>
    BY <1>1 DEF Db!Call, Db!Looks, Db!Uses, Db!Dial, Db!CloseClient, Db!Assigns, Db!lockVars
  <2>. QED  BY <1>0, <2>1
<1>2. CASE Db!Announce(c) \/ Db!Enter(c) \/ Db!Unlock(c)
  BY <1>0, <1>2 DEF Db!Announce, Db!Enter, Db!Unlock
<1>3. CASE Db!RLock(c)
  BY <1>0, <1>3 DEF Db!RLock
<1>4. CASE Db!RUnlock(c)
  <2>1. UNCHANGED <<announced, inside>> /\ steps[c] # << >> /\ Head(steps[c]) = "runlock"
    BY <1>4 DEF Db!RUnlock, Db!At
  <2>2. ~inside
    <3>1. CASE dbKind = "mysql"
      <4>1. readers[c] \in 0 .. 2 /\ steps[c] \in Held(readers[c])
        BY <3>1 DEF DbTypesInv, DbSizes, MysqlAt
      <4>2. readers[c] > 0
        BY <2>1, <4>1, FromHeld
      <4>. QED  BY <1>0, <4>2
    <3>2. CASE dbKind # "mysql"
      <4>1. ~Writes(c) /\ readers[c] = 1
        BY <2>1, <3>2, DbStands, FromOutside, FromWriting DEF CallAt, DbTypesInv
      <4>. QED  BY <1>0, <4>1
    <3>. QED  BY <3>1, <3>2
  <2>. QED  BY <1>0, <2>1, <2>2
<1>. QED  BY <1>1, <1>2, <1>3, <1>4 DEF Db!Step

LEMMA DbCountsTyped ==
  ASSUME DbTypesInv, NEW c \in DbCallers, Db!Step(c)
  PROVE  /\ dbCall' \in [DbCallers -> DbCalls \cup {Db!None}] /\ dbPanic' \subseteq DbCallers
         /\ dbCallsMade' \in 0 .. MaxDbCalls /\ dbFaults' \in 0 .. MaxDbFaults
<1>1. /\ \/ UNCHANGED dbCall
         \/ \E call \in DbCalls : dbCall' = [dbCall EXCEPT ![c] = call]
      /\ dbPanic' \subseteq dbPanic \cup {c}
      /\ dbCallsMade' = dbCallsMade \/ (dbCallsMade < MaxDbCalls /\ dbCallsMade' = dbCallsMade + 1)
      /\ dbFaults' = dbFaults \/ (dbFaults < MaxDbFaults /\ dbFaults' = dbFaults + 1)
  <2>1. CASE Db!Call(c)
    BY <2>1 DEF Db!Call
  <2>2. CASE \/ Db!Announce(c)
             \/ Db!Enter(c)
             \/ Db!Unlock(c)
             \/ Db!RLock(c)
             \/ Db!RUnlock(c)
             \/ Db!Looks(c)
             \/ Db!Assigns(c)
    <3>1. UNCHANGED <<dbCall, dbPanic, dbCallsMade, dbFaults>>
      BY <2>2 DEF Db!Announce, Db!Enter, Db!Unlock, Db!RLock, Db!RUnlock, Db!Looks, Db!Assigns, Db!Same
    <3>. QED  BY <3>1
  <2>3. CASE Db!Uses(c) \/ Db!Dial(c) \/ Db!CloseClient(c)
    BY <2>3 DEF Db!Uses, Db!Dial, Db!CloseClient
  <2>. QED  BY <2>1, <2>2, <2>3 DEF Db!Step
<1>2. dbCallsMade' \in 0 .. MaxDbCalls /\ dbFaults' \in 0 .. MaxDbFaults
  BY <1>1, CounterTyped, DbBounds DEF DbTypesInv, DbSizes
<1>. QED  BY <1>1, <1>2 DEF DbTypesInv, DbSizes

LEMMA DbTypesInvStep == DbTypesInv /\ [Db!Next]_dbPart => DbTypesInv'
<1> SUFFICES ASSUME DbTypesInv, [Db!Next]_dbPart PROVE DbTypesInv'
  OBVIOUS
<1>1. DbInv'
  BY DbStep DEF DbTypesInv
<1>2. CASE UNCHANGED dbPart
  <2>1. UNCHANGED <<dbKind, dbCall, steps, readers, announced, inside, dbPanic, dbCallsMade,
                    dbFaults>>
    BY <1>2 DEF dbPart
  <2>. QED  BY <1>1, <2>1 DEF DbTypesInv, DbSizes, MysqlAt
<1>3. ASSUME NEW c \in DbCallers, Db!Step(c) PROVE DbTypesInv'
  <2>1. dbKind' = dbKind /\ dbKind \in DbKinds
    BY <1>3, DbTyped DEF DbTypesInv, DbInv, DbTypes
  <2>2. dbKind = "mysql" => \A d \in DbCallers : MysqlAt(d)'
    BY <1>3, MysqlStep
  <2>3. readers'[c] \in 0 .. 2
    <3>1. CASE dbKind = "mysql"
      BY <2>2, <3>1 DEF MysqlAt
    <3>2. CASE dbKind # "mysql"
      BY <1>1, <2>1, <3>2 DEF DbInv, DbSafe, CallerOK, CallAt
    <3>. QED  BY <3>1, <3>2
  <2>4. readers' = readers \/ \E n : readers' = [readers EXCEPT ![c] = n]
    <3>1. CASE Db!RLock(c) \/ Db!RUnlock(c)
      BY <3>1 DEF Db!RLock, Db!RUnlock
    <3>2. CASE ~(Db!RLock(c) \/ Db!RUnlock(c))
      BY <1>3, <3>2 DEF Db!Step, Db!Call, Db!Announce, Db!Enter, Db!Unlock, Db!Looks, Db!Uses, Db!Dial,
         Db!CloseClient, Db!Assigns, Db!lockVars
    <3>. QED  BY <3>1, <3>2
  <2>5. readers' \in [DbCallers -> 0 .. 2]
    BY <2>3, <2>4 DEF DbTypesInv, DbSizes
  <2>. QED  BY <1>1, <1>3, <2>1, <2>2, <2>5, DbLocksTyped, DbCountsTyped DEF DbTypesInv, DbSizes
<1>. QED  BY <1>2, <1>3 DEF Db!Next

LEMMA DbTypesInitially == Db!DbInit => DbTypesInv
<1> SUFFICES ASSUME Db!DbInit PROVE DbTypesInv
  OBVIOUS
<1>1. ASSUME NEW c \in DbCallers PROVE MysqlAt(c)
  <2>1. readers[c] = 0 /\ steps[c] = << >> /\ << >> \in NoneHeld
    BY DEF Db!DbInit, NoneHeld
  <2>. QED  BY <2>1 DEF MysqlAt, Held
<1>2. 0 \in 0 .. MaxDbCalls /\ 0 \in 0 .. MaxDbFaults
  BY DbBounds
<1>3. DbInv
  BY DbInitially
<1>. QED  BY <1>1, <1>2, <1>3 DEF DbTypesInv, DbSizes, Db!DbInit

LEMMA DbTypesUse == DbTypesInv => Db!DbTypeOK
<1> SUFFICES ASSUME DbTypesInv PROVE Db!DbTypeOK
  OBVIOUS
<1>1. inside => announced # Db!None
  BY DbBounds DEF DbTypesInv, DbSizes, Db!None
<1>. QED  BY <1>1 DEF DbTypesInv, DbInv, DbTypes, DbSizes, Db!DbTypeOK

\* The rate limiter.
\* The stamps that are in the sorted set or may still be put there, and what the counts of
\* Redis say of the requests there have been.
Pending == {h \in Handlers : step[h] \in {"zrem", "zcard", "zadd"}}
Entries == zset \cup {stamp[h] : h \in Pending}
CountsInv ==
  /\ Cardinality(Entries) <= requests
  /\ \A w \in Limits!Windows : counter[w] + Cardinality(Incrs(w)) <= requests
  /\ \A h \in Handlers : count[h] <= requests
LimitSizes ==
  /\ zset \subseteq 0 .. MaxClock /\ zsetUntil <= Limits!Never
  /\ \A w \in Limits!Windows : counterUntil[w] <= Limits!Never
  /\ requests \in 0 .. MaxRequests /\ limitFaults \in 0 .. MaxLimitFaults
LimitTypes == LimitInv /\ CountsInv /\ LimitSizes

LEMMA LimitTypesUse == LimitTypes => Limits!LimitTypeOK
<1> SUFFICES ASSUME LimitTypes PROVE Limits!LimitTypeOK
  OBVIOUS
<1>1. LimitShapes /\ TimeInv /\ CountsInv /\ LimitSizes
  BY DEF LimitTypes, LimitInv
<1>2. /\ clock \in 0 .. MaxClock /\ requests \in Nat /\ requests <= MaxRequests
      /\ MaxRequests \in Nat /\ Limits!Never \in Nat
  BY <1>1, RateBounds, NeverExpires DEF LimitShapes, LimitSizes
<1>3. stamp \in [Handlers -> 0 .. MaxClock]
  <2>1. \A h \in Handlers : stamp[h] \in 0 .. MaxClock
    BY <1>1, <1>2, RateBounds DEF LimitShapes, TimeInv
  <2>. QED  BY <1>1, <2>1 DEF LimitShapes
<1>4. count \in [Handlers -> 0 .. MaxRequests]
  <2>1. \A h \in Handlers : count[h] \in 0 .. MaxRequests
    BY <1>1, <1>2 DEF LimitShapes, CountsInv
  <2>. QED  BY <1>1, <2>1 DEF LimitShapes
<1>5. counter \in [Limits!Windows -> 0 .. MaxRequests]
  <2>1. ASSUME NEW w \in Limits!Windows PROVE counter[w] \in 0 .. MaxRequests
    <3>1. counter[w] \in Nat /\ Cardinality(Incrs(w)) \in Nat
      BY <1>1, SetsFinite DEF LimitShapes
    <3>2. counter[w] + Cardinality(Incrs(w)) <= requests
      BY <1>1 DEF CountsInv
    <3>. QED  BY <1>2, <3>1, <3>2
  <2>. QED  BY <1>1, <2>1 DEF LimitShapes
<1>6. counterUntil \in [Limits!Windows -> 0 .. Limits!Never] /\ zsetUntil \in 0 .. Limits!Never
  <2>1. \A w \in Limits!Windows : counterUntil[w] \in 0 .. Limits!Never
    BY <1>1, <1>2 DEF LimitShapes, LimitSizes
  <2>. QED  BY <1>1, <1>2, <2>1 DEF LimitShapes, LimitSizes
<1>7. allowed \subseteq 0 .. MaxClock /\ lapsed \subseteq 0 .. MaxClock
  BY <1>1, <1>2, RateBounds DEF LimitShapes, TimeInv
<1>. QED  BY <1>1, <1>2, <1>3, <1>4, <1>5, <1>6, <1>7
          DEF LimitShapes, LimitSteps, LimitSizes, Limits!LimitTypeOK

LEMMA EntriesFinite ==
  ASSUME LimitShapes
  PROVE  IsFiniteSet(Entries) /\ Cardinality(Entries) \in Nat
<1>1. Entries \subseteq zset \cup Stamps
  BY DEF Entries, Pending, Stamps
<1>2. IsFiniteSet(zset \cup Stamps)
  BY StampsFinite, FS_Union DEF LimitShapes
<1>. QED  BY <1>1, <1>2, FS_Subset, FS_CardinalityType

LEMMA NoMoreCounted ==
  ASSUME LimitShapes
  PROVE  /\ \A S : S \subseteq Entries =>
              Cardinality(S) \in Nat /\ Cardinality(S) <= Cardinality(Entries)
         /\ \A w : \A S : S \subseteq Incrs(w) =>
              Cardinality(S) \in Nat /\ Cardinality(S) <= Cardinality(Incrs(w))
BY EntriesFinite, SetsFinite, FS_Subset, FS_CardinalityType

\* The pending requests lose, and the counters stay.
LEMMA CountsKept ==
  ASSUME LimitShapes, CountsInv, requests \in Nat, Entries' \subseteq Entries,
         \A w \in Limits!Windows : Incrs(w)' \subseteq Incrs(w),
         UNCHANGED <<counter, requests>>,
         \A h \in Handlers : count'[h] <= requests
  PROVE  CountsInv'
<1>1. Cardinality(Entries') <= requests'
  <2>1. Cardinality(Entries') \in Nat /\ Cardinality(Entries') <= Cardinality(Entries)
    BY NoMoreCounted
  <2>. QED  BY <2>1, EntriesFinite DEF CountsInv
<1>2. ASSUME NEW w \in Limits!Windows PROVE counter'[w] + Cardinality(Incrs(w)') <= requests'
  <2>1. /\ Cardinality(Incrs(w)') \in Nat /\ Cardinality(Incrs(w)') <= Cardinality(Incrs(w))
        /\ Cardinality(Incrs(w)) \in Nat
    BY NoMoreCounted, SetsFinite
  <2>2. counter[w] \in Nat /\ counter[w] + Cardinality(Incrs(w)) <= requests
    BY DEF LimitShapes, CountsInv
  <2>. QED  BY <2>1, <2>2
<1>. QED  BY <1>1, <1>2 DEF CountsInv, Limits!Windows, Limits!Truncated

LEMMA QuietCounts ==
  ASSUME LimitShapes, CountsInv, requests \in Nat,
         \/ UNCHANGED limitPart
         \/ Limits!ClockTicks
         \/ Limits!GetRateLimitStatus
         \/ \E h \in Handlers : \/ Limits!Decide(h)
                                \/ Limits!RedisFails(h)
                                \/ Limits!ExpireCounter(h) /\ Limits!Fixed(h)
  PROVE  CountsInv'
<1>1. /\ UNCHANGED <<stamp, count, counter, requests>> /\ zset' \subseteq zset
      /\ \/ UNCHANGED step
         \/ \E h \in Handlers : step' = [step EXCEPT ![h] = "idle"]
              \/ step' = [step EXCEPT ![h] = "decide"]
  BY DEF limitPart, Limits!ClockTicks, Limits!GetRateLimitStatus, Limits!Stored, Limits!LiveSet,
         Limits!Decide, Limits!RedisFails, Limits!ExpireCounter, Limits!Fixed, Limits!To,
         Limits!sorted, Limits!counters
<1>2. \A h \in Handlers : step'[h] = step[h] \/ step'[h] \in {"idle", "decide"}
  BY <1>1 DEF LimitShapes
<1>3. Pending' \subseteq Pending /\ \A w : Incrs(w)' \subseteq Incrs(w)
  BY <1>1, <1>2 DEF Pending, Incrs, Limits!Truncated
<1>4. Entries' \subseteq Entries
  BY <1>1, <1>3 DEF Entries
<1>5. \A h \in Handlers : count'[h] <= requests
  BY <1>1 DEF CountsInv
<1>. QED  BY <1>1, <1>3, <1>4, <1>5, CountsKept

LEMMA SlidingCounts ==
  ASSUME LimitShapes, CountsInv, requests \in Nat, NEW h \in Handlers, Limits!Sliding(h)
  PROVE  CountsInv'
<1>1. /\ UNCHANGED <<stamp, counter, requests>>
      /\ count' = count \/ count' = [count EXCEPT ![h] = Limits!Cardinality(Limits!LiveSet)]
      /\ zset' \subseteq zset \cup {stamp[h]} /\ (step[h] = "zadd" \/ zset' \subseteq zset)
      /\ \E next \in {"zcard", "zadd", "expire", "decide"} :
           /\ step' = [step EXCEPT ![h] = next]
           /\ next \in {"zcard", "zadd"} => step[h] \in {"zrem", "zcard", "zadd"}
  BY DEF Limits!Sliding, Limits!ZRemRangeByScore, Limits!ZCard, Limits!ZAdd, Limits!Expire,
         Limits!Stored, Limits!LiveSet, Limits!To, Limits!sorted, Limits!counters
<1>2. /\ \A g \in Handlers \ {h} : step'[g] = step[g]
      /\ step'[h] \in {"zcard", "zadd", "expire", "decide"}
      /\ step'[h] \in {"zcard", "zadd"} => step[h] \in {"zrem", "zcard", "zadd"}
  BY <1>1 DEF LimitShapes
<1>3. Pending' \subseteq Pending /\ \A w : Incrs(w)' \subseteq Incrs(w)
  BY <1>1, <1>2 DEF Pending, Incrs, Limits!Truncated
<1>4. Entries' \subseteq Entries
  <2>1. step[h] = "zadd" => h \in Pending
    BY DEF Pending
  <2>. QED  BY <1>1, <1>3, <2>1 DEF Entries
<1>5. \A g \in Handlers : count'[g] <= requests
  <2>1. Limits!LiveSet \subseteq Entries
    BY DEF Limits!LiveSet, Entries
  <2>2. Cardinality(Limits!LiveSet) \in Nat /\ Cardinality(Limits!LiveSet) <= Cardinality(Entries)
    BY <2>1, NoMoreCounted
  <2>3. Limits!Cardinality(Limits!LiveSet) <= requests
    BY <2>2, EntriesFinite, LimitCardinality DEF CountsInv
  <2>. QED  BY <1>1, <2>3 DEF CountsInv, LimitShapes
<1>. QED  BY <1>1, <1>3, <1>4, <1>5, CountsKept

LEMMA IncrCounts ==
  ASSUME LimitShapes, TimeInv, CountsInv, requests \in Nat,
         NEW h \in Handlers, Limits!Incr(h), Limits!Fixed(h)
  PROVE  CountsInv'
<1>0. PICK v : v = Limits!Truncated(stamp[h])
  OBVIOUS
<1> DEFINE n == Limits!LiveCounter(v) + 1
<1>1. v \in Limits!Windows
  <2>1. stamp[h] \in Nat /\ stamp[h] <= MaxClock
    BY RateBounds DEF LimitShapes, TimeInv
  <2>. QED  BY <1>0, <2>1, NeverExpires
<1>2. /\ UNCHANGED <<stamp, zset, requests>> /\ step[h] = "incr"
      /\ count' = [count EXCEPT ![h] = n] /\ counter' = [counter EXCEPT ![v] = n]
      /\ step' = [step EXCEPT ![h] = "expireCounter"] \/ step' = [step EXCEPT ![h] = "decide"]
  BY <1>0 DEF Limits!Incr, Limits!Fixed, Limits!To, Limits!sorted
<1>3. n \in Nat /\ n <= counter[v] + 1 /\ counter[v] \in Nat
  BY <1>1 DEF Limits!LiveCounter, LimitShapes
<1>4. /\ h \in Incrs(v) /\ Incrs(v)' \subseteq Incrs(v) \ {h}
      /\ \A w : Incrs(w)' \subseteq Incrs(w)
  BY <1>0, <1>2 DEF Incrs, LimitShapes, Limits!Truncated
<1> HIDE DEF n
<1>5. /\ Cardinality(Incrs(v)') \in Nat /\ Cardinality(Incrs(v)) \in Nat
      /\ Cardinality(Incrs(v)') <= Cardinality(Incrs(v)) - 1
  <2>1. IsFiniteSet(Incrs(v)) /\ Cardinality(Incrs(v)) \in Nat
    BY SetsFinite
  <2>2. /\ IsFiniteSet(Incrs(v) \ {h})
        /\ Cardinality(Incrs(v) \ {h}) = Cardinality(Incrs(v)) - 1
    BY <1>4, <2>1, FS_RemoveElement
  <2>. QED  BY <1>4, <2>1, <2>2, FS_Subset, FS_CardinalityType
<1>6. counter[v] + Cardinality(Incrs(v)) <= requests
  BY <1>1 DEF CountsInv
<1>7. n <= requests /\ n + Cardinality(Incrs(v)') <= requests
  BY <1>3, <1>5, <1>6
<1>8. ASSUME NEW w \in Limits!Windows PROVE counter'[w] + Cardinality(Incrs(w)') <= requests
  <2>1. CASE w = v
    BY <1>1, <1>2, <1>7, <2>1 DEF LimitShapes
  <2>2. CASE w # v
    <3>1. counter'[w] = counter[w] /\ counter[w] \in Nat
      BY <1>2, <2>2 DEF LimitShapes
    <3>2. /\ Cardinality(Incrs(w)') \in Nat /\ Cardinality(Incrs(w)') <= Cardinality(Incrs(w))
          /\ Cardinality(Incrs(w)) \in Nat
      BY <1>4, NoMoreCounted, SetsFinite
    <3>3. counter[w] + Cardinality(Incrs(w)) <= requests
      BY DEF CountsInv
    <3>. QED  BY <3>1, <3>2, <3>3
  <2>. QED  BY <2>1, <2>2
<1>9. \A g \in Handlers : count'[g] <= requests
  BY <1>2, <1>7 DEF CountsInv, LimitShapes
<1>10. Cardinality(Entries') <= requests
  <2>1. Pending' \subseteq Pending
    BY <1>2 DEF Pending, LimitShapes
  <2>2. Entries' \subseteq Entries
    BY <1>2, <2>1 DEF Entries
  <2>3. Cardinality(Entries') \in Nat /\ Cardinality(Entries') <= Cardinality(Entries)
    BY <2>2, NoMoreCounted
  <2>. QED  BY <2>3, EntriesFinite DEF CountsInv
<1>. QED  BY <1>2, <1>8, <1>9, <1>10 DEF CountsInv, Limits!Windows, Limits!Truncated

LEMMA ArrivalCounts ==
  ASSUME LimitShapes, CountsInv, requests \in Nat, NEW h \in Handlers, Limits!Arrives(h)
  PROVE  CountsInv'
<1>1. /\ UNCHANGED <<zset, counter>> /\ requests' = requests + 1 /\ step[h] = "idle"
      /\ stamp' = [stamp EXCEPT ![h] = clock] /\ count' = [count EXCEPT ![h] = 0]
      /\ step' = [step EXCEPT ![h] = "zrem"] \/ step' = [step EXCEPT ![h] = "incr"]
  BY DEF Limits!Arrives, Limits!sorted, Limits!counters
<1>2. /\ \A g \in Handlers \ {h} : step'[g] = step[g] /\ stamp'[g] = stamp[g]
      /\ stamp'[h] = clock
  BY <1>1 DEF LimitShapes
<1>3. Entries' \subseteq Entries \cup {clock} /\ \A w : Incrs(w)' \subseteq Incrs(w) \cup {h}
  BY <1>1, <1>2 DEF Entries, Pending, Incrs, Limits!Truncated
<1>4. \A S : \A x : IsFiniteSet(S) =>
        \A T : T \subseteq S \cup {x} =>
          Cardinality(T) \in Nat /\ Cardinality(S) \in Nat /\ Cardinality(T) <= Cardinality(S) + 1
  <2> SUFFICES ASSUME NEW S, NEW x, IsFiniteSet(S), NEW T, T \subseteq S \cup {x}
               PROVE  /\ Cardinality(T) \in Nat /\ Cardinality(S) \in Nat
                      /\ Cardinality(T) <= Cardinality(S) + 1
    OBVIOUS
  <2>1. /\ IsFiniteSet(S \cup {x}) /\ Cardinality(S) \in Nat /\ Cardinality(S \cup {x}) \in Nat
        /\ Cardinality(S \cup {x}) <= Cardinality(S) + 1
    <3>1. /\ IsFiniteSet(S \cup {x})
          /\ Cardinality(S \cup {x}) = IF x \in S THEN Cardinality(S) ELSE Cardinality(S) + 1
      BY FS_AddElement
    <3>2. Cardinality(S) \in Nat
      BY FS_CardinalityType
    <3>. QED  BY <3>1, <3>2
  <2>2. Cardinality(T) \in Nat /\ Cardinality(T) <= Cardinality(S \cup {x})
    BY <2>1, FS_Subset, FS_CardinalityType
  <2>. QED  BY <2>1, <2>2
<1>5. Cardinality(Entries') <= requests'
  <2>1. Cardinality(Entries') \in Nat /\ Cardinality(Entries') <= Cardinality(Entries) + 1
    BY <1>3, <1>4, EntriesFinite
  <2>. QED  BY <1>1, <2>1, EntriesFinite DEF CountsInv
<1>6. ASSUME NEW w \in Limits!Windows PROVE counter'[w] + Cardinality(Incrs(w)') <= requests'
  <2>1. IsFiniteSet(Incrs(w)) /\ Incrs(w)' \subseteq Incrs(w) \cup {h}
    BY <1>3, SetsFinite
  <2>2. /\ Cardinality(Incrs(w)') \in Nat /\ Cardinality(Incrs(w)) \in Nat
        /\ Cardinality(Incrs(w)') <= Cardinality(Incrs(w)) + 1
    BY <1>4, <2>1
  <2>3. counter[w] \in Nat /\ counter[w] + Cardinality(Incrs(w)) <= requests
    BY DEF CountsInv, LimitShapes
  <2>. QED  BY <1>1, <2>2, <2>3
<1>7. \A g \in Handlers : count'[g] <= requests'
  <2>1. \A g \in Handlers : count[g] \in Nat /\ count[g] <= requests
    BY DEF CountsInv, LimitShapes
  <2>2. ASSUME NEW g \in Handlers PROVE count'[g] = 0 \/ count'[g] = count[g]
    BY <1>1 DEF LimitShapes
  <2>. QED  BY <1>1, <2>1, <2>2
<1>. QED  BY <1>5, <1>6, <1>7 DEF CountsInv, Limits!Windows, Limits!Truncated

LEMMA LimitSizesStep ==
  ASSUME LimitTypes, [Limits!Next]_limitPart
  PROVE  LimitSizes'
<1>0. /\ LimitShapes /\ TimeInv /\ LimitSizes /\ clock \in 0 .. MaxClock
      /\ \A h \in Handlers : stamp[h] \in 0 .. MaxClock
      /\ clock + Window <= Limits!Never /\ Limits!Never \in Nat
  BY RateBounds, NeverExpires DEF LimitTypes, LimitInv, LimitShapes, TimeInv
<1>1. zset' \subseteq zset \cup Stamps /\ zsetUntil' \in {zsetUntil, Limits!Never, clock + Window}
  <2>1. CASE Limits!GetRateLimitStatus
    BY <2>1 DEF Limits!GetRateLimitStatus, Limits!Stored, Limits!LiveSet
  <2>2. ASSUME NEW h \in Handlers, Limits!Sliding(h)
        PROVE  zset' \subseteq zset \cup Stamps
               /\ zsetUntil' \in {zsetUntil, Limits!Never, clock + Window}
    BY <2>2 DEF Limits!Sliding, Limits!ZRemRangeByScore, Limits!ZCard, Limits!ZAdd, Limits!Expire,
                Limits!Stored, Limits!LiveSet, Limits!sorted, Stamps
  <2>3. CASE UNCHANGED <<zset, zsetUntil>>
    BY <2>3
  <2>4. \/ Limits!GetRateLimitStatus
        \/ \E h \in Handlers : Limits!Sliding(h)
        \/ UNCHANGED <<zset, zsetUntil>>
    BY DEF limitPart, Limits!Next, Limits!ClockTicks, Limits!Arrives, Limits!Fixed, Limits!Decide,
           Limits!RedisFails, Limits!sorted
  <2>. QED  BY <2>1, <2>2, <2>3, <2>4
<1>2. \/ UNCHANGED counterUntil
      \/ \E h \in Handlers : Limits!Fixed(h)
  BY DEF limitPart, Limits!Next, Limits!ClockTicks, Limits!Arrives, Limits!Sliding, Limits!Decide,
         Limits!RedisFails, Limits!GetRateLimitStatus, Limits!counters
<1>3. \A w \in Limits!Windows : counterUntil'[w] <= Limits!Never
  <2>1. CASE UNCHANGED counterUntil
    BY <1>0, <2>1 DEF LimitSizes
  <2>2. ASSUME NEW h \in Handlers, Limits!Fixed(h)
        PROVE  \A w \in Limits!Windows : counterUntil'[w] <= Limits!Never
    <3>1. \/ UNCHANGED counterUntil
          \/ \E v : counterUntil' = [counterUntil EXCEPT ![v] = IF clock < @ THEN @ ELSE Limits!Never]
          \/ \E v : counterUntil' = [counterUntil EXCEPT ![v] = clock + Window]
      BY <2>2 DEF Limits!Fixed, Limits!Incr, Limits!ExpireCounter
    <3>2. ASSUME NEW w \in Limits!Windows
          PROVE  counterUntil'[w] \in {counterUntil[w], Limits!Never, clock + Window}
      BY <3>1 DEF LimitShapes, LimitTypes, LimitInv
    <3>. QED  BY <1>0, <3>2 DEF LimitSizes
  <2>. QED  BY <1>2, <2>1, <2>2
<1>4. /\ requests' = requests \/ (requests < MaxRequests /\ requests' = requests + 1)
      /\ limitFaults' = limitFaults
           \/ (limitFaults < MaxLimitFaults /\ limitFaults' = limitFaults + 1)
  BY DEF limitPart, Limits!Next, Limits!ClockTicks, Limits!Arrives, Limits!Sliding, Limits!Fixed,
         Limits!Incr, Limits!ExpireCounter, Limits!Decide, Limits!RedisFails,
         Limits!GetRateLimitStatus
<1>5. requests' \in 0 .. MaxRequests /\ limitFaults' \in 0 .. MaxLimitFaults
  BY <1>0, <1>4, CounterTyped, RateBounds DEF LimitSizes
<1>6. Stamps \subseteq 0 .. MaxClock
  BY <1>0 DEF Stamps
<1>7. zset' \subseteq 0 .. MaxClock /\ zsetUntil' <= Limits!Never
  BY <1>0, <1>1, <1>6 DEF LimitSizes
<1>. QED  BY <1>3, <1>5, <1>7
          DEF LimitSizes, Limits!Windows, Limits!Truncated, Limits!Never

LEMMA LimitTypesStep == LimitTypes /\ [Limits!Next]_limitPart => LimitTypes'
<1> SUFFICES ASSUME LimitTypes, [Limits!Next]_limitPart PROVE LimitTypes'
  OBVIOUS
<1>1. LimitInv' /\ LimitSizes'
  BY LimitStep, LimitSizesStep DEF LimitTypes
<1>2. LimitShapes /\ TimeInv /\ CountsInv /\ requests \in Nat
  BY RateBounds DEF LimitTypes, LimitInv, LimitSizes
<1>3. CountsInv'
  <2>1. CASE UNCHANGED limitPart \/ Limits!ClockTicks \/ Limits!GetRateLimitStatus
    BY <1>2, <2>1, QuietCounts
  <2>2. ASSUME NEW h \in Handlers, Limits!Decide(h) \/ Limits!RedisFails(h) PROVE CountsInv'
    BY <1>2, <2>2, QuietCounts
  <2>3. ASSUME NEW h \in Handlers, Limits!Fixed(h) PROVE CountsInv'
    <3>1. Limits!Incr(h) \/ Limits!ExpireCounter(h)
      BY <2>3 DEF Limits!Fixed
    <3>2. CASE Limits!Incr(h)
      BY <1>2, <2>3, <3>2, IncrCounts
    <3>3. CASE Limits!ExpireCounter(h)
      BY <1>2, <2>3, <3>3, QuietCounts
    <3>. QED  BY <3>1, <3>2, <3>3
  <2>4. ASSUME NEW h \in Handlers, Limits!Arrives(h) PROVE CountsInv'
    BY <1>2, <2>4, ArrivalCounts
  <2>5. ASSUME NEW h \in Handlers, Limits!Sliding(h) PROVE CountsInv'
    BY <1>2, <2>5, SlidingCounts
  <2>. QED  BY <2>1, <2>2, <2>3, <2>4, <2>5 DEF Limits!Next
<1>. QED  BY <1>1, <1>3 DEF LimitTypes

LEMMA LimitTypesInitially == Limits!Init => LimitTypes
<1> SUFFICES ASSUME Limits!Init PROVE LimitTypes
  OBVIOUS
<1>1. LimitInv
  BY LimitInitially
<1>2. Entries = {} /\ \A w : Incrs(w) = {}
  BY DEF Limits!Init, Entries, Pending, Incrs
<1>3. Cardinality({}) = 0 /\ Limits!Never \in Nat
  BY FS_EmptySet, NeverExpires, RateBounds
<1>4. CountsInv
  BY <1>2, <1>3 DEF Limits!Init, CountsInv
<1>5. LimitSizes
  BY <1>3, RateBounds DEF Limits!Init, LimitSizes
<1>. QED  BY <1>1, <1>4, <1>5 DEF LimitTypes

-----------------------------------------------------------------------------
(* A step of the specification is a step of each component, or leaves it   *)
(* alone.                                                                  *)

Parts == {"logs", "tokens", "limits", "screen", "fetch", "mq", "lock", "proxies", "agents",
          "audit", "track", "files", "db", "servers", "pages"}

LEMMA PartsStep ==
  ASSUME part \in Parts, [Next]_all
  PROVE  /\ part' = part
         /\ [Tokens!Next]_tokenPart
         /\ [Pools!ProxyNext]_proxyPart
         /\ [Pools!AgentsNext]_agentPart
         /\ [Db!Next]_dbPart
         /\ [Limits!Next]_limitPart
         /\ [Lock!Next]_lockPart
<1>1. CASE UNCHANGED all
  BY <1>1 DEF all
<1>2. CASE Only("logs") /\ Logs!Next
  <2>1. part' = part /\ UNCHANGED <<tokenPart, proxyPart, agentPart, dbPart, limitPart, lockPart>>
    BY <1>2 DEF Only
  <2>. QED  BY <1>2, <2>1
<1>3. CASE Only("tokens") /\ Tokens!Next
  <2>1. part' = part /\ UNCHANGED <<proxyPart, agentPart, dbPart, limitPart, lockPart>>
    BY <1>3 DEF Only
  <2>. QED  BY <1>3, <2>1
<1>4. CASE Only("limits") /\ Limits!Next
  <2>1. part' = part /\ UNCHANGED <<tokenPart, proxyPart, agentPart, dbPart, lockPart>>
    BY <1>4 DEF Only
  <2>. QED  BY <1>4, <2>1
<1>5. CASE Only("screen") /\ Screen!Next
  <2>1. part' = part /\ UNCHANGED <<tokenPart, proxyPart, agentPart, dbPart, limitPart, lockPart>>
    BY <1>5 DEF Only
  <2>. QED  BY <1>5, <2>1
<1>6. CASE Only("fetch") /\ Fetch!Next
  <2>1. part' = part /\ UNCHANGED <<tokenPart, proxyPart, agentPart, dbPart, limitPart, lockPart>>
    BY <1>6 DEF Only
  <2>. QED  BY <1>6, <2>1
<1>7. CASE Only("mq") /\ Mq!Next
  <2>1. part' = part /\ UNCHANGED <<tokenPart, proxyPart, agentPart, dbPart, limitPart, lockPart>>
    BY <1>7 DEF Only
  <2>. QED  BY <1>7, <2>1
<1>8. CASE Only("lock") /\ Lock!Next
  <2>1. part' = part /\ UNCHANGED <<tokenPart, proxyPart, agentPart, dbPart, limitPart>>
    BY <1>8 DEF Only
  <2>. QED  BY <1>8, <2>1
<1>9. CASE Only("proxies") /\ Pools!ProxyNext
  <2>1. part' = part /\ UNCHANGED <<tokenPart, agentPart, dbPart, limitPart, lockPart>>
    BY <1>9 DEF Only
  <2>. QED  BY <1>9, <2>1
<1>10. CASE Only("agents") /\ Pools!AgentsNext
  <2>1. part' = part /\ UNCHANGED <<tokenPart, proxyPart, dbPart, limitPart, lockPart>>
    BY <1>10 DEF Only
  <2>. QED  BY <1>10, <2>1
<1>11. CASE Only("audit") /\ Trail!AuditNext
  <2>1. part' = part /\ UNCHANGED <<tokenPart, proxyPart, agentPart, dbPart, limitPart, lockPart>>
    BY <1>11 DEF Only
  <2>. QED  BY <1>11, <2>1
<1>12. CASE Only("track") /\ Trail!TrackerNext
  <2>1. part' = part /\ UNCHANGED <<tokenPart, proxyPart, agentPart, dbPart, limitPart, lockPart>>
    BY <1>12 DEF Only
  <2>. QED  BY <1>12, <2>1
<1>13. CASE Only("files") /\ Logs!RotatorNext
  <2>1. part' = part /\ UNCHANGED <<tokenPart, proxyPart, agentPart, dbPart, limitPart, lockPart>>
    BY <1>13 DEF Only
  <2>. QED  BY <1>13, <2>1
<1>14. CASE Only("db") /\ Db!Next
  <2>1. part' = part /\ UNCHANGED <<tokenPart, proxyPart, agentPart, limitPart, lockPart>>
    BY <1>14 DEF Only
  <2>. QED  BY <1>14, <2>1
<1>15. CASE Only("servers") /\ Server!Next
  <2>1. part' = part /\ UNCHANGED <<tokenPart, proxyPart, agentPart, dbPart, limitPart, lockPart>>
    BY <1>15 DEF Only
  <2>. QED  BY <1>15, <2>1
<1>16. CASE Only("pages") /\ Pages!Next
  <2>1. part' = part /\ UNCHANGED <<tokenPart, proxyPart, agentPart, dbPart, limitPart, lockPart>>
    BY <1>16 DEF Only
  <2>. QED  BY <1>16, <2>1
<1>. QED  BY <1>1, <1>2, <1>3, <1>4, <1>5, <1>6, <1>7, <1>8, <1>9, <1>10, <1>11, <1>12, <1>13, <1>14,
   <1>15, <1>16 DEF Next

LEMMA PartsHold == Spec => [](part \in Parts)
<1>1. Init => part \in Parts
  BY DEF Init, Parts
<1>2. part \in Parts /\ [Next]_all => (part \in Parts)'
  BY PartsStep
<1>. QED  BY <1>1, <1>2, PTL DEF Spec

LEMMA TokenInvHolds == Spec => []TokenInv
<1>1. Init => TokenInv
  BY TokensInitially DEF Init
<1>2. (part \in Parts) /\ TokenInv /\ [Next]_all => TokenInv'
  BY TokensStep, PartsStep
<1>. QED  BY <1>1, <1>2, PartsHold, PTL DEF Spec

LEMMA ProxyInvHolds == Spec => []ProxyInv
<1>1. Init => ProxyInv
  BY ProxyInitially DEF Init
<1>2. (part \in Parts) /\ ProxyInv /\ [Next]_all => ProxyInv'
  BY ProxyStep, PartsStep
<1>. QED  BY <1>1, <1>2, PartsHold, PTL DEF Spec

LEMMA AgentsInvHolds == Spec => []AgentsInv
<1>1. Init => AgentsInv
  BY AgentsInitially DEF Init
<1>2. (part \in Parts) /\ AgentsInv /\ [Next]_all => AgentsInv'
  BY AgentsStep, PartsStep
<1>. QED  BY <1>1, <1>2, PartsHold, PTL DEF Spec

LEMMA DbInvHolds == Spec => []DbInv
<1>1. Init => DbInv
  BY DbInitially DEF Init
<1>2. (part \in Parts) /\ DbInv /\ [Next]_all => DbInv'
  BY DbStep, PartsStep
<1>. QED  BY <1>1, <1>2, PartsHold, PTL DEF Spec

LEMMA LimitInvHolds == Spec => []LimitInv
<1>1. Init => LimitInv
  BY LimitInitially DEF Init
<1>2. (part \in Parts) /\ LimitInv /\ [Next]_all => LimitInv'
  BY LimitStep, PartsStep
<1>. QED  BY <1>1, <1>2, PartsHold, PTL DEF Spec

LEMMA LockTypesHold == Spec => []Lock!TypeOK
<1>1. Init => Lock!TypeOK
  BY LockTypesInitially DEF Init
<1>2. (part \in Parts) /\ Lock!TypeOK /\ [Next]_all => Lock!TypeOK'
  BY LockTypesStep, PartsStep
<1>. QED  BY <1>1, <1>2, PartsHold, PTL DEF Spec

LEMMA ProxyTypesHold == Spec => []ProxyTypes
<1>1. Init => ProxyTypes
  BY ProxyTypesInitially DEF Init
<1>2. (part \in Parts) /\ ProxyTypes /\ [Next]_all => ProxyTypes'
  BY ProxyTypesStep, PartsStep
<1>. QED  BY <1>1, <1>2, PartsHold, PTL DEF Spec

LEMMA AgentTypesHold == Spec => []AgentTypes
<1>1. Init => AgentTypes
  BY AgentTypesInitially DEF Init
<1>2. (part \in Parts) /\ AgentTypes /\ [Next]_all => AgentTypes'
  BY AgentTypesStep, PartsStep
<1>. QED  BY <1>1, <1>2, PartsHold, PTL DEF Spec

LEMMA DbTypesHold == Spec => []DbTypesInv
<1>1. Init => DbTypesInv
  BY DbTypesInitially DEF Init
<1>2. (part \in Parts) /\ DbTypesInv /\ [Next]_all => DbTypesInv'
  BY DbTypesInvStep, PartsStep
<1>. QED  BY <1>1, <1>2, PartsHold, PTL DEF Spec

LEMMA LimitTypesHold == Spec => []LimitTypes
<1>1. Init => LimitTypes
  BY LimitTypesInitially DEF Init
<1>2. (part \in Parts) /\ LimitTypes /\ [Next]_all => LimitTypes'
  BY LimitTypesStep, PartsStep
<1>. QED  BY <1>1, <1>2, PartsHold, PTL DEF Spec

-----------------------------------------------------------------------------
(* Theorems.                                                               *)

\* The token a handler has given out, undisturbed and with no other begun since, is the one
\* the token's key, its metadata, the set of active tokens and its device name, whatever
\* handlers of earlier requests failed or left behind (refresh_token.go).
THEOREM RefreshTokensWork == Spec => []GivenTokenWorks
<1>1. TokenInv => GivenTokenWorks
  BY DEF TokenInv, GivenInv, GivenTokenWorks, Tokens!GivenTokenWorks
<1>. QED  BY <1>1, TokenInvHolds, PTL

\* A proxy that fails too often is handed out only while its last failure is being judged or
\* after a check (pool.go:208-223, 405-416), each user agent keeps its weight
\* (pool.go:504-528), and mongo.go never waits for itself, uses no nil client and leaves
\* connected and client in agreement (database/*.go).
THEOREM PoolsAreKept == Spec => []PoolsKept
<1>1. ProxyInv /\ AgentsInv /\ DbInv => PoolsKept
  BY ProxyUse, AgentsUse, DbUse DEF PoolsKept
<1>. QED  BY <1>1, ProxyInvHolds, AgentsInvHolds, DbInvHolds, PTL

\* Of the requests that arrive within one window, the rate limiter lets through the limit, or
\* with checkRateLimit one less than are served at the same time besides, and as many again as
\* are served at the same time when the key of the window expires between their commands
\* (ratelimit.go:103-179, 282-341).
THEOREM WindowsHold == Spec => []WindowHolds
<1>1. LimitInv => WindowHolds
  BY LimitUse DEF WindowHolds
<1>. QED  BY <1>1, LimitInvHolds, PTL

\* Whatever commands of Redis fail and however late a client is, the key is taken from its
\* owner only by the owner's release or because its time is up (the scripts of ReleaseLock and
\* ExtendLock, distributed_lock.go:75-81, 109-115), when the expiration is at least a second:
\* an extension to less deletes the key.
THEOREM NobodyIsRobbed ==
  ASSUME Second <= Expiration
  PROVE  Spec => NotRobbed
<1> DEFINE Robbed == \E c \in Clients : /\ owner = c /\ owner' # c
                                        /\ ~(lockPc[c] = "releasing" /\ lockPc'[c] = "idle")
                                        /\ ~(ttl = 1 /\ Lock!client' = Lock!client)
<1>1. part \in Parts /\ Lock!TypeOK /\ [Next]_all => ~Robbed
  BY LockTaken, PartsStep
<1>2. Spec => [][~Robbed]_Lock!vars
  BY <1>1, LockTypesHold, PartsHold, PTL DEF Spec
<1>3. [~Robbed]_Lock!vars
        => [\A c \in Clients : owner = c /\ owner' # c
              => \/ lockPc[c] = "releasing" /\ lockPc'[c] = "idle"
                 \/ ttl = 1 /\ Lock!client' = Lock!client]_Lock!vars
  OBVIOUS
<1>. QED  BY <1>2, <1>3, PTL DEF NotRobbed, Lock!NotRobbed
=============================================================================
