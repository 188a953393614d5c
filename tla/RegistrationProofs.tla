------------------------- MODULE RegistrationProofs -------------------------
(* The phone's own account is always there to call from, the button that    *)
(* reads "Unregister" has an account behind it, and leaving hangs up: for   *)
(* any size of pjsua's account table and any number of queued signals.      *)
EXTENDS Registration, SequenceTheorems, WellFoundedInduction, TLAPS

\* Before app_exit begins.
Early == window \in {"new", "tone", "links", "run", "unregister"}

\* Only a user account registers; account 0 is the phone's own and has no
\* registration client, so the removal of an account, which goes on only
\* after "ok", never meets it.
AccountInv ==
    /\ window = "new" => \A a \in Slot : account[a] = "free" /\ reg[a] = "none"
    /\ window = "new" => acc_id = PJSUA_INVALID_ID /\ default_acc = 0
    /\ \A a \in Slot : reg[a] # "none" => account[a] = "user"
    /\ Running => account[0] = "default" /\ account[default_acc] # "free"
    /\ window \in {"unregister", "default_del", "user_del"} =>
          acc_id \in Slot \ {0} /\ account[acc_id] # "free"

\* What the button reads once all signals are delivered.
Last == IF signals = <<>> THEN button = "Unregister" ELSE signals[Len(signals)]
OnIts == \E i \in DOMAIN signals : signals[i]

\* Without haste there is at most one user account, acc_id, and it is there
\* as long as the button offers, or will offer, to remove it.
ButtonInv ==
    Early /\ ~hasty =>
        /\ UserAccounts \subseteq {acc_id}
        /\ button = "Unregister" \/ OnIts => acc_id \in UserAccounts
        /\ Last => reg[acc_id] \in {"pending", "ok", "leaving"}

HangupInv == window \in {"drain", "exit"} => NoneLeftUp

-----------------------------------------------------------------------------
(* The first free slot *)

LEMMA FirstFreeIsFree == ASSUME TypeOK, FreeSlots # {} PROVE FirstFree \in FreeSlots
  <1>1. FreeSlots \subseteq Nat
    BY AccAssumption DEF FreeSlots, Slot
  <1>2. \E a \in FreeSlots : \A b \in FreeSlots : ~(<<b, a>> \in OpToRel(<, Nat))
    BY <1>1, NatLessThanWellFounded, WFMin
  <1>3. PICK a \in FreeSlots : \A b \in FreeSlots : ~(<<b, a>> \in OpToRel(<, Nat))
    BY <1>2
  <1>4. \A b \in FreeSlots : a <= b
    <2> TAKE b \in FreeSlots
    <2>1. a \in Nat /\ b \in Nat
      BY <1>1
    <2>2. <<b, a>> \in OpToRel(<, Nat) <=> b < a
      BY <2>1 DEF OpToRel
    <2>3. ~(b < a)
      BY <1>3, <2>2
    <2> QED
      BY <2>1, <2>3
  <1> QED
    BY <1>4 DEF FirstFree

LEMMA FirstFreeAtStart ==
    ASSUME TypeOK, AccountInv, window = "new"
    PROVE  FirstFree = 0
  <1>1. 0 \in Slot /\ \A a \in Slot : a >= 0
    BY AccAssumption DEF Slot
  <1>2. FreeSlots = Slot
    BY DEF FreeSlots, AccountInv
  <1>3. FirstFree \in FreeSlots /\ \A b \in FreeSlots : FirstFree <= b
    <2>1. \A b \in FreeSlots : 0 <= b
      BY <1>1, <1>2
    <2> QED
      BY <1>1, <1>2, <2>1 DEF FirstFree
  <1> QED
    BY <1>1, <1>2, <1>3, AccAssumption DEF Slot

-----------------------------------------------------------------------------
(* Types *)

LEMMA TypesInit == Init => TypeOK
  BY AccAssumption DEF Init, TypeOK, Slot, PJSUA_INVALID_ID, Line, Exiting, Ended

\* HangUp keeps the type of calls.
LEMMA HangUpType ==
    ASSUME TypeOK, NEW L, HangUp(L)
    PROVE  calls' \in [Line -> {"none", "up", "ending"}]
  BY DEF TypeOK, HangUp

\* RemoveBegins keeps the types of reg and calls, and goes on with an account
\* that is registered.
LEMMA RemoveBeginsTypes ==
    ASSUME TypeOK, NEW del, NEW next, RemoveBegins(del, next)
    PROVE  /\ calls' \in [Line -> {"none", "up", "ending"}]
           /\ reg' \in [Slot -> {"none", "pending", "ok", "leaving", "failed"}]
           /\ window' \in {del, next}
           /\ \A a \in Slot : reg'[a] # reg[a] => a = acc_id /\ reg[a] = "ok" /\ reg'[a] = "leaving"
           /\ window' = next \/ (acc_id \in Slot /\ account[acc_id] # "free" /\ reg[acc_id] = "ok")
  <1>1. CASE pjsua_acc_is_valid(acc_id)
    <2>1. HangUp({"phone"})
      BY <1>1 DEF RemoveBegins
    <2>2. calls' \in [Line -> {"none", "up", "ending"}]
      BY <2>1, HangUpType
    <2>3. acc_id \in Slot /\ account[acc_id] # "free"
      BY <1>1 DEF pjsua_acc_is_valid, TypeOK
    <2>4. reg' = IF reg[acc_id] = "ok" THEN [reg EXCEPT ![acc_id] = "leaving"] ELSE reg
      BY <1>1 DEF RemoveBegins, CanUnregister
    <2>5. window' = IF reg[acc_id] = "ok" THEN del ELSE next
      BY <1>1 DEF RemoveBegins, GoesOn, CanUnregister
    <2>6. /\ reg' \in [Slot -> {"none", "pending", "ok", "leaving", "failed"}]
          /\ \A a \in Slot : reg'[a] # reg[a] => a = acc_id /\ reg[a] = "ok" /\ reg'[a] = "leaving"
      BY <2>3, <2>4 DEF TypeOK
    <2> QED
      BY <2>2, <2>3, <2>5, <2>6
  <1>2. CASE ~pjsua_acc_is_valid(acc_id)
    BY <1>2 DEF RemoveBegins, TypeOK
  <1> QED
    BY <1>1, <1>2

LEMMA DelTypes ==
    ASSUME TypeOK, NEW a \in Slot, pjsua_acc_del(a)
    PROVE  /\ account' \in [Slot -> {"free", "default", "user"}]
           /\ reg' \in [Slot -> {"none", "pending", "ok", "leaving", "failed"}]
           /\ default_acc' \in Slot
  BY AccAssumption DEF TypeOK, pjsua_acc_del, Slot

LEMMA AddTypes ==
    ASSUME TypeOK, NEW kind \in {"default", "user"}, FirstFree \in Slot, pjsua_acc_add(kind)
    PROVE  /\ account' \in [Slot -> {"free", "default", "user"}]
           /\ reg' \in [Slot -> {"none", "pending", "ok", "leaving", "failed"}]
           /\ default_acc' \in Slot
  BY DEF TypeOK, pjsua_acc_add

LEMMA TypesStep ==
    ASSUME TypeOK, AccountInv, [Next]_vars
    PROVE  TypeOK'
  <1> USE DEF ui, other, pj
  <1>1. CASE StartSip
    <2>1. FirstFree \in Slot
      BY <1>1, FirstFreeAtStart, AccAssumption DEF StartSip, Slot
    <2>2. CASE pjsua_acc_add("default") /\ acc_id' = FirstFree /\ window' = "tone"
      <3>1. /\ account' \in [Slot -> {"free", "default", "user"}]
            /\ reg' \in [Slot -> {"none", "pending", "ok", "leaving", "failed"}]
            /\ default_acc' \in Slot
        BY <2>1, <2>2, AddTypes
      <3> QED
        BY <1>1, <2>1, <2>2, <3>1 DEF StartSip, TypeOK
    <2>3. CASE window' = "error" /\ UNCHANGED <<pj, acc_id>>
      BY <1>1, <2>3 DEF StartSip, TypeOK, Ended
    <2> QED
      BY <1>1, <2>2, <2>3 DEF StartSip
  <1>2. CASE Construct
    <2>1. window' \in {"links", "run", "abort"}
      BY <1>2 DEF Construct, InitNext
    <2> QED
      BY <1>2, <2>1 DEF Construct, TypeOK, Ended
  <1>3. CASE RegisterUser
    <2>1. FirstFree \in Slot
      BY <1>3, FirstFreeIsFree DEF RegisterUser, FreeSlots
    <2>2. /\ account' \in [Slot -> {"free", "default", "user"}]
          /\ reg' \in [Slot -> {"none", "pending", "ok", "leaving", "failed"}]
          /\ default_acc' \in Slot
      BY <1>3, <2>1, AddTypes DEF RegisterUser
    <2> QED
      BY <1>3, <2>1, <2>2 DEF RegisterUser, TypeOK
  <1>4. CASE RegisterUserFails
    <2>1. calls' \in [Line -> {"none", "up", "ending"}]
      BY <1>4, HangUpType DEF RegisterUserFails, pjsua_call_hangup_all
    <2>2. reg' \in [Slot -> {"none", "pending", "ok", "leaving", "failed"}]
      BY <1>4 DEF RegisterUserFails, TypeOK
    <2> QED
      BY <1>4, <2>1, <2>2 DEF RegisterUserFails, TypeOK
  <1>5. CASE UnRegisterUser
    <2>1. /\ calls' \in [Line -> {"none", "up", "ending"}]
          /\ reg' \in [Slot -> {"none", "pending", "ok", "leaving", "failed"}]
          /\ window' \in {"unregister", "run"}
      BY <1>5, RemoveBeginsTypes DEF UnRegisterUser
    <2> QED
      BY <1>5, <2>1 DEF UnRegisterUser, TypeOK
  <1>6. CASE UnRegistered
    <2>1. /\ account' \in [Slot -> {"free", "default", "user"}]
          /\ reg' \in [Slot -> {"none", "pending", "ok", "leaving", "failed"}]
          /\ default_acc' \in Slot
      BY <1>6, DelTypes DEF UnRegistered, RemoveEnds, AccountInv
    <2>2. acc_id' = PJSUA_INVALID_ID /\ window' = "run" /\ button' = "Register" /\ hasty' \in BOOLEAN
      BY <1>6 DEF UnRegistered, RemoveEnds, TypeOK
    <2> QED
      BY <1>6, <2>1, <2>2 DEF UnRegistered, TypeOK
  <1>7. CASE OnRegStateChanged
    <2>1. Tail(signals) \in Seq(BOOLEAN)
      BY <1>7, HeadTailProperties DEF OnRegStateChanged, TypeOK
    <2> QED
      BY <1>7, <2>1 DEF OnRegStateChanged, TypeOK
  <1>8. CASE ToggleAuto
    BY <1>8 DEF ToggleAuto, TypeOK
  <1>9. ASSUME NEW a \in Slot, RegAccepted(a) \/ RegLost(a) \/ RegRefresh(a) PROVE TypeOK'
    <2>1. reg' \in [Slot -> {"none", "pending", "ok", "leaving", "failed"}]
      BY <1>9 DEF RegAccepted, RegLost, RegRefresh, TypeOK
    <2>2. signals' \in Seq(BOOLEAN) /\ m_Register' \in BOOLEAN
      <3>1. \A v \in BOOLEAN : Append(signals, v) \in Seq(BOOLEAN)
        BY DEF TypeOK
      <3>2. CASE RegAccepted(a) \/ RegLost(a)
        <4>1. PICK v \in BOOLEAN : signals' = Append(signals, v) /\ m_Register' = v
          BY <3>2 DEF RegAccepted, RegLost, OnRegState, Emitted
        <4> QED
          BY <3>1, <4>1
      <3>3. CASE RegRefresh(a)
        BY <3>3 DEF RegRefresh, TypeOK
      <3> QED
        BY <1>9, <3>2, <3>3
    <2>3. UNCHANGED <<window, account, default_acc, acc_id, ui, calls, other>>
      BY <1>9 DEF RegAccepted, RegLost, RegRefresh, OnRegState
    <2> QED
      BY <2>1, <2>2, <2>3 DEF TypeOK
  <1>10. ASSUME NEW l \in Line, CallUp(l) \/ Disconnected(l) PROVE TypeOK'
    <2>1. calls' \in [Line -> {"none", "up", "ending"}]
      BY <1>10 DEF CallUp, Disconnected, TypeOK
    <2> QED
      BY <1>10, <2>1 DEF CallUp, Disconnected, TypeOK
  <1>11. CASE TcpClient
    BY <1>11 DEF TcpClient, TypeOK
  <1>12. CASE Exit \/ UinitUdp \/ UinitTcp \/ Quit
    <2>1. window' \in {"udp", "tcp", "hangup", "abort", "exit", "error"}
      BY <1>12 DEF Exit, UinitUdp, UinitTcp, Quit
    <2> QED
      BY <1>12, <2>1 DEF Exit, UinitUdp, UinitTcp, Quit, TypeOK, Exiting, Ended
  <1>13. CASE ExitHangup
    <2>1. calls' \in [Line -> {"none", "up", "ending"}]
      BY <1>13, HangUpType DEF ExitHangup, pjsua_call_hangup_all
    <2> QED
      BY <1>13, <2>1 DEF ExitHangup, TypeOK, Exiting
  <1>14. CASE ExitRemove
    <2>1. /\ calls' \in [Line -> {"none", "up", "ending"}]
          /\ reg' \in [Slot -> {"none", "pending", "ok", "leaving", "failed"}]
          /\ window' \in {"default_del", "user", "user_del", "destroy"}
      BY <1>14, RemoveBeginsTypes DEF ExitRemove, AfterRemove
    <2> QED
      BY <1>14, <2>1 DEF ExitRemove, TypeOK, Exiting
  <1>15. CASE ExitDelete
    <2>1. /\ account' \in [Slot -> {"free", "default", "user"}]
          /\ reg' \in [Slot -> {"none", "pending", "ok", "leaving", "failed"}]
          /\ default_acc' \in Slot
      BY <1>15, DelTypes DEF ExitDelete, RemoveEnds, AccountInv
    <2>2. acc_id' = PJSUA_INVALID_ID /\ window' \in {"user", "destroy"}
      BY <1>15 DEF ExitDelete, RemoveEnds, AfterRemove
    <2> QED
      BY <1>15, <2>1, <2>2 DEF ExitDelete, TypeOK, Exiting
  <1>16. CASE Destroy
    <2>1. calls' \in [Line -> {"none", "up", "ending"}]
      BY <1>16, HangUpType DEF Destroy, pjsua_call_hangup_all
    <2>2. reg' \in [Slot -> {"none", "pending", "ok", "leaving", "failed"}]
      BY <1>16 DEF Destroy, TypeOK
    <2> QED
      BY <1>16, <2>1, <2>2 DEF Destroy, TypeOK, Exiting
  <1>17. CASE UNCHANGED vars
    BY <1>17 DEF vars, TypeOK
  <1> QED
    BY <1>1, <1>2, <1>3, <1>4, <1>5, <1>6, <1>7, <1>8, <1>9, <1>10, <1>11, <1>12, <1>13,
       <1>14, <1>15, <1>16, <1>17 DEF Next, Window, User, Worker

-----------------------------------------------------------------------------
(* The table *)

LEMMA AccountInit == Init => AccountInv
  BY DEF Init, AccountInv, Running, Ended, PJSUA_INVALID_ID

\* acc_del of another account than 0 leaves account 0 and a default there.
LEMMA DelKeeps ==
    ASSUME TypeOK, AccountInv, Running, acc_id \in Slot \ {0}, RemoveEnds,
           window' \notin {"new", "unregister", "default_del", "user_del"}
    PROVE  AccountInv'
  <1>1. 0 \in Slot
    BY AccAssumption DEF Slot
  <1>2. /\ account' = [account EXCEPT ![acc_id] = "free"]
        /\ reg' = [reg EXCEPT ![acc_id] = "none"]
        /\ default_acc' = IF default_acc = acc_id THEN 0 ELSE default_acc
    BY DEF RemoveEnds, pjsua_acc_del
  <1>3. account'[0] = "default" /\ account'[default_acc'] # "free"
    BY <1>1, <1>2 DEF AccountInv, TypeOK
  <1>4. \A a \in Slot : reg'[a] # "none" => account'[a] = "user"
    BY <1>2 DEF AccountInv, TypeOK
  <1> QED
    BY <1>3, <1>4 DEF AccountInv

LEMMA AccountStep ==
    ASSUME TypeOK, AccountInv, [Next]_vars
    PROVE  AccountInv'
  <1> USE DEF ui, other, pj
  <1>0. 0 \in Slot
    BY AccAssumption DEF Slot
  <1>1. CASE StartSip
    <2>1. CASE pjsua_acc_add("default") /\ window' = "tone"
      <3>1. window = "new" /\ FirstFree = 0
        BY <1>1, FirstFreeAtStart DEF StartSip
      <3>2. /\ account' = [account EXCEPT ![0] = "default"]
            /\ reg' = [reg EXCEPT ![0] = "none"] /\ default_acc' = 0
        BY <2>1, <3>1 DEF pjsua_acc_add
      <3> QED
        BY <1>0, <2>1, <3>1, <3>2 DEF AccountInv, TypeOK
    <2>2. CASE window' = "error" /\ UNCHANGED <<pj, acc_id>>
      BY <2>2 DEF AccountInv, Running, Ended
    <2> QED
      BY <1>1, <2>1, <2>2 DEF StartSip
  <1>2. CASE Construct
    <2>1. window \in {"tone", "links"} /\ window' \in {"links", "run", "abort"}
      BY <1>2 DEF Construct, InitNext
    <2> QED
      BY <1>2, <2>1 DEF Construct, AccountInv, Running, Ended
  <1>3. CASE RegisterUser
    <2>1. FirstFree \in Slot /\ account[FirstFree] = "free"
      BY <1>3, FirstFreeIsFree DEF RegisterUser, FreeSlots
    <2>2. /\ account' = [account EXCEPT ![FirstFree] = "user"]
          /\ reg' = [reg EXCEPT ![FirstFree] = "pending"] /\ default_acc' = FirstFree
      BY <1>3 DEF RegisterUser, pjsua_acc_add
    <2>3. window = "run" /\ window' = "run"
      BY <1>3 DEF RegisterUser
    <2>4. account[0] = "default"
      BY <2>3 DEF AccountInv, Running, Ended
    <2>5. account'[0] = "default" /\ account'[default_acc'] # "free"
      BY <1>0, <2>1, <2>2, <2>4 DEF TypeOK
    <2>6. \A a \in Slot : reg'[a] # "none" => account'[a] = "user"
      BY <2>1, <2>2 DEF AccountInv, TypeOK
    <2> QED
      BY <2>3, <2>5, <2>6 DEF AccountInv
  <1>4. CASE RegisterUserFails
    <2>1. \A a \in Slot : reg'[a] # "none" => reg[a] # "none"
      BY <1>4 DEF RegisterUserFails, CanUnregister, TypeOK
    <2> QED
      BY <1>4, <2>1 DEF RegisterUserFails, AccountInv, Running, Ended
  <1>5. ASSUME NEW del, NEW next, RemoveBegins(del, next), UNCHANGED <<account, default_acc, acc_id>>,
               next \notin {"new", "unregister", "default_del", "user_del"}, del # "new", Running
        PROVE  AccountInv'
    <2>1. /\ window' \in {del, next}
          /\ \A a \in Slot : reg'[a] # reg[a] => a = acc_id /\ reg[a] = "ok" /\ reg'[a] = "leaving"
          /\ window' = next \/ (acc_id \in Slot /\ account[acc_id] # "free" /\ reg[acc_id] = "ok")
      BY <1>5, RemoveBeginsTypes
    <2>2. reg[0] = "none" /\ account[0] = "default"
      BY <1>0, <1>5 DEF AccountInv
    <2>3. \A a \in Slot : reg'[a] # "none" => account'[a] = "user"
      BY <1>5, <2>1 DEF AccountInv
    <2>4. window' # "new" /\ account'[0] = "default" /\ account'[default_acc'] # "free"
      BY <1>5, <2>1, <2>2 DEF AccountInv
    <2>5. window' = next \/ (acc_id' \in Slot \ {0} /\ account'[acc_id'] # "free")
      BY <1>5, <2>1, <2>2
    <2> QED
      BY <1>5, <2>3, <2>4, <2>5 DEF AccountInv
  <1>6. CASE UnRegisterUser
    BY <1>5, <1>6 DEF UnRegisterUser, Running, Ended
  <1>7. CASE UnRegistered
    BY <1>7, DelKeeps DEF UnRegistered, AccountInv, Running, Ended
  <1>8. CASE OnRegStateChanged \/ ToggleAuto \/ TcpClient
    BY <1>8 DEF OnRegStateChanged, ToggleAuto, TcpClient, AccountInv, Running
  <1>9. ASSUME NEW a \in Slot, RegAccepted(a) \/ RegLost(a) \/ RegRefresh(a) PROVE AccountInv'
    <2>1. UNCHANGED <<window, account, default_acc, acc_id>>
      BY <1>9 DEF RegAccepted, RegLost, RegRefresh, OnRegState
    <2>2. reg[a] # "none" /\ \A b \in Slot : b # a => reg'[b] = reg[b]
      BY <1>9 DEF RegAccepted, RegLost, RegRefresh, TypeOK
    <2>3. window # "new"
      BY <1>9 DEF RegAccepted, RegLost, RegRefresh, Running
    <2> QED
      BY <2>1, <2>2, <2>3 DEF AccountInv, Running
  <1>10. ASSUME NEW l \in Line, CallUp(l) \/ Disconnected(l) PROVE AccountInv'
    BY <1>10 DEF CallUp, Disconnected, AccountInv, Running
  <1>11. CASE Exit \/ UinitUdp \/ UinitTcp \/ ExitHangup \/ Quit
    <2>1. /\ window' \in {"udp", "tcp", "hangup", "default", "abort", "exit", "error"}
          /\ Running /\ UNCHANGED pj
      BY <1>11 DEF Exit, UinitUdp, UinitTcp, ExitHangup, Quit, Running, Ended
    <2> QED
      BY <2>1 DEF AccountInv
  <1>12. CASE ExitRemove
    <2>1. /\ \/ RemoveBegins("default_del", "user")
             \/ RemoveBegins("user_del", "destroy")
          /\ Running /\ UNCHANGED <<account, default_acc, acc_id>>
      BY <1>12 DEF ExitRemove, AfterRemove, Running, Ended
    <2> QED
      BY <1>5, <2>1
  <1>13. CASE ExitDelete
    <2>1. window' \in {"user", "destroy"} /\ RemoveEnds /\ acc_id \in Slot \ {0} /\ Running
      BY <1>13 DEF ExitDelete, AfterRemove, AccountInv, Running, Ended
    <2> QED
      BY <2>1, DelKeeps
  <1>14. CASE Destroy
    <2>1. \A a \in Slot : reg'[a] # "none" => reg[a] # "none"
      BY <1>14 DEF Destroy, CanUnregister
    <2> QED
      BY <1>14, <2>1 DEF Destroy, AccountInv, Running, Ended
  <1>15. CASE UNCHANGED vars
    BY <1>15 DEF vars, AccountInv, Running
  <1> QED
    BY <1>1, <1>2, <1>3, <1>4, <1>6, <1>7, <1>8, <1>9, <1>10, <1>11, <1>12, <1>13, <1>14, <1>15
    DEF Next, Window, User, Worker

-----------------------------------------------------------------------------
(* The button *)

\* A signal that is appended is the last one and is on its way.
LEMMA Appended ==
    ASSUME TypeOK, NEW v \in BOOLEAN, signals' = Append(signals, v)
    PROVE  /\ Last' = v
           /\ OnIts' => OnIts \/ v
           /\ ~v => \E i \in DOMAIN signals' : ~signals'[i]
  <1>1. signals \in Seq(BOOLEAN)
    BY DEF TypeOK
  <1>2. /\ signals' # <<>> /\ Len(signals') = Len(signals) + 1
        /\ DOMAIN signals' = 1 .. Len(signals) + 1
        /\ signals'[Len(signals) + 1] = v
        /\ \A i \in 1 .. Len(signals) : signals'[i] = signals[i]
    BY <1>1
  <1>3. DOMAIN signals = 1 .. Len(signals)
    BY <1>1
  <1>4. Len(signals) \in Nat
    BY <1>1
  <1>5. OnIts' => OnIts \/ v
    BY <1>2, <1>3, <1>4 DEF OnIts
  <1>6. Last' = v
    BY <1>2 DEF Last
  <1> QED
    BY <1>2, <1>4, <1>5, <1>6

\* What is left when the first signal is delivered.
LEMMA Delivered ==
    ASSUME TypeOK, OnRegStateChanged
    PROVE  /\ Last' = Last
           /\ OnIts' => OnIts
           /\ button' = "Unregister" => OnIts
  <1>1. signals \in Seq(BOOLEAN) /\ signals # <<>>
    BY DEF TypeOK, OnRegStateChanged
  <1>2. /\ Head(signals) = signals[1] /\ Tail(signals) \in Seq(BOOLEAN)
        /\ Len(Tail(signals)) = Len(signals) - 1 /\ Len(signals) \in Nat \ {0}
        /\ \A i \in 1 .. Len(Tail(signals)) : Tail(signals)[i] = signals[i + 1]
        /\ DOMAIN signals = 1 .. Len(signals) /\ DOMAIN Tail(signals) = 1 .. Len(signals) - 1
    BY <1>1, HeadTailProperties, EmptySeq
  <1>3. signals' = Tail(signals) /\ button' = IF signals[1] THEN "Unregister" ELSE "Register"
    BY <1>2 DEF OnRegStateChanged
  <1>4. OnIts' => OnIts
    BY <1>2, <1>3 DEF OnIts
  <1>5. button' = "Unregister" => OnIts
    BY <1>2, <1>3 DEF OnIts
  <1>6. Last' = Last
    <2>1. CASE Len(signals) = 1
      <3>1. Tail(signals) = <<>>
        BY <1>2, <2>1
      <3>2. Last = signals[1]
        BY <1>1, <2>1 DEF Last
      <3>3. Last' = (button' = "Unregister")
        BY <1>3, <3>1 DEF Last
      <3>4. signals[1] \in BOOLEAN
        BY <1>1, <1>2
      <3> QED
        BY <1>3, <3>2, <3>3, <3>4
    <2>2. CASE Len(signals) # 1
      <3>1. Tail(signals) # <<>>
        <4>1. Len(Tail(signals)) # 0
          BY <1>2, <2>2
        <4>2. Len(<<>>) = 0
          OBVIOUS
        <4> QED
          BY <4>1, <4>2
      <3>2. Last' = Tail(signals)[Len(signals) - 1]
        BY <1>2, <1>3, <3>1 DEF Last
      <3>3. Last = signals[Len(signals)]
        BY <1>1 DEF Last
      <3> QED
        BY <1>2, <2>2, <3>2, <3>3
    <2> QED
      BY <2>1, <2>2
  <1> QED
    BY <1>4, <1>5, <1>6

LEMMA ButtonInit == Init => ButtonInv
  BY DEF Init, ButtonInv, UserAccounts, OnIts, Last

LEMMA ButtonStep ==
    ASSUME TypeOK, AccountInv, ButtonInv, [Next]_vars
    PROVE  ButtonInv'
  <1> USE DEF ui, other, pj
  <1> SUFFICES ASSUME Early', ~hasty'
               PROVE  /\ UserAccounts' \subseteq {acc_id'}
                      /\ button' = "Unregister" \/ OnIts' => acc_id' \in UserAccounts'
                      /\ Last' => reg'[acc_id'] \in {"pending", "ok", "leaving"}
    BY DEF ButtonInv
  <1> DEFINE Goal == /\ UserAccounts' \subseteq {acc_id'}
                     /\ button' = "Unregister" \/ OnIts' => acc_id' \in UserAccounts'
                     /\ Last' => reg'[acc_id'] \in {"pending", "ok", "leaving"}
  <1>1. ASSUME UNCHANGED <<account, acc_id, signals, button, hasty>>, Early,
               \A a \in Slot : reg[a] \in {"pending", "ok", "leaving"}
                                => reg'[a] \in {"pending", "ok", "leaving"}
        PROVE  Goal
    <2>1. UserAccounts' = UserAccounts /\ OnIts' = OnIts /\ Last' = Last
      BY <1>1 DEF UserAccounts, OnIts, Last
    <2>2. acc_id \in UserAccounts => acc_id \in Slot
      BY DEF UserAccounts
    <2>3. Last => button = "Unregister" \/ OnIts
      <3>1. CASE signals = <<>>
        BY <3>1 DEF Last
      <3>2. CASE signals # <<>>
        <4>1. Len(signals) \in DOMAIN signals
          BY <3>2, EmptySeq DEF TypeOK
        <4> QED
          BY <3>2, <4>1 DEF Last, OnIts
      <3> QED
        BY <3>1, <3>2
    <2> QED
      BY <1>1, <2>1, <2>2, <2>3 DEF ButtonInv
  <1>2. CASE StartSip
    <2>1. window = "new" /\ window' = "tone" /\ pjsua_acc_add("default")
      BY <1>2 DEF StartSip, Early
    <2>2. \A a \in Slot : account[a] = "free"
      BY <2>1 DEF AccountInv
    <2>3. account' = [account EXCEPT ![FirstFree] = "default"]
      BY <2>1 DEF pjsua_acc_add
    <2>4. UserAccounts = {} /\ UserAccounts' = {}
      BY <2>2, <2>3 DEF UserAccounts, TypeOK
    <2>5. button # "Unregister" /\ ~OnIts
      BY <1>2, <2>1, <2>4 DEF ButtonInv, StartSip, Early
    <2>6. button' # "Unregister" /\ ~OnIts' /\ signals' = signals
      BY <1>2, <2>5 DEF StartSip, OnIts
    <2>7. ~Last'
      <3>1. CASE signals = <<>>
        BY <2>6, <3>1 DEF Last
      <3>2. CASE signals # <<>>
        <4>1. Len(signals) \in DOMAIN signals
          BY <3>2, EmptySeq DEF TypeOK
        <4> QED
          BY <2>5, <2>6, <3>2, <4>1 DEF Last, OnIts
      <3> QED
        BY <3>1, <3>2
    <2> QED
      BY <2>4, <2>6, <2>7
  <1>3. CASE RegisterUser
    <2>1. window = "run" /\ button = "Register" /\ button' = button /\ signals' = signals
      BY <1>3 DEF RegisterUser
    <2>2. ~hasty /\ UserAccounts = {}
      BY <1>3 DEF RegisterUser, TypeOK
    <2>3. ~OnIts
      BY <2>1, <2>2 DEF ButtonInv, Early
    <2>4. FirstFree \in Slot
      BY <1>3, FirstFreeIsFree DEF RegisterUser, FreeSlots
    <2>5. /\ account' = [account EXCEPT ![FirstFree] = "user"]
          /\ reg' = [reg EXCEPT ![FirstFree] = "pending"] /\ acc_id' = FirstFree
      BY <1>3 DEF RegisterUser, pjsua_acc_add
    <2>6. UserAccounts' = {acc_id'}
      BY <2>2, <2>4, <2>5 DEF UserAccounts, TypeOK
    <2>7. reg'[acc_id'] = "pending"
      BY <2>4, <2>5 DEF TypeOK
    <2> QED
      BY <2>6, <2>7
  <1>4. CASE UnRegisterUser
    <2>1. \A a \in Slot : reg[a] \in {"pending", "ok", "leaving"}
                             => reg'[a] \in {"pending", "ok", "leaving"}
      BY <1>4, RemoveBeginsTypes DEF UnRegisterUser
    <2> QED
      BY <1>1, <1>4, <2>1 DEF UnRegisterUser, Early
  <1>5. CASE UnRegistered
    <2>1. /\ button' = "Register" /\ signals' = signals /\ window = "unregister"
          /\ ~hasty /\ ~OnIts
      BY <1>5 DEF UnRegistered, OnIts, TypeOK
    <2>2. UserAccounts \subseteq {acc_id} /\ acc_id \in Slot
      BY <2>1 DEF ButtonInv, Early, AccountInv
    <2>3. account' = [account EXCEPT ![acc_id] = "free"]
      BY <1>5 DEF UnRegistered, RemoveEnds, pjsua_acc_del
    <2>4. UserAccounts' = {}
      BY <2>2, <2>3 DEF UserAccounts, TypeOK
    <2>5. ~OnIts'
      BY <2>1 DEF OnIts
    <2>6. ~Last'
      <3>1. CASE signals = <<>>
        BY <2>1, <3>1 DEF Last
      <3>2. CASE signals # <<>>
        <4>1. Len(signals) \in DOMAIN signals
          BY <3>2, EmptySeq DEF TypeOK
        <4> QED
          BY <2>1, <3>2, <4>1 DEF Last, OnIts
      <3> QED
        BY <3>1, <3>2
    <2> QED
      BY <2>1, <2>4, <2>5, <2>6
  <1>6. CASE OnRegStateChanged
    <2>1. /\ Last' = Last /\ (OnIts' => OnIts) /\ (button' = "Unregister" => OnIts)
          /\ UNCHANGED <<account, reg, acc_id, hasty>> /\ window = "run"
      BY <1>6, Delivered DEF OnRegStateChanged
    <2> QED
      BY <2>1 DEF ButtonInv, Early, UserAccounts
  <1>7. ASSUME NEW a \in Slot, RegAccepted(a) PROVE Goal
    <2>1. /\ reg[a] = "pending" /\ reg' = [reg EXCEPT ![a] = "ok"] /\ signals' = Append(signals, TRUE)
          /\ UNCHANGED <<window, account, acc_id, button, hasty>>
      BY <1>7 DEF RegAccepted, OnRegState, Emitted
    <2>2. UserAccounts \subseteq {acc_id} /\ a \in UserAccounts
      BY <2>1 DEF ButtonInv, Early, UserAccounts, AccountInv
    <2>3. a = acc_id /\ UserAccounts' = UserAccounts /\ reg'[a] = "ok"
      BY <2>1, <2>2 DEF UserAccounts, TypeOK
    <2> QED
      BY <2>1, <2>2, <2>3
  <1>8. ASSUME NEW a \in Slot, RegLost(a) PROVE Goal
    <2>1. signals' = Append(signals, FALSE) /\ UNCHANGED <<window, account, acc_id, button, hasty>>
      BY <1>8 DEF RegLost, OnRegState, Emitted
    <2>2. ~Last' /\ (OnIts' => OnIts)
      BY <2>1, Appended
    <2>3. UserAccounts' = UserAccounts
      BY <2>1 DEF UserAccounts
    <2> QED
      BY <2>1, <2>2, <2>3 DEF ButtonInv, Early
  <1>9. ASSUME NEW a \in Slot, RegRefresh(a) PROVE Goal
    <2>1. \A b \in Slot : reg[b] \in {"pending", "ok", "leaving"}
                             => reg'[b] \in {"pending", "ok", "leaving"}
      BY <1>9 DEF RegRefresh, TypeOK
    <2> QED
      BY <1>1, <1>9, <2>1 DEF RegRefresh, Early
  <1>10. CASE Construct \/ ToggleAuto \/ TcpClient \/ \E l \in Line : CallUp(l) \/ Disconnected(l)
    <2>1. Early /\ UNCHANGED <<pj, acc_id, signals, ui>>
      BY <1>10 DEF Construct, InitNext, ToggleAuto, TcpClient, CallUp, Disconnected, Early
    <2> QED
      BY <1>1, <2>1
  <1>11. CASE UNCHANGED vars
    BY <1>1, <1>11 DEF vars, Early
  <1>12. ~(RegisterUserFails \/ Exit \/ UinitUdp \/ UinitTcp \/ ExitHangup \/ Destroy \/ Quit)
    BY DEF RegisterUserFails, Exit, UinitUdp, UinitTcp, ExitHangup, Destroy, Quit, Early
  <1>13. ~(ExitRemove \/ ExitDelete)
    <2>1. ExitRemove => window' \in {"default_del", "user", "user_del", "destroy"}
      BY RemoveBeginsTypes DEF ExitRemove, AfterRemove
    <2> QED
      BY <2>1 DEF ExitDelete, AfterRemove, Early
  <1> QED
    BY <1>2, <1>3, <1>4, <1>5, <1>6, <1>7, <1>8, <1>9, <1>10, <1>11, <1>12, <1>13
    DEF Next, Window, User, Worker

-----------------------------------------------------------------------------
(* Leaving *)

LEMMA HangupInit == Init => HangupInv
  BY DEF Init, HangupInv

LEMMA HangupStep ==
    ASSUME TypeOK, HangupInv, [Next]_vars
    PROVE  HangupInv'
  <1> USE DEF ui, other, pj
  <1> SUFFICES ASSUME window' \in {"drain", "exit"} PROVE NoneLeftUp'
    BY DEF HangupInv
  <1>1. CASE Destroy
    <2>1. calls' = [l \in Line |-> IF l \in Line /\ calls[l] = "up" THEN "ending" ELSE calls[l]]
      BY <1>1 DEF Destroy, pjsua_call_hangup_all, HangUp
    <2> QED
      BY <2>1 DEF NoneLeftUp
  <1>2. ASSUME NEW l \in Line, CallUp(l) PROVE NoneLeftUp'
    BY <1>2 DEF CallUp, Running, Ended
  <1>3. ASSUME NEW l \in Line, Disconnected(l) PROVE NoneLeftUp'
    <2>1. window = "drain" /\ m_AutoCall' = m_AutoCall
      BY <1>3 DEF Disconnected, Running, Ended
    <2>2. calls' = [calls EXCEPT ![l] = IF m_AutoCall /\ l = "radio" THEN "up" ELSE "none"]
      BY <1>3 DEF Disconnected
    <2> QED
      BY <2>1, <2>2 DEF HangupInv, NoneLeftUp, TypeOK
  <1>4. CASE UNCHANGED <<calls, m_AutoCall>> /\ window \in {"drain", "exit"}
    BY <1>4 DEF HangupInv, NoneLeftUp
  <1>5. (\E a \in Slot : RegAccepted(a) \/ RegLost(a) \/ RegRefresh(a))
          => UNCHANGED <<window, calls, m_AutoCall>>
    BY DEF RegAccepted, RegLost, RegRefresh, OnRegState
  <1>6. Quit => UNCHANGED <<calls, m_AutoCall>> /\ window \in {"drain", "exit"}
    BY DEF Quit
  <1>7. UNCHANGED vars => UNCHANGED <<window, calls, m_AutoCall>>
    BY DEF vars
  <1>8. ~(OnRegStateChanged \/ UnRegistered \/ RegisterUser \/ ToggleAuto \/ TcpClient)
    BY DEF OnRegStateChanged, UnRegistered, RegisterUser, ToggleAuto, TcpClient
  <1>9. ~(UinitUdp \/ UinitTcp \/ ExitHangup \/ RegisterUserFails \/ Exit)
    BY DEF UinitUdp, UinitTcp, ExitHangup, RegisterUserFails, Exit
  <1>10. ~StartSip
    BY DEF StartSip
  <1>11. ~Construct
    BY DEF Construct, InitNext
  <1>12. ~(ExitRemove \/ ExitDelete \/ UnRegisterUser)
    <2>1. ExitRemove => window' \in {"default_del", "user", "user_del", "destroy"}
      BY RemoveBeginsTypes DEF ExitRemove, AfterRemove
    <2>2. UnRegisterUser => window' \in {"unregister", "run"}
      BY RemoveBeginsTypes DEF UnRegisterUser
    <2> QED
      BY <2>1, <2>2 DEF ExitDelete, AfterRemove
  <1> QED
    BY <1>1, <1>2, <1>3, <1>4, <1>5, <1>6, <1>7, <1>8, <1>12, <1>9, <1>10, <1>11
    DEF Next, Window, User, Worker

-----------------------------------------------------------------------------
(* Theorems *)

IInv == TypeOK /\ AccountInv /\ ButtonInv /\ HangupInv

LEMMA Inductive == Spec => []IInv
  <1>1. Init => IInv
    BY TypesInit, AccountInit, ButtonInit, HangupInit DEF IInv
  <1>2. IInv /\ [Next]_vars => IInv'
    BY TypesStep, AccountStep, ButtonStep, HangupStep DEF IInv
  <1> QED
    BY <1>1, <1>2, PTL DEF Spec

\* acc_id, m_Register, the button's text and pjsua's tables keep their types.
THEOREM TypeCorrect == Spec => []TypeOK
  <1>1. IInv => TypeOK
    BY DEF IInv
  <1> QED
    BY <1>1, Inductive, PTL

\* makeCall calls from pjsua_acc_get_default(): from pjsua_start to the end
\* that account exists, for a table of any size.
THEOREM DefaultSafe == Spec => []DefaultIsLive
  <1>1. IInv => DefaultIsLive
    BY DEF IInv, AccountInv, DefaultIsLive
  <1> QED
    BY <1>1, Inductive, PTL

\* What onRegStateChanged and UnRegisterUser write on the button is true of
\* the account behind it, however many signals wait in Qt's queue.
THEOREM UnregisterSafe == Spec => []UnregisterHasAccount
  <1>1. IInv => UnregisterHasAccount
    <2> SUFFICES ASSUME IInv, button = "Unregister", ~hasty, window \in {"run", "unregister"}
                 PROVE  /\ acc_id \in UserAccounts
                        /\ \/ reg[acc_id] \in {"pending", "ok", "leaving"}
                           \/ \E i \in DOMAIN signals : ~signals[i]
      BY DEF UnregisterHasAccount
    <2>1. /\ acc_id \in UserAccounts
          /\ Last => reg[acc_id] \in {"pending", "ok", "leaving"}
      BY DEF IInv, ButtonInv, Early
    <2>2. Last \/ \E i \in DOMAIN signals : ~signals[i]
      <3>1. CASE signals = <<>>
        BY <3>1 DEF Last
      <3>2. CASE signals # <<>>
        <4>1. Len(signals) \in DOMAIN signals
          BY <3>2, EmptySeq DEF IInv, TypeOK
        <4> QED
          BY <3>2, <4>1 DEF Last
      <3> QED
        BY <3>1, <3>2
    <2> QED
      BY <2>1, <2>2
  <1> QED
    BY <1>1, Inductive, PTL

\* When app_exit reaches exit(0) no call is up but one auto-call dialled again.
THEOREM ExitSafe == Spec => []ExitHangsUp
  <1>1. IInv => ExitHangsUp
    BY DEF IInv, HangupInv, ExitHangsUp
  <1> QED
    BY <1>1, Inductive, PTL
=============================================================================
