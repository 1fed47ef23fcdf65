------------------------- MODULE RegistrationProofs -------------------------
(***************************************************************************)
(* What is proved of Registration for every number of account slots, every *)
(* set of SIP codes and every policy of the application.                   *)
(***************************************************************************)
EXTENDS Registration, TLAPS

-----------------------------------------------------------------------------
(* Type correctness: no step of either thread takes a flag, an account     *)
(* slot or a history variable out of its set of values.                    *)
THEOREM TypeCorrect == Spec => []TypeOK
<1> USE DEF javaFlags, nativeFlags, pjsua, heard
<1>1. Init => TypeOK
  <2>1. 0 \in Slots
    BY MaxAccAssumption DEF Slots
  <2>2. QED
    BY <2>1
    DEF Init, TypeOK, FlagsOK, AccountsOK, ControlOK, AccStates, AppStates, CbStates, Events
<1>2. ASSUME TypeOK, [Next]_vars PROVE FlagsOK'
  <2> USE <1>2 DEF TypeOK, FlagsOK
  <2>1. CASE User
    BY <2>1 DEF User, Login, Logout, KeepAlive, SetRegTimeout, Reregister,
                RelayVoipPushNotification, ResetEndpoint
  <2>2. CASE Running
    BY <2>2 DEF Running, LoginSip, LoginSipAdds, AddAccount, SendUnregister, LogoutReturns, ResetDone
  <2>3. CASE Callback
    BY <2>3 DEF Callback, OnLogin, OnLoginTell, OnLogout, OnLogoutFlags, OnLoginFailed
  <2>4. CASE Answer
    BY <2>4 DEF Answer, RegResponse, on_reg_state2, Unregistered
  <2>5. CASE Timer \/ Environment
    <3>1. ASSUME NEW s \in Slots, AutoRetry(s) PROVE FlagsOK'
      BY <3>1 DEF AutoRetry
    <3>2. CASE NetworkChange
      BY <3>2 DEF NetworkChange
    <3>3. ASSUME NEW s \in Slots, AutoRefresh(s) \/ TransportDown(s) PROVE FlagsOK'
      BY <3>3 DEF AutoRefresh, TransportDown
    <3>4. QED
      BY <2>5, <3>1, <3>2, <3>3 DEF Timer, Environment
  <2>6. CASE UNCHANGED vars
    BY <2>6 DEF vars
  <2>7. QED
    BY <2>1, <2>2, <2>3, <2>4, <2>5, <2>6 DEF Next
<1>3. ASSUME TypeOK, [Next]_vars PROVE AccountsOK'
  <2> USE <1>3 DEF TypeOK, AccountsOK, AccStates
  <2>1. CASE User
    BY <2>1 DEF User, Login, Logout, KeepAlive, SetRegTimeout, Reregister,
                RelayVoipPushNotification, ResetEndpoint, InFlight
  <2>2. CASE Running
    BY <2>2 DEF Running, LoginSip, LoginSipAdds, AddAccount, SendUnregister, LogoutReturns, ResetDone
  <2>3. CASE Callback
    BY <2>3 DEF Callback, OnLogin, OnLoginTell, OnLogout, OnLogoutFlags, OnLoginFailed
  <2>4. CASE Answer
    BY <2>4 DEF Answer, RegResponse, on_reg_state2, Unregistered, AccAfter, RetryAfter
  <2>5. CASE Timer \/ Environment
    BY <2>5 DEF Timer, Environment, AutoRetry, NetworkChange, AutoRefresh, TransportDown
  <2>6. CASE UNCHANGED vars
    BY <2>6 DEF vars
  <2>7. QED
    BY <2>1, <2>2, <2>3, <2>4, <2>5, <2>6 DEF Next
<1>4. ASSUME TypeOK, [Next]_vars PROVE ControlOK'
  <2> USE <1>4 DEF TypeOK, ControlOK, AppStates, CbStates, Events
  <2>1. CASE User
    BY <2>1 DEF User, Login, Logout, KeepAlive, SetRegTimeout, Reregister,
                RelayVoipPushNotification, ResetEndpoint
  <2>2. CASE Running
    BY <2>2 DEF Running, LoginSip, LoginSipAdds, AddAccount, SendUnregister, LogoutReturns, ResetDone
  <2>3. CASE Callback
    BY <2>3 DEF Callback, OnLogin, OnLoginTell, OnLogout, OnLogoutFlags, OnLoginFailed, Tell
  <2>4. CASE Answer
    BY <2>4 DEF Answer, RegResponse, on_reg_state2, Unregistered
  <2>5. CASE Timer \/ Environment
    BY <2>5 DEF Timer, Environment, AutoRetry, NetworkChange, AutoRefresh, TransportDown
  <2>6. CASE UNCHANGED vars
    BY <2>6 DEF vars
  <2>7. QED
    BY <2>1, <2>2, <2>3, <2>4, <2>5, <2>6 DEF Next
<1>5. TypeOK /\ [Next]_vars => TypeOK'
  BY <1>2, <1>3, <1>4 DEF TypeOK
<1>6. QED
  BY <1>1, <1>5, PTL DEF Spec

-----------------------------------------------------------------------------
(* The steps that touch neither the session flags nor the worker's place   *)
(* in a callback nor what the listener heard.                              *)
SessionVars == <<isRegistered, isLoggedIn, is_logged_in, cb, latest, previous>>

(* The session as the three layers and the listener see it. *)
SessionInv == LayersAgree /\ ListenerKnowsSession /\ SessionEventsAlternate

(* Every step either leaves the session alone or is the worker's. *)
LEMMA SessionSteps ==
  ASSUME [Next]_vars
  PROVE  \/ UNCHANGED SessionVars
         \/ \E s \in Slots, code \in Codes : RegResponse(s, code)
         \/ OnLogin \/ OnLoginTell \/ OnLogout \/ OnLogoutFlags \/ OnLoginFailed
<1> USE DEF SessionVars, javaFlags, nativeFlags, pjsua, heard
<1>1. CASE User
  BY <1>1 DEF User, Login, Logout, KeepAlive, SetRegTimeout, Reregister,
              RelayVoipPushNotification, ResetEndpoint
<1>2. CASE Running
  BY <1>2 DEF Running, LoginSip, LoginSipAdds, AddAccount, SendUnregister, LogoutReturns, ResetDone
<1>3. CASE Callback \/ Answer
  BY <1>3 DEF Callback, Answer
<1>4. CASE Timer \/ Environment
  BY <1>4 DEF Timer, Environment, AutoRetry, NetworkChange, AutoRefresh, TransportDown
<1>5. CASE UNCHANGED vars
  BY <1>5 DEF vars
<1>6. QED
  BY <1>1, <1>2, <1>3, <1>4, <1>5 DEF Next

(* isRegistered, isLoggedIn and is_logged_in agree whenever no event is on *)
(* its way up, and the listener hears whole sessions: however the threads  *)
(* interleave and however many accounts answer.                            *)
THEOREM SessionCorrect ==
  Spec => [](LayersAgree /\ ListenerKnowsSession /\ SessionEventsAlternate)
<1> USE DEF SessionInv, LayersAgree, ListenerKnowsSession, SessionEventsAlternate
<1>1. Init => SessionInv
  BY DEF Init
<1>2. TypeOK /\ SessionInv /\ [Next]_vars => SessionInv'
  <2> SUFFICES ASSUME TypeOK, SessionInv, [Next]_vars PROVE SessionInv'
    OBVIOUS
  <2>1. CASE UNCHANGED SessionVars
    BY <2>1 DEF SessionVars
  <2>2. ASSUME NEW s \in Slots, NEW code \in Codes, RegResponse(s, code)
        PROVE  SessionInv'
    BY <2>2 DEF TypeOK, FlagsOK, RegResponse, on_reg_state2, Unregistered, Unlocked, javaFlags,
                heard
  <2>3. CASE OnLogin
    BY <2>3 DEF TypeOK, FlagsOK, OnLogin, nativeFlags, heard
  <2>4. CASE OnLoginTell
    BY <2>4 DEF TypeOK, FlagsOK, OnLoginTell, Tell, javaFlags, nativeFlags
  <2>5. CASE OnLogout
    BY <2>5 DEF TypeOK, FlagsOK, OnLogout, nativeFlags, heard
  <2>6. CASE OnLogoutFlags
    BY <2>6 DEF TypeOK, FlagsOK, OnLogoutFlags, Tell, nativeFlags, heard
  <2>7. CASE OnLoginFailed
    BY <2>7 DEF TypeOK, OnLoginFailed, Tell, javaFlags, nativeFlags, heard
  <2>8. QED
    BY <2>1, <2>2, <2>3, <2>4, <2>5, <2>6, <2>7, SessionSteps
<1>3. QED
  BY <1>1, <1>2, TypeCorrect, PTL DEF Spec

(* Of these: whoever asks one of the three layers gets the others' answer, *)
(* but for the event the worker is passing up.                             *)
COROLLARY LayersAgreeCorrect == Spec => []LayersAgree
BY SessionCorrect, PTL

(* And getRegistered() is what the listener was told last, but for the     *)
(* event the worker is about to tell it.                                   *)
COROLLARY ListenerKnowsSessionCorrect == Spec => []ListenerKnowsSession
BY SessionCorrect, PTL

-----------------------------------------------------------------------------
(* An application that does not log in while an account of its own is      *)
(* alive has at most one account talking to the registrar; its session has *)
(* an account, and no logout request outlives the session it was made for. *)
THEOREM SingleAccountCorrect ==
  ASSUME AllowRelogin = FALSE
  PROVE  Spec => [](LogoutRequestHasSession /\ SessionHasAccount /\ OneLiveAccount)
<1> USE DEF SingleInv, LogoutRequestHasSession, SessionHasAccount, OneLiveAccount,
            Alive, Valid, javaFlags, nativeFlags, pjsua
<1>1. Init => SingleInv
  BY DEF Init
<1>2. TypeOK /\ SessionInv /\ SingleInv /\ [Next]_vars => SingleInv'
  <2> SUFFICES ASSUME TypeOK, SessionInv, SingleInv, [Next]_vars PROVE SingleInv'
    OBVIOUS
  <2> USE DEF TypeOK, FlagsOK, AccountsOK
  <2>1. ASSUME NEW t \in BOOLEAN, Login(t) PROVE SingleInv'
    BY <2>1, AllowRelogin = FALSE DEF Login, LoginPolicy
  <2>2. CASE Logout
    BY <2>2 DEF Logout, SessionInv, LayersAgree
  <2>3. CASE KeepAlive \/ SetRegTimeout
    BY <2>3 DEF KeepAlive, SetRegTimeout, Reregister, InFlight, Unlocked
  <2>4. CASE RelayVoipPushNotification
    BY <2>4 DEF RelayVoipPushNotification, Unlocked
  <2>5. CASE ResetEndpoint
    BY <2>5 DEF ResetEndpoint, Unlocked
  <2>6. CASE LoginSip \/ LoginSipAdds
    BY <2>6 DEF LoginSip, LoginSipAdds, AddAccount, Unlocked
  <2>7. CASE SendUnregister
    BY <2>7 DEF SendUnregister, Unlocked
  <2>8. CASE LogoutReturns
    BY <2>8 DEF LogoutReturns
  <2>9. CASE ResetDone
    BY <2>9 DEF ResetDone, Unlocked
  <2>10. CASE Callback
    BY <2>10 DEF Callback, OnLogin, OnLoginTell, OnLogout, OnLogoutFlags, OnLoginFailed
  <2>11. ASSUME NEW s \in Slots, NEW code \in Codes, RegResponse(s, code)
         PROVE  SingleInv'
    <3>1. s = acc_id
      BY <2>11 DEF RegResponse, InFlight
    <3>2. QED
      BY <2>11, <3>1 DEF RegResponse, on_reg_state2, Unregistered, AccAfter, RetryAfter,
                         Unlocked, InFlight
  <2>12. ASSUME NEW s \in Slots, AutoRetry(s) \/ AutoRefresh(s) \/ TransportDown(s)
         PROVE  SingleInv'
    BY <2>12 DEF AutoRetry, AutoRefresh, TransportDown, Unlocked
  <2>13. CASE NetworkChange
    BY <2>13 DEF NetworkChange
  <2>14. CASE UNCHANGED vars
    BY <2>14 DEF vars
  <2>15. QED
    BY <2>1, <2>2, <2>3, <2>4, <2>5, <2>6, <2>7, <2>8, <2>9, <2>10, <2>11, <2>12, <2>13, <2>14
    DEF Next, User, Running, Answer, Timer, Environment
<1>3. QED
  <2>1. Spec => []SessionInv
    BY SessionCorrect DEF SessionInv
  <2>2. QED
    BY <1>1, <1>2, <2>1, TypeCorrect, PTL DEF Spec

(* Of these: the logout request of one session is never met by the answer  *)
(* to the next session's refresh.                                          *)
COROLLARY LogoutRequestCorrect ==
  ASSUME AllowRelogin = FALSE
  PROVE  Spec => []LogoutRequestHasSession
<1>1. Spec => [](LogoutRequestHasSession /\ SessionHasAccount /\ OneLiveAccount)
  BY SingleAccountCorrect, AllowRelogin = FALSE
<1>2. QED
  BY <1>1, PTL

(* And calls are made from an account that is there.                       *)
COROLLARY SessionAccountCorrect ==
  ASSUME AllowRelogin = FALSE
  PROVE  Spec => []SessionHasAccount
<1>1. Spec => [](LogoutRequestHasSession /\ SessionHasAccount /\ OneLiveAccount)
  BY SingleAccountCorrect, AllowRelogin = FALSE
<1>2. QED
  BY <1>1, PTL

-----------------------------------------------------------------------------
(* An account that is registered, or is being unregistered, has a session:  *)
(* without one, the answer to a REGISTER is the only 200 there can be.      *)
RegisteredHasSession == \A s \in Slots : acc[s] \in {"up", "unreg"} => is_logged_in

(* For such an application onLogin is never the answer to something else,  *)
(* although on_reg_state2 looks neither at the account nor at the request. *)
THEOREM LoginSuccessCorrect ==
  ASSUME AllowRelogin = FALSE
  PROVE  Spec => LoginSuccessMeansRegistered
<1> USE DEF RegisteredHasSession, InFlight, javaFlags, nativeFlags, pjsua
<1>1. Init => RegisteredHasSession
  BY DEF Init
<1>2. TypeOK /\ SingleInv /\ RegisteredHasSession /\ [Next]_vars => RegisteredHasSession'
  <2> SUFFICES ASSUME TypeOK, SingleInv, RegisteredHasSession, [Next]_vars
               PROVE  RegisteredHasSession'
    OBVIOUS
  <2> USE DEF TypeOK, FlagsOK, AccountsOK
  <2>1. CASE User
    BY <2>1 DEF User, Login, Logout, KeepAlive, SetRegTimeout, Reregister,
                RelayVoipPushNotification, ResetEndpoint
  <2>2. CASE Running
    BY <2>2 DEF Running, LoginSip, LoginSipAdds, AddAccount, SendUnregister, LogoutReturns, ResetDone
  <2>3. CASE Callback
    BY <2>3 DEF Callback, OnLogin, OnLoginTell, OnLogout, OnLogoutFlags, OnLoginFailed
  <2>4. ASSUME NEW s \in Slots, NEW code \in Codes, RegResponse(s, code)
        PROVE  RegisteredHasSession'
    <3>1. \A r \in Slots : r # s => ~Alive(r)
      BY <2>4 DEF SingleInv, OneLiveAccount, Alive, RegResponse
    <3>2. QED
      BY <2>4, <3>1 DEF RegResponse, on_reg_state2, Unregistered, AccAfter, Alive
  <2>5. CASE Timer \/ Environment
    BY <2>5 DEF Timer, Environment, AutoRetry, NetworkChange, AutoRefresh, TransportDown
  <2>6. CASE UNCHANGED vars
    BY <2>6 DEF vars
  <2>7. QED
    BY <2>1, <2>2, <2>3, <2>4, <2>5, <2>6 DEF Next, Answer
<1>3. TypeOK /\ RegisteredHasSession /\ [Next]_vars =>
        [cb = "idle" /\ cb' = "onLogin" => \E s \in Slots : acc[s] = "reg" /\ acc'[s] = "up"]_vars
  <2> SUFFICES ASSUME TypeOK, RegisteredHasSession, [Next]_vars,
                      cb = "idle", cb' = "onLogin"
               PROVE  \E s \in Slots : acc[s] = "reg" /\ acc'[s] = "up"
    OBVIOUS
  <2>1. PICK s \in Slots, code \in Codes : RegResponse(s, code)
    BY SessionSteps DEF SessionVars, OnLogin, OnLoginTell, OnLogout, OnLogoutFlags, OnLoginFailed
  <2>2. acc[s] = "reg" /\ acc'[s] = "up"
    BY <2>1 DEF TypeOK, AccountsOK, RegResponse, on_reg_state2, Unregistered, AccAfter
  <2>3. QED
    BY <2>2
<1>4. QED
  <2>1. Spec => []SingleInv
    BY SingleAccountCorrect, AllowRelogin = FALSE DEF SingleInv
  <2>2. QED
    BY <1>1, <1>2, <1>3, <2>1, TypeCorrect, PTL DEF Spec, LoginSuccessMeansRegistered
-----------------------------------------------------------------------------
(* The layers implement the promised session, for every application and    *)
(* registrar: an endpoint becomes registered only when the listener's last *)
(* session was closed, ceases to be only when it heard of the session, and *)
(* nothing but the callbacks is visible.                                   *)
THEOREM SessionImplemented == Spec => IsSession
<1> USE DEF javaFlags, nativeFlags, pjsua, heard
<1>1. Init => Promise!Init
  BY DEF Init, Promise!Init
<1>2. TypeOK /\ SessionInv /\ [Next]_vars => [Promise!Next]_Promise!vars
  <2> SUFFICES ASSUME TypeOK, SessionInv, [Next]_vars PROVE [Promise!Next]_Promise!vars
    OBVIOUS
  <2> USE DEF TypeOK, FlagsOK, ControlOK, SessionInv, LayersAgree, ListenerKnowsSession,
              Promise!Next, Promise!vars
  <2>1. CASE OnLogin
    BY <2>1 DEF OnLogin, Promise!LogIn, Promise!Outside
  <2>2. CASE OnLoginTell
    BY <2>2 DEF OnLoginTell, Tell, Promise!TellLogin
  <2>3. CASE OnLogout
    BY <2>3 DEF OnLogout, Promise!LogOut, Promise!Inside
  <2>4. CASE OnLogoutFlags
    BY <2>4 DEF OnLogoutFlags, Tell, Promise!TellLogout
  <2>5. CASE OnLoginFailed
    BY <2>5 DEF OnLoginFailed, Tell, Promise!Fail, Promise!Outside
  <2>6. CASE UNCHANGED SessionVars
    BY <2>6 DEF SessionVars
  <2>7. ASSUME NEW s \in Slots, NEW code \in Codes, RegResponse(s, code)
        PROVE  UNCHANGED <<isRegistered, latest>>
    BY <2>7 DEF RegResponse
  <2>8. QED
    BY <2>1, <2>2, <2>3, <2>4, <2>5, <2>6, <2>7, SessionSteps
<1>3. Spec => []SessionInv
  BY SessionCorrect DEF SessionInv
<1>4. QED
  BY <1>1, <1>2, <1>3, TypeCorrect, PTL DEF Spec, IsSession, Promise!Spec
=============================================================================
