---------------------------- MODULE Registration ----------------------------
(***************************************************************************)
(* Logging an endpoint in and out of the Plivo cloud.                      *)
(*                                                                         *)
(* Three layers hold a part of the answer to "is this endpoint logged in": *)
(* Endpoint.java (isRegistered, isLogoutInProgress), BackendListener.java  *)
(* (isLoggedIn) and plivo_app_callback.cpp (is_logged_in,                  *)
(* logout_requested, acc_id).  Below them pjsua keeps the SIP accounts.    *)
(*                                                                         *)
(* Two threads write that state: the application's thread runs login(),    *)
(* logout() and the like, and the pjsua worker runs on_reg_state2 and the  *)
(* Java callbacks it calls.  The worker holds the pjsua lock during the    *)
(* whole callback, so a native call that takes the lock waits for the      *)
(* callback to end, but nothing guards the flags.                          *)
(***************************************************************************)
EXTENDS Integers

CONSTANTS MaxAcc,       \* number of pjsua account slots (PJSUA_MAX_ACC)
          Codes,        \* the final SIP codes a REGISTER can be answered with
          TempCodes,    \* those after which pjsua retries by itself
          AllowRelogin, \* may login() be called while another account is alive?
          AllowReset    \* may resetEndpoint() be called?

ASSUME MaxAccAssumption == MaxAcc \in Nat \ {0}
ASSUME CodesAssumption == Codes \subseteq 200..699 /\ TempCodes \subseteq Codes \ {200}
ASSUME PolicyAssumption == AllowRelogin \in BOOLEAN /\ AllowReset \in BOOLEAN

OK == 200
Slots == 0 .. MaxAcc - 1

(***************************************************************************)
(* A slot is free; its REGISTER or un-REGISTER is in flight ("reg",        *)
(* "unreg"; pjsip refuses a second request meanwhile); it is idle with a   *)
(* registration session ("up"); or it lost the session ("down").           *)
(***************************************************************************)
AccStates == {"free", "reg", "unreg", "up", "down"}
InFlight == {"reg", "unreg"}

VARIABLES
  isRegistered, isLogoutInProgress, isRegWithDeviceToken, \* Endpoint.java
  isLoggedIn,                                             \* BackendListener.java
  is_logged_in, logout_requested, acc_id,                 \* plivo_app_callback.cpp
  acc,         \* pjsua: the state of each account slot
  retry,       \* pjsua: the slots whose re-registration timer is armed
  booted,      \* pjsua: created and not yet destroyed
  isConnected, \* NetworkChangeReceiver.java
  app,         \* where the application's thread is
  cb,          \* where the pjsua worker is in a registration callback
  latest, previous, \* history: the last two events the listener heard
  asked        \* history: a login() was accepted and not yet answered

javaFlags == <<isRegistered, isLogoutInProgress, isRegWithDeviceToken, isLoggedIn>>
nativeFlags == <<is_logged_in, logout_requested, acc_id>>
pjsua == <<acc, retry, booted>>
heard == <<latest, previous>>
vars == <<javaFlags, nativeFlags, pjsua, isConnected, app, cb, heard, asked>>

AppStates == {"idle", "login", "add", "logout", "logoutDone", "reset", "lost"}
CbStates == {"idle", "onLogin", "onLoginTell", "onLogout", "onLogoutFlags", "onLoginFailed"}
Events == {"start", "onLogin", "onLogout", "onLoginFailed"}

FlagsOK ==
  /\ isRegistered \in BOOLEAN /\ isLogoutInProgress \in BOOLEAN
  /\ isRegWithDeviceToken \in BOOLEAN /\ isLoggedIn \in BOOLEAN
  /\ is_logged_in \in BOOLEAN /\ logout_requested \in BOOLEAN /\ isConnected \in BOOLEAN

AccountsOK ==
  acc_id \in Slots /\ acc \in [Slots -> AccStates] /\ retry \in SUBSET Slots

ControlOK ==
  /\ app \in AppStates /\ cb \in CbStates /\ booted \in BOOLEAN
  /\ latest \in Events /\ previous \in Events /\ asked \in BOOLEAN

TypeOK == FlagsOK /\ AccountsOK /\ ControlOK

Init ==
  /\ isRegistered = FALSE /\ isLogoutInProgress = FALSE
  /\ isRegWithDeviceToken = FALSE /\ isLoggedIn = FALSE
  /\ is_logged_in = FALSE /\ logout_requested = FALSE /\ acc_id = 0
  /\ acc = [s \in Slots |-> "free"] /\ retry = {} /\ booted = TRUE
  /\ isConnected = TRUE /\ app = "idle" /\ cb = "idle"
  /\ latest = "start" /\ previous = "start" /\ asked = FALSE

(* The listener is called with e. *)
Tell(e) == latest' = e /\ previous' = latest

Unlocked == cb = "idle"  \* the pjsua lock is free
Valid(s) == acc[s] # "free"
Alive(s) == acc[s] \in {"reg", "unreg", "up"} \/ s \in retry
LowestFree(s) == ~Valid(s) /\ \A t \in Slots : t < s => Valid(t)

-----------------------------------------------------------------------------
(* The application's thread: login().                                      *)

LoginPolicy == AllowRelogin \/ \A s \in Slots : ~Alive(s)

(* Endpoint.login up to plivo.LoginSip; an endpoint already registered     *)
(* returns true without going on, which changes nothing modelled here.     *)
Login(withToken) ==
  /\ app = "idle" /\ LoginPolicy
  /\ isConnected /\ ~isRegistered
  /\ isRegWithDeviceToken' = withToken
  /\ app' = "login"
  /\ UNCHANGED <<isRegistered, isLogoutInProgress, isLoggedIn, nativeFlags, pjsua,
                 isConnected, cb, heard, asked>>

(* Mutant: the new account's position, counted from one, is kept as its id. *)
AddAccountCounted ==
  \E s \in Slots : LowestFree(s) /\ acc_id' = s + 1 /\ acc' = [acc EXCEPT ![s] = "reg"]

(* Mutant: the new account's id is not kept. *)
AddAccountForgotten ==
  \E s \in Slots : LowestFree(s) /\ acc' = [acc EXCEPT ![s] = "reg"] /\ UNCHANGED acc_id

(* pjsua_acc_add: the lowest free slot, and its REGISTER. *)
AddAccount ==
  \E s \in Slots : LowestFree(s) /\ acc_id' = s /\ acc' = [acc EXCEPT ![s] = "reg"]

(* LoginSip up to pjsua_acc_add: a logged-in backend ignores the request   *)
(* and reports success.  The flag is looked at without the lock, and is    *)
(* not looked at again once the lock is had.                               *)
LoginSip ==
  /\ app = "login"
  /\ app' = IF is_logged_in THEN "idle" ELSE "add"
  /\ UNCHANGED <<javaFlags, nativeFlags, pjsua, isConnected, cb, heard, asked>>

(* The rest of it: an account is added under the pjsua lock, or cannot be  *)
(* for want of a slot or of a transport.                                   *)
LoginSipAdds ==
  /\ app = "add" /\ Unlocked
  /\ app' = "idle"
  /\ \/ booted /\ AddAccount /\ asked' = TRUE
     \/ /\ booted => \A s \in Slots : Valid(s)
        /\ UNCHANGED <<acc_id, acc, asked>>
  /\ UNCHANGED <<javaFlags, is_logged_in, logout_requested, retry, booted,
                 isConnected, cb, heard>>

-----------------------------------------------------------------------------
(* The application's thread: logout().                                     *)

(* Endpoint.logout and plivo.Logout up to pjsua_acc_set_registration.  The *)
(* native call reports success when there is nothing to log out of.        *)
Logout ==
  /\ app = "idle"
  /\ isConnected /\ isRegistered /\ ~isLogoutInProgress
  /\ IF Valid(acc_id)
     THEN logout_requested' = TRUE /\ app' = "logout"
     ELSE UNCHANGED logout_requested /\ app' = "logoutDone"
  /\ UNCHANGED <<javaFlags, is_logged_in, acc_id, pjsua, isConnected, cb, heard, asked>>

(* Mutant: the session is taken to be over with the request. *)
SendUnregisterEager ==
  /\ app = "logout" /\ Unlocked
  /\ retry' = retry \ {acc_id}
  /\ is_logged_in' = FALSE
  /\ IF acc[acc_id] = "up"
     THEN /\ acc' = [acc EXCEPT ![acc_id] = "unreg"]
          /\ app' = "logoutDone"
          /\ UNCHANGED logout_requested
     ELSE /\ logout_requested' = FALSE
          /\ app' = "idle"
          /\ UNCHANGED acc
  /\ UNCHANGED <<javaFlags, acc_id, booted, isConnected, cb, heard, asked>>

(* pjsua_acc_set_registration(acc_id, PJ_FALSE), under the pjsua lock; it  *)
(* fails without a registration session or with a request in flight.       *)
SendUnregister ==
  /\ app = "logout" /\ Unlocked
  /\ retry' = retry \ {acc_id}
  /\ IF acc[acc_id] = "up"
     THEN /\ acc' = [acc EXCEPT ![acc_id] = "unreg"]
          /\ app' = "logoutDone"
          /\ UNCHANGED logout_requested
     ELSE /\ logout_requested' = FALSE
          /\ app' = "idle"
          /\ UNCHANGED acc
  /\ UNCHANGED <<javaFlags, is_logged_in, acc_id, booted, isConnected, cb, heard, asked>>

(* Back in Endpoint.logout: the assignment after plivo.Logout() returned 0. *)
LogoutReturns ==
  /\ app = "logoutDone"
  /\ isLogoutInProgress' = TRUE
  /\ app' = "idle"
  /\ UNCHANGED <<isRegistered, isRegWithDeviceToken, isLoggedIn, nativeFlags, pjsua,
                 isConnected, cb, heard, asked>>

-----------------------------------------------------------------------------
(* The application's thread: keeping the registration up.                  *)

(* pjsua_acc_set_registration(acc_id, PJ_TRUE): no effect while a request   *)
(* is in flight.                                                           *)
Reregister ==
  /\ acc' = [acc EXCEPT ![acc_id] = IF @ \in InFlight THEN @ ELSE "reg"]
  /\ retry' = retry \ {acc_id}

(* Endpoint.keepAlive. *)
KeepAlive ==
  /\ app = "idle" /\ isRegistered /\ Unlocked
  /\ Valid(acc_id) /\ Reregister
  /\ UNCHANGED <<javaFlags, nativeFlags, booted, isConnected, app, cb, heard, asked>>

(* Endpoint.setRegTimeout: the changed account is registered again. *)
SetRegTimeout ==
  /\ app = "idle" /\ isRegistered /\ Unlocked
  /\ Valid(acc_id) /\ Reregister
  /\ UNCHANGED <<javaFlags, nativeFlags, booted, isConnected, app, cb, heard, asked>>

(* Endpoint.relayVoipPushNotification: the account gets the pushed         *)
(* registrar as its proxy, so pjsua drops the old session (and the answer  *)
(* to any request in flight with it) and registers through a new one.      *)
(* Nothing changes when the registrar is no URI or pjsua_acc_modify fails, *)
(* as it does for an account that is not there.  For such an account       *)
(* pjsua_acc_get_config leaves acc_cfg as the stack had it, and the walk   *)
(* along its header list may as well never come back.                      *)
RelayVoipPushNotification ==
  /\ app = "idle" /\ Unlocked
  /\ isRegistered \/ isRegWithDeviceToken
  /\ \/ /\ Valid(acc_id)
        /\ acc' = [acc EXCEPT ![acc_id] = "reg"]
        /\ retry' = retry \ {acc_id}
        /\ UNCHANGED app
     \/ UNCHANGED <<acc, retry, app>>
     \/ ~Valid(acc_id) /\ app' = "lost" /\ UNCHANGED <<acc, retry>>
  /\ UNCHANGED <<javaFlags, nativeFlags, booted, isConnected, cb, heard, asked>>

(* Endpoint.resetEndpoint -> pjsua_destroy: un-REGISTER every account,     *)
(* serve answers for a while, then clear all of pjsua's state.  Nothing    *)
(* resets the flags above it.                                              *)
ResetEndpoint ==
  /\ AllowReset /\ app = "idle" /\ Unlocked /\ booted
  /\ acc' = [s \in Slots |-> IF acc[s] = "up" THEN "unreg" ELSE acc[s]]
  /\ retry' = {}
  /\ app' = "reset"
  /\ UNCHANGED <<javaFlags, nativeFlags, booted, isConnected, cb, heard, asked>>

ResetDone ==
  /\ app = "reset" /\ Unlocked
  /\ acc' = [s \in Slots |-> "free"] /\ retry' = {} /\ booted' = FALSE
  /\ app' = "idle"
  /\ UNCHANGED <<javaFlags, nativeFlags, isConnected, cb, heard, asked>>

-----------------------------------------------------------------------------
(* The pjsua worker: the answer to a (un-)REGISTER and on_reg_state2.      *)

(* What pjsua does to the account before it calls on_reg_state2. *)
AccAfter(s, code) ==
  IF code = OK /\ acc[s] = "reg" THEN "up" ELSE "down"

RetryAfter(s, code) ==
  IF code = OK THEN retry \ {s}
  ELSE IF code \in TempCodes THEN retry \cup {s} ELSE retry

(* Mutant: the request outlives the session. *)
UnregisteredKeepsRequest(s) ==
  /\ is_logged_in' = FALSE /\ UNCHANGED logout_requested
  /\ acc' = [acc EXCEPT ![s] = "free"] /\ cb' = "onLogout"

(* Mutant: the account is not deleted. *)
UnregisteredKeepsAccount(s) ==
  /\ is_logged_in' = FALSE /\ logout_requested' = FALSE
  /\ acc' = [acc EXCEPT ![s] = "down"] /\ cb' = "onLogout"

(* The requested logout is confirmed: the account is deleted. *)
Unregistered(s) ==
  /\ is_logged_in' = FALSE /\ logout_requested' = FALSE
  /\ acc' = [acc EXCEPT ![s] = "free"] /\ cb' = "onLogout"

(* on_reg_state2 decides by the code and the two flags alone: it looks     *)
(* neither at the account the answer is for nor at the request answered.   *)
on_reg_state2(s, code) ==
  \/ /\ code = OK /\ ~is_logged_in
     /\ is_logged_in' = TRUE
     /\ cb' = "onLogin"
     /\ acc' = [acc EXCEPT ![s] = AccAfter(s, code)]
     /\ UNCHANGED logout_requested
  \/ code = OK /\ is_logged_in /\ logout_requested /\ Unregistered(s)
  \/ /\ code = OK /\ is_logged_in /\ ~logout_requested
     /\ acc' = [acc EXCEPT ![s] = AccAfter(s, code)]
     /\ UNCHANGED <<is_logged_in, logout_requested, cb>>
  \/ /\ code # OK
     /\ acc' = [acc EXCEPT ![s] = AccAfter(s, code)]
     /\ cb' = "onLoginFailed"
     /\ UNCHANGED <<is_logged_in, logout_requested>>

RegResponse(s, code) ==
  /\ Unlocked /\ acc[s] \in InFlight
  /\ on_reg_state2(s, code)
  /\ retry' = RetryAfter(s, code)
  /\ UNCHANGED <<javaFlags, acc_id, booted, isConnected, app, heard, asked>>

(* Mutant: the listener is called, but the endpoint is not set registered. *)
OnLoginUnset ==
  /\ cb = "onLogin"
  /\ IF isLoggedIn
     THEN cb' = "idle" /\ UNCHANGED isLoggedIn
     ELSE cb' = "onLoginTell" /\ isLoggedIn' = TRUE
  /\ UNCHANGED <<isRegistered, isLogoutInProgress, isRegWithDeviceToken, nativeFlags, pjsua,
                 isConnected, app, heard, asked>>

(* BackendListener.onLogin up to setRegistered(true), from where on the    *)
(* application's thread finds the endpoint registered.  A second onLogin   *)
(* in a session is swallowed.                                              *)
OnLogin ==
  /\ cb = "onLogin"
  /\ IF isLoggedIn
     THEN cb' = "idle" /\ UNCHANGED <<isLoggedIn, isRegistered>>
     ELSE cb' = "onLoginTell" /\ isLoggedIn' = TRUE /\ isRegistered' = TRUE
  /\ UNCHANGED <<isLogoutInProgress, isRegWithDeviceToken, nativeFlags, pjsua,
                 isConnected, app, heard, asked>>

(* And then the listener. *)
OnLoginTell ==
  /\ cb = "onLoginTell" /\ cb' = "idle"
  /\ Tell("onLogin") /\ asked' = FALSE
  /\ UNCHANGED <<javaFlags, nativeFlags, pjsua, isConnected, app>>

(* Mutant: the listener's own flag stays set. *)
OnLogoutKeepsFlag ==
  /\ cb = "onLogout" /\ cb' = "onLogoutFlags"
  /\ isRegistered' = FALSE
  /\ UNCHANGED <<isLoggedIn, isLogoutInProgress, isRegWithDeviceToken, nativeFlags, pjsua,
                 isConnected, app, heard, asked>>

(* BackendListener.onLogout, up to the first assignment of setRegistered. *)
OnLogout ==
  /\ cb = "onLogout"
  /\ isLoggedIn' = FALSE /\ isRegistered' = FALSE
  /\ cb' = "onLogoutFlags"
  /\ UNCHANGED <<isLogoutInProgress, isRegWithDeviceToken, nativeFlags, pjsua,
                 isConnected, app, heard, asked>>

(* Mutant: the listener is not called. *)
OnLogoutFlagsSilent ==
  /\ cb = "onLogoutFlags" /\ cb' = "idle"
  /\ isLogoutInProgress' = FALSE /\ isRegWithDeviceToken' = FALSE
  /\ UNCHANGED <<isLoggedIn, isRegistered, nativeFlags, pjsua, isConnected, app, heard, asked>>

(* The rest of Endpoint.setRegistered(false), and the listener. *)
OnLogoutFlags ==
  /\ cb = "onLogoutFlags"
  /\ isLogoutInProgress' = FALSE /\ isRegWithDeviceToken' = FALSE
  /\ Tell("onLogout")
  /\ cb' = "idle"
  /\ UNCHANGED <<isLoggedIn, isRegistered, nativeFlags, pjsua, isConnected, app, asked>>

(* Mutant: the listener is told of every failure, that of a refresh too. *)
OnLoginFailedAlways ==
  /\ cb = "onLoginFailed" /\ cb' = "idle"
  /\ Tell("onLoginFailed") /\ asked' = FALSE
  /\ UNCHANGED <<javaFlags, nativeFlags, pjsua, isConnected, app>>

(* Mutant: the listener is never told. *)
OnLoginFailedSilent ==
  /\ cb = "onLoginFailed" /\ cb' = "idle"
  /\ UNCHANGED <<javaFlags, nativeFlags, pjsua, isConnected, app, heard, asked>>

(* BackendListener.onLoginFailed: only told outside a session. *)
OnLoginFailed ==
  /\ cb = "onLoginFailed"
  /\ cb' = "idle"
  /\ IF isLoggedIn
     THEN UNCHANGED <<heard, asked>>
     ELSE Tell("onLoginFailed") /\ asked' = FALSE
  /\ UNCHANGED <<javaFlags, nativeFlags, pjsua, isConnected, app>>

-----------------------------------------------------------------------------
(* pjsua's own timers and the network.                                     *)

(* A refresh before the registration expires. *)
AutoRefresh(s) ==
  /\ Unlocked /\ app # "reset" /\ acc[s] = "up"
  /\ acc' = [acc EXCEPT ![s] = "reg"]
  /\ UNCHANGED <<javaFlags, nativeFlags, retry, booted, isConnected, app, cb, heard, asked>>

(* The re-registration timer after a temporary failure. *)
AutoRetry(s) ==
  /\ Unlocked /\ s \in retry /\ acc[s] \in {"up", "down"}
  /\ acc' = [acc EXCEPT ![s] = "reg"]
  /\ retry' = retry \ {s}
  /\ UNCHANGED <<javaFlags, nativeFlags, booted, isConnected, app, cb, heard, asked>>

(* The account's connection to the server breaks. *)
TransportDown(s) ==
  /\ Unlocked /\ app # "reset" /\ acc[s] = "up" /\ s \notin retry
  /\ retry' = retry \cup {s}
  /\ UNCHANGED <<javaFlags, nativeFlags, acc, booted, isConnected, app, cb, heard, asked>>

(* NetworkChangeReceiver.onReceive -> isOnline. *)
NetworkChange ==
  /\ isConnected' = ~isConnected
  /\ UNCHANGED <<javaFlags, nativeFlags, pjsua, app, cb, heard, asked>>

-----------------------------------------------------------------------------
(* Calls of the application, which it may never make. *)
User ==
  \/ \E t \in BOOLEAN : Login(t)
  \/ Logout \/ KeepAlive \/ SetRegTimeout \/ RelayVoipPushNotification \/ ResetEndpoint

(* What a call goes on to do once made, and the worker's callbacks. *)
Running == LoginSip \/ LoginSipAdds \/ SendUnregister \/ LogoutReturns \/ ResetDone
Callback == OnLogin \/ OnLoginTell \/ OnLogout \/ OnLogoutFlags \/ OnLoginFailed
Answer == \E s \in Slots, code \in Codes : RegResponse(s, code)
Timer == \E s \in Slots : AutoRetry(s)
Environment == NetworkChange \/ \E s \in Slots : AutoRefresh(s) \/ TransportDown(s)

Next == User \/ Running \/ Callback \/ Answer \/ Timer \/ Environment

Spec == Init /\ [][Next]_vars

(***************************************************************************)
(* A call once made runs on, a callback once begun runs on, pjsip ends     *)
(* every REGISTER transaction (with 408 if the server is silent), and an   *)
(* armed timer fires.  Nothing obliges the application or the network.     *)
(***************************************************************************)
FairSpec ==
  /\ Spec
  /\ WF_vars(Running) /\ WF_vars(Callback) /\ WF_vars(Timer)
  /\ \A s \in Slots : WF_vars(\E code \in Codes : RegResponse(s, code))

-----------------------------------------------------------------------------
(* Properties.                                                             *)

(* The three layers agree: whenever the worker is not in the middle of     *)
(* passing an event up, Endpoint.isRegistered and                          *)
(* BackendListener.isLoggedIn say what the native is_logged_in says; and   *)
(* meanwhile they differ only by the event being passed.                   *)
LayersAgree ==
  /\ isRegistered = isLoggedIn
  /\ (cb = "onLogin" => is_logged_in /\ ~isLoggedIn)
  /\ (cb = "onLoginTell" => is_logged_in)
  /\ (cb \in {"onLogout", "onLogoutFlags"} => ~is_logged_in)
  /\ (cb = "onLogout" => isLoggedIn)
  /\ (cb \notin {"onLogin", "onLogout"} => isLoggedIn = is_logged_in)

(* What EventListener hears is a sequence of sessions: an onLogin is       *)
(* followed by its onLogout and by nothing else, and onLogout comes only   *)
(* after an onLogin; onLoginFailed stays outside the sessions.             *)
SessionEventsAlternate ==
  (previous = "onLogin") = (latest = "onLogout")

(* The application and the SDK agree about the session but for the event   *)
(* the worker is passing up: while it is in none of the two callbacks, the *)
(* last event heard was onLogin exactly when getRegistered() is true; and  *)
(* getRegistered() runs ahead of the listener, of onLogin as of onLogout,  *)
(* from setRegistered on and no longer than to the end of that callback.   *)
(* (Whether the registrar still knows the endpoint is another matter.)     *)
ListenerKnowsSession ==
  /\ cb = "onLoginTell" => isRegistered /\ latest # "onLogin"
  /\ cb = "onLogoutFlags" => ~isRegistered /\ latest = "onLogin"
  /\ cb \notin {"onLoginTell", "onLogoutFlags"} => (latest = "onLogin") = isRegistered

(* Without its layers the registration is a Session: to the application     *)
(* getRegistered() and the events are all there is.                        *)
Promise == INSTANCE Session WITH registered <- isRegistered, event <- latest

(* Every step of the three layers is a step of the promised session or     *)
(* does not show: no event without its session, no failure inside one, and *)
(* no new session before the old one's end is told.                        *)
IsSession == Promise!Spec

(* And the beginning and the end of every session are told. *)
IsFairSession == Promise!FairSpec

(* A logout is only ever requested of a session: the request of one        *)
(* session never survives it, or the next login would be undone by its own *)
(* first refresh.                                                          *)
LogoutRequestHasSession == logout_requested => is_logged_in

(* The account calls are made from is there as long as the session is, and *)
(* is gone when the end of the session is announced.                       *)
SessionHasAccount ==
  /\ is_logged_in /\ booted => Valid(acc_id)
  /\ cb = "onLogout" => ~Valid(acc_id)

(* Only the account of the last login() talks to the registrar, so that    *)
(* every answer on_reg_state2 sees is about it.                            *)
OneLiveAccount == \A s \in Slots : Alive(s) => s = acc_id /\ app \notin {"login", "add"}

(* What holds when the application logs in anew only once the account of   *)
(* its last attempt is dead.                                               *)
SingleInv == LogoutRequestHasSession /\ SessionHasAccount /\ OneLiveAccount

(* A login() that added an account is answered by onLogin or onLoginFailed. *)
LoginAnswered == asked ~> ~asked

(* A requested logout is settled: either the request is gone, with the     *)
(* session or because it could not be sent, or the registrar refused it.   *)
LogoutSettled == logout_requested ~> (~logout_requested \/ acc[acc_id] = "down")

(* "Logout is already in progress. Check for onLogout() callback.": while  *)
(* logout() is refused with those words, onLogout is still to come.        *)
LogoutInProgressEnds == isLogoutInProgress ~> ~isLogoutInProgress

(* "Login Success" is reported for the answer to a REGISTER, although the  *)
(* callback looks at the code alone: it is, as long as the application     *)
(* does not log in over a live account.                                    *)
LoginSuccessMeansRegistered ==
  [][cb = "idle" /\ cb' = "onLogin" => \E s \in Slots : acc[s] = "reg" /\ acc'[s] = "up"]_vars
=============================================================================
