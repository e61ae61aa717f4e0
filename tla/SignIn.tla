------------------------------- MODULE SignIn -------------------------------
(***************************************************************************)
(* A student's sign-in: the account is open on one device at a time, the   *)
(* last that signed in.  A request is let in by the device it comes from,  *)
(* which the process remembers for some seconds; a session is there to be  *)
(* refreshed.  And the link that is mailed to set a forgotten password.    *)
(***************************************************************************)
EXTENDS Calling

CONSTANTS Devices, Changes, Nothing

VARIABLES
  bound,     \* User.boundDeviceId
  sessions,  \* how many UserSessions each device has
  cached,    \* deviceCache, of the process
  change,    \* StudentDeviceChangeRequests
  latest,    \* the device the account was last given to
  link       \* the reset token on the account, those mailed and used

User == Devices \cup {Nothing}  \* the device an account is on
UserSession == [Devices -> Nat]
StudentDeviceChangeRequest ==
  [st : {"none", "PENDING", "APPROVED", "REJECTED"}, for : Devices]
Expired == "expired"
NoLink == [token |-> 0, live |-> FALSE]

SignInTypeOK ==
  /\ bound \in User
  /\ sessions \in UserSession
  /\ cached \in User \cup {Expired}
  /\ change \in [Changes -> StudentDeviceChangeRequest]
  /\ latest \in User
  /\ link.sent \in Nat /\ link.uses \in [1 .. link.sent -> 0 .. 2]
  /\ link.now.token \in 0 .. link.sent /\ link.now.live \in BOOLEAN

(* Requests to change the device date from when another device was         *)
(* refused; no sign-in files one any more.                                 *)
SignInInit ==
  /\ bound = Nothing /\ latest = Nothing /\ cached = Expired
  /\ sessions = [d \in Devices |-> 0]
  /\ \E d \in Devices :
       \E st \in IF "device" \in use.ops THEN {"PENDING"} ELSE {"none"} :
         /\ st = "none" => d = CHOOSE e \in Devices : TRUE
         /\ change = [r \in Changes |-> [st |-> st, for |-> d]]
  /\ link = [now |-> NoLink, sent |-> 0, uses |-> <<>>]

devices == <<bound, sessions, cached, change, latest>>
account == <<devices, link>>
NoSessions == sessions' = [d \in Devices |-> 0]
Begins(c, op, todo) == Free(c, op) /\ Start(c, op, todo) /\ UNCHANGED account

(* Those that give the account to a device; in some behaviours they do not *)
(* overlap each other.                                                     *)
Takeovers == {"signIn", "device", "resetDevice"}
Alone == "inTurn" \in use.ops => \A c \in Calls : call[c].op \notin Takeovers

-----------------------------------------------------------------------------
\* Mutant: what the process remembers is left to expire.
TakesOverQuietly(d) == <<[do |-> "takeOver", d |-> d], [do |-> "signOut"]>>

TakesOver(d) == <<[do |-> "takeOver", d |-> d], [do |-> "signOut"], [do |-> "forget"]>>

Login(c, d) ==
  /\ Alone /\ sessions[d] < use.rows \* bound
  /\ Begins(c, "signIn", (IF bound = d THEN <<>> ELSE TakesOver(d))
                         \o <<[do |-> "openSession", d |-> d]>>)

TakeOver(c) ==
  /\ Runs(c, "takeOver") /\ Done(c)
  /\ bound' = It(c).d
  /\ UNCHANGED <<sessions, cached, change, latest, link>>

SignOut(c) ==
  /\ Runs(c, "signOut") /\ Done(c) /\ NoSessions
  /\ UNCHANGED <<bound, cached, change, latest, link>>

InvalidateStudentDeviceCache(c) ==
  /\ Runs(c, "forget") /\ Done(c)
  /\ cached' = Expired
  /\ UNCHANGED <<bound, sessions, change, latest, link>>

(* Two tokens of one device and one second are the same, and refused.      *)
OpenSession(c) ==
  LET d == It(c).d IN
  /\ Runs(c, "openSession")
  /\ \/ /\ Done(c) /\ latest' = d
        /\ sessions' = [sessions EXCEPT ![d] = @ + 1]
     \/ sessions[d] > 0 /\ Fails(c) /\ UNCHANGED <<sessions, latest>>
  /\ UNCHANGED <<bound, cached, change, link>>

(* A refresh ends the session of a device the account has left.            *)
Refresh(c, d) == sessions[d] > 0 /\ Begins(c, "refresh", <<[do |-> "device", d |-> d]>>)

CheckDevice(c) ==
  /\ Runs(c, "device")
  /\ Goes(c, IF bound = It(c).d THEN <<>> ELSE <<[do |-> "end", d |-> It(c).d]>>)
  /\ UNCHANGED account

(* A tab that was refreshed elsewhere signs out with a token that is no    *)
(* session's.                                                              *)
Logout(c, d) == sessions[d] > 0 /\ Begins(c, "signOut", <<[do |-> "end", d |-> d]>>)

EndSession(c) ==
  LET d == It(c).d IN
  /\ Runs(c, "end") /\ Done(c)
  /\ \/ sessions' = [sessions EXCEPT ![d] = IF @ = 0 THEN 0 ELSE @ - 1]
     \/ call[c].op = "signOut" /\ UNCHANGED sessions
  /\ UNCHANGED <<bound, cached, change, latest, link>>

(* authenticate, when nothing is remembered: the account is read, then     *)
(* remembered.                                                             *)
Authenticate(c) == cached = Expired /\ Begins(c, "request", <<[do |-> "bound"]>>)
GetBoundDeviceId(c) ==
  /\ Runs(c, "bound") /\ Goes(c, <<[do |-> "remember", d |-> bound]>>)
  /\ UNCHANGED account
Remember(c) ==
  /\ Runs(c, "remember") /\ Done(c)
  /\ cached' = It(c).d
  /\ UNCHANGED <<bound, sessions, change, latest, link>>
CacheExpires ==
  /\ "request" \in use.ops /\ cached # Expired /\ cached' = Expired
  /\ UNCHANGED <<call, bound, sessions, change, latest, link>>

-----------------------------------------------------------------------------
(* The office answers a request, or clears the device.                     *)
Answered(st) ==
  [r \in Changes |-> IF change[r].st = "PENDING" THEN [change[r] EXCEPT !.st = st] ELSE change[r]]

ApproveDevice(c, r) ==
  /\ Alone /\ change[r].st = "PENDING"
  /\ Begins(c, "device", <<[do |-> "rebind", r |-> r], [do |-> "forget"]>>)
Rebind(c) ==
  LET r == It(c).r IN
  /\ Runs(c, "rebind") /\ Done(c) /\ NoSessions
  /\ bound' = change[r].for /\ latest' = change[r].for
  /\ change' = [Answered("REJECTED") EXCEPT ![r].st = "APPROVED"]
  /\ UNCHANGED <<cached, link>>

RejectDevice(c, r) ==
  change[r].st = "PENDING" /\ Begins(c, "device", <<[do |-> "refuse", r |-> r]>>)
Refuse(c) ==
  /\ Runs(c, "refuse") /\ Done(c)
  /\ change' = [change EXCEPT ![It(c).r].st = "REJECTED"]
  /\ UNCHANGED <<bound, sessions, cached, latest, link>>

Reset(c) == Alone /\ Begins(c, "resetDevice", <<[do |-> "unbind"], [do |-> "forget"]>>)
Unbind(c) ==
  /\ Runs(c, "unbind") /\ Done(c) /\ NoSessions
  /\ bound' = Nothing /\ latest' = Nothing /\ change' = Answered("REJECTED")
  /\ UNCHANGED <<cached, link>>

-----------------------------------------------------------------------------
(* A link sets the password once, while it is the one on the account.      *)
ForgotPassword(c) ==
  link.sent < use.rows \* bound
  /\ Begins(c, "forgot", <<[do |-> "mailLink"]>>)
MailLink(c) ==
  LET n == link.sent + 1 IN
  /\ Runs(c, "mailLink") /\ Done(c)
  /\ link' = [now |-> [token |-> n, live |-> TRUE], sent |-> n, uses |-> Append(link.uses, 0)]
  /\ UNCHANGED devices
LinkExpires ==
  /\ link.now.live /\ link' = [link EXCEPT !.now.live = FALSE]
  /\ UNCHANGED <<call, devices>>

ResetPasswordWithToken(c) ==
  link.now.live /\ Begins(c, "useLink", <<[do |-> "useLink", token |-> link.now.token]>>)

\* Mutant: the token stays.
SpentKept == link.now

Spent == NoLink

SetPassword(c) ==
  /\ Runs(c, "useLink") /\ Done(c)
  /\ link' = [link EXCEPT !.now = Spent, !.uses[It(c).token] = IF @ = 0 THEN 1 ELSE 2]
  /\ UNCHANGED devices

SignInNext ==
  \/ \E c \in Calls :
       \/ \E d \in Devices : Login(c, d) \/ Refresh(c, d) \/ Logout(c, d)
       \/ \E r \in Changes : ApproveDevice(c, r) \/ RejectDevice(c, r)
       \/ TakeOver(c) \/ SignOut(c) \/ InvalidateStudentDeviceCache(c) \/ OpenSession(c)
       \/ CheckDevice(c) \/ EndSession(c) \/ Authenticate(c) \/ GetBoundDeviceId(c)
       \/ Remember(c) \/ Rebind(c) \/ Refuse(c) \/ Reset(c) \/ Unbind(c)
       \/ ForgotPassword(c) \/ MailLink(c) \/ ResetPasswordWithToken(c) \/ SetPassword(c)
  \/ CacheExpires \/ LinkExpires

-----------------------------------------------------------------------------
(* Between calls, where one runs at a time, the process stopping or not:   *)
(* it remembers the device the account is on.  Where none was cut short    *)
(* the account is on the device it was last given to, and only that device *)
(* has sessions, which also holds while others refresh and sign out.  A    *)
(* mailed link set the password at most once.                              *)
DevicesAgree(crashed) ==
  AllIdle =>
    /\ Serial => cached \in {Expired, bound}
    /\ (Serial \/ "inTurn" \in use.ops) /\ ~crashed =>
         /\ bound = latest
         /\ \A d \in Devices : sessions[d] > 0 => d = bound
    /\ Serial => \A n \in 1 .. link.sent : link.uses[n] <= 1
=============================================================================
