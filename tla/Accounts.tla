------------------------------- MODULE Accounts -------------------------------
(***************************************************************************)
(* Accounts and how they become active: sign-up with a code (AuthService), *)
(* application, invitation, approval and rejection of stylists             *)
(* (StylistInviteService), profiles (ProfileService).  One handler writes  *)
(* the user, the stylist's document, the invite and the code in redis, one *)
(* after the other.  Names, password texts and tokens are left out.        *)
(***************************************************************************)
EXTENDS Handlers, FiniteSets

CONSTANTS
  Users,    \* ids of user documents, and of the stylist document of each
  Emails,
  Phones,
  Invites   \* ids of invites

ASSUME ContactAssumption == Emails \cap Phones = {} /\ None \notin Emails \cup Phones \cup Users
ASSUME CodeAssumption == Requests \cap {None, "known", "lost"} = {}

VARIABLES
  user,     \* the user collection
  stylist,  \* status of the stylist document of a user
  invite,   \* the invite collection
  otp       \* redis: what is known of the code stored under a key

docVars == <<user, stylist, invite>>
vars == <<user, stylist, invite, otp, handlerVars>>

Contacts == Emails \cup Phones
Keys == {<<"signup", c>> : c \in Contacts} \cup {<<"reset", e>> : e \in Emails}
UserStatus == {"APPLIED", "PENDING", "ACCEPTED", "ACTIVE", "REJECTED", "EXPIRED"}
InviteStatus == {"PENDING", "ACCEPTED", "EXPIRED", "CANCELLED"}

UserRecord ==
  [role : {"USER", "STYLIST"}, status : UserStatus \cup {"NONE"},
   email : Emails \cup {None}, phone : Phones \cup {None}, verified : SUBSET {"email", "phone"},
   google : BOOLEAN, password : BOOLEAN, active : BOOLEAN, blocked : BOOLEAN]
InviteRecord ==
  [status : InviteStatus \cup {"NONE"}, user : Users \cup {None}, due : BOOLEAN]

NoUser ==
  [role |-> "USER", status |-> "NONE", email |-> None, phone |-> None, verified |-> {},
   google |-> FALSE, password |-> FALSE, active |-> FALSE, blocked |-> FALSE]
NoInvite == [status |-> "NONE", user |-> None, due |-> FALSE]

UserSteps == {"password", "activate", "approve", "deactivate", "reject", "block", "pend"}
OtherSteps ==
  {"insert", "draft", "code", "send", "drop", "verify", "invite", "cancel", "take",
   "accepted", "profile", "update"}
Local ==
  [todo : Seq(UserSteps \cup OtherSteps) \ {<<>>}, user : Users \cup {None}, doc : UserRecord,
   key : Keys \cup {None}, invite : Invites \cup {None}]

\* What a handler carries.
Carry(u, doc, key, i, todo) ==
  [todo |-> todo, user |-> u, doc |-> doc, key |-> key, invite |-> i]

AccountsTypeOK ==
  /\ HandlersTypeOK
  /\ user \in [Users -> UserRecord]
  /\ stylist \in [Users -> {"NONE", "INACTIVE", "ACTIVE"}]
  /\ invite \in [Invites -> InviteRecord]
  /\ otp \in [Keys -> {None, "known", "lost"} \cup Requests]
  /\ request \in [Requests -> {Idle} \cup Local]

Init ==
  /\ HandlersInit
  /\ user = [u \in Users |-> NoUser]
  /\ stylist = [u \in Users |-> "NONE"]
  /\ invite = [i \in Invites |-> NoInvite]
  /\ otp = [k \in Keys |-> None]

Exists(u) == user[u].status # "NONE"
Has(u, c) == Exists(u) /\ c # None /\ c \in {user[u].email, user[u].phone}
Known(c) == \E u \in Users : Has(u, c)
PendingOf(u) == {i \in Invites : invite[i].status = "PENDING" /\ invite[i].user = u}

-----------------------------------------------------------------------------
(* Faulty variants of definitions below, named after the slip they show.    *)
(* The specification does not use them.                                     *)

SmsStepsUnsent == <<"code">>
ApprovalStepsLate(u) ==
  <<"activate", "approve", "profile">> \o (IF user[u].password THEN <<>> ELSE <<"password">>)
RejectionStepsKept == <<"deactivate", "reject", "block">>

-----------------------------------------------------------------------------
(* Sign-up and codes.                                                       *)

NewUser(email, phone) ==
  [NoUser EXCEPT !.status = "ACTIVE", !.email = email, !.phone = phone, !.password = TRUE]

\* Somebody who gives both contacts is stored, sent no code and told he failed.
Signup(r, email, phone) ==
  /\ {email, phone} # {None}
  /\ ~Known(email) /\ ~Known(phone)
  /\ LET both == None \notin {email, phone}
         key == <<"signup", IF email # None THEN email ELSE phone>>
     IN Accept(r, Carry(None, NewUser(email, phone), key, None,
                        IF both THEN <<"insert">> ELSE <<"insert", "code", "send">>))
  /\ UNCHANGED <<docVars, otp>>

SmsSteps == <<"code", "send">>

SendSmsOtp(r, phone) ==
  /\ Accept(r, Carry(None, NoUser, <<"signup", phone>>, None, SmsSteps))
  /\ UNCHANGED <<docVars, otp>>

\* The code of the answer is stored and never mailed.
ResendEmailOtp(email) ==
  /\ Known(email)
  /\ AtOnce
  /\ otp' = [otp EXCEPT ![<<"signup", email>>] = "lost"]
  /\ UNCHANGED docVars

ForgotPassword(r, email) ==
  /\ Known(email)
  /\ Accept(r, Carry(None, NoUser, <<"reset", email>>, None, <<"code", "send">>))
  /\ UNCHANGED <<docVars, otp>>

\* generate: the code is known to nobody but the handler.
StoreCode(r) ==
  /\ At(r, "code")
  /\ otp' = [otp EXCEPT ![request[r].key] = r]
  /\ Advance(r)
  /\ UNCHANGED docVars

\* The message arrives; it is of use if its code is still the stored one.
SendCode(r) ==
  /\ At(r, "send")
  /\ otp' = [otp EXCEPT ![request[r].key] = IF @ = r THEN "known" ELSE @]
  /\ Advance(r)
  /\ UNCHANGED docVars

\* Codes live five or ten minutes.
CodeExpires(key) ==
  /\ otp[key] # None
  /\ otp' = [otp EXCEPT ![key] = None]
  /\ UNCHANGED <<docVars, handlerVars>>

\* verifyOtp, verifySignupSmsOtp and verifyResetOtp: the right code was entered.
VerifyOtp(r, key) ==
  /\ otp[key] = "known"
  /\ Accept(r, Carry(None, NoUser, key, None,
                     IF key[1] = "signup" THEN <<"drop", "verify">> ELSE <<"drop">>))
  /\ UNCHANGED <<docVars, otp>>

DropCode(r) ==
  /\ At(r, "drop")
  /\ otp' = [otp EXCEPT ![request[r].key] = None]
  /\ Advance(r)
  /\ UNCHANGED docVars

Verified(doc, c) ==
  [doc EXCEPT !.verified = @ \cup {IF c \in Emails THEN "email" ELSE "phone"},
              !.active = TRUE, !.status = "ACTIVE"]

\* The account with the contact, if there still is one.
MarkVerified(r) ==
  /\ At(r, "verify")
  /\ LET c == request[r].key[2] IN
     user' = [u \in Users |-> IF Has(u, c) THEN Verified(user[u], c) ELSE user[u]]
  /\ Advance(r)
  /\ UNCHANGED <<stylist, invite, otp>>

ResetPassword(email) ==
  /\ Known(email)
  /\ AtOnce
  /\ user' = [u \in Users |-> IF Has(u, email) THEN [user[u] EXCEPT !.password = TRUE] ELSE user[u]]
  /\ UNCHANGED <<stylist, invite, otp>>

GoogleUser(email) ==
  [NoUser EXCEPT !.status = "ACTIVE", !.email = email, !.verified = {"email"},
                 !.google = TRUE, !.active = TRUE]

\* A first login; a later one changes nothing.
GoogleLogin(r, email) ==
  /\ ~Known(email)
  /\ Accept(r, Carry(None, GoogleUser(email), None, None, <<"insert">>))
  /\ UNCHANGED <<docVars, otp>>

-----------------------------------------------------------------------------
(* Stylists: application and invitation.                                    *)

Applicant(email, phone) ==
  [NoUser EXCEPT !.role = "STYLIST", !.status = "APPLIED", !.email = email, !.phone = phone]

ApplyAsStylist(r, email, phone) ==
  /\ {email, phone} # {None}
  /\ ~Known(email) /\ ~Known(phone)
  /\ Accept(r, Carry(None, Applicant(email, phone), None, None, <<"insert", "draft">>))
  /\ UNCHANGED <<docVars, otp>>

Invited(email) ==
  [NoUser EXCEPT !.role = "STYLIST", !.status = "PENDING", !.email = email,
                 !.verified = {"email"}, !.password = TRUE]

CreateInvite(r, email) ==
  /\ ~Known(email)
  /\ Accept(r, Carry(None, Invited(email), None, None, <<"insert", "draft", "invite">>))
  /\ UNCHANGED <<docVars, otp>>

\* The unique indexes on email and phone.
Taken(u, doc) == \E v \in Users \ {u} : Has(v, doc.email) \/ Has(v, doc.phone)

InsertUser(r, u) ==
  /\ At(r, "insert")
  /\ ~Exists(u) /\ ~Taken(u, request[r].doc)
  /\ user' = [user EXCEPT ![u] = request[r].doc]
  /\ Continues(r, Rest([request[r] EXCEPT !.user = u]))
  /\ UNCHANGED <<stylist, invite, otp>>

InsertRefused(r) ==
  /\ At(r, "insert")
  /\ Taken(None, request[r].doc)
  /\ Throw(r)
  /\ UNCHANGED <<docVars, otp>>

InsertDraft(r) ==
  /\ At(r, "draft")
  /\ stylist' = [stylist EXCEPT ![request[r].user] = "INACTIVE"]
  /\ Advance(r)
  /\ UNCHANGED <<user, invite, otp>>

InsertInvite(r, i) ==
  /\ At(r, "invite")
  /\ invite[i].status = "NONE"
  /\ invite' = [invite EXCEPT ![i] =
                  [status |-> "PENDING", user |-> request[r].user, due |-> FALSE]]
  /\ Advance(r)
  /\ UNCHANGED <<user, stylist, otp>>

Invitable(u) ==
  user[u].role = "STYLIST" /\ user[u].status = "APPLIED" /\ user[u].email # None

SendInvite(r, u) ==
  /\ Invitable(u)
  /\ Accept(r, Carry(u, NoUser, None, None, <<"pend", "cancel", "invite">>))
  /\ UNCHANGED <<docVars, otp>>

\* updateMany over the pending invites of the user.
CancelInvites(r) ==
  invite' = [i \in Invites |-> IF i \in PendingOf(request[r].user)
                               THEN [invite[i] EXCEPT !.status = "CANCELLED"] ELSE invite[i]]

Cancel(r) ==
  /\ At(r, "cancel")
  /\ CancelInvites(r)
  /\ Advance(r)
  /\ UNCHANGED <<user, stylist, otp>>

\* A day passes.
InvitePasses(i) ==
  /\ invite[i].status = "PENDING" /\ ~invite[i].due
  /\ invite' = [invite EXCEPT ![i].due = TRUE]
  /\ UNCHANGED <<user, stylist, otp, handlerVars>>

\* An invite found to be past its time is marked, by validation and acceptance.
ExpireInvite(i) ==
  /\ invite[i].status = "PENDING" /\ invite[i].due
  /\ AtOnce
  /\ invite' = [invite EXCEPT ![i].status = "EXPIRED"]
  /\ UNCHANGED <<user, stylist, otp>>

AcceptInvite(r, i, phone) ==
  /\ invite[i].status = "PENDING" /\ ~invite[i].due
  /\ Accept(r, Carry(invite[i].user, [NoUser EXCEPT !.phone = phone], None, i,
                     <<"take", "accepted">>))
  /\ UNCHANGED <<docVars, otp>>

\* updateInvitedStylist; a phone that is not given stays as it is.
Completed(doc, phone) ==
  [doc EXCEPT !.phone = IF phone = None THEN @ ELSE phone,
              !.verified = IF phone = None THEN @ \ {"phone"} ELSE @ \cup {"phone"},
              !.password = TRUE, !.active = FALSE, !.status = "ACCEPTED"]

TakeInvite(r) ==
  /\ At(r, "take")
  /\ IF Taken(request[r].user, request[r].doc)
     THEN Throw(r) /\ UNCHANGED user
     ELSE /\ user' = [user EXCEPT ![request[r].user] = Completed(@, request[r].doc.phone)]
          /\ Advance(r)
  /\ UNCHANGED <<stylist, invite, otp>>

MarkAccepted(r) ==
  /\ At(r, "accepted")
  /\ invite' = [invite EXCEPT ![request[r].invite].status = "ACCEPTED"]
  /\ Advance(r)
  /\ UNCHANGED <<user, stylist, otp>>

-----------------------------------------------------------------------------
(* Stylists: approval and rejection; blocking; profiles.                    *)

\* The password was read at the beginning.
ApprovalSteps(u) ==
  (IF user[u].password THEN <<>> ELSE <<"password">>) \o <<"activate", "approve", "profile">>

\* Whether the account is a stylist's is not asked, here nor in the rejection.
ApproveStylist(r, u) ==
  /\ Exists(u)
  /\ Accept(r, Carry(u, NoUser, None, None, ApprovalSteps(u)))
  /\ UNCHANGED <<docVars, otp>>

RejectionSteps == <<"cancel", "deactivate", "reject", "block">>

RejectStylist(r, u) ==
  /\ Exists(u)
  /\ Accept(r, Carry(u, NoUser, None, None, RejectionSteps))
  /\ UNCHANGED <<docVars, otp>>

\* The writes of one field of a user.
Written(step, doc) ==
  CASE step = "password"   -> [doc EXCEPT !.password = TRUE]
    [] step = "activate"   -> [doc EXCEPT !.active = TRUE]
    [] step = "approve"    -> [doc EXCEPT !.status = "ACTIVE"]
    [] step = "deactivate" -> [doc EXCEPT !.active = FALSE]
    [] step = "reject"     -> [doc EXCEPT !.status = "REJECTED"]
    [] step = "block"      -> [doc EXCEPT !.blocked = TRUE]
    [] step = "pend"       -> [doc EXCEPT !.status = "PENDING"]

WriteUser(r) ==
  /\ \E step \in UserSteps :
       /\ At(r, step)
       /\ user' = [user EXCEPT ![request[r].user] = Written(step, @)]
  /\ Advance(r)
  /\ UNCHANGED <<stylist, invite, otp>>

ActivateProfile(r) ==
  /\ At(r, "profile")
  /\ stylist' = [stylist EXCEPT ![request[r].user] = IF @ = "NONE" THEN @ ELSE "ACTIVE"]
  /\ Advance(r)
  /\ UNCHANGED <<user, invite, otp>>

\* Customers and stylists, through three routes with the same write.
ToggleBlock(u) ==
  /\ Exists(u)
  /\ AtOnce
  /\ user' = [user EXCEPT ![u].blocked = ~@]
  /\ UNCHANGED <<stylist, invite, otp>>

\* New contacts; a verified flag stays as it is.  A token outlives what becomes of
\* the account, and the handler looks at nothing but the document's existence.
UpdateProfile(r, u, email, phone) ==
  /\ Exists(u)
  /\ email # None \/ phone # None
  /\ user[u].google => email \in {None, user[u].email}
  /\ \A v \in Users \ {u} : ~Has(v, email) /\ ~Has(v, phone)
  /\ Accept(r, Carry(u, [NoUser EXCEPT !.email = email, !.phone = phone], None, None,
                     <<"update">>))
  /\ UNCHANGED <<docVars, otp>>

\* What is not given stays as it is.
WithContacts(doc, new) ==
  [doc EXCEPT !.email = IF new.email = None THEN @ ELSE new.email,
              !.phone = IF new.phone = None THEN @ ELSE new.phone]

WriteProfile(r) ==
  /\ At(r, "update")
  /\ user' = IF Taken(request[r].user, request[r].doc)
             THEN user
             ELSE [user EXCEPT ![request[r].user] = WithContacts(@, request[r].doc)]
  /\ Advance(r)
  /\ UNCHANGED <<stylist, invite, otp>>

-----------------------------------------------------------------------------
RequestFails(r) ==
  /\ Cut(r)
  /\ otp' = [k \in Keys |-> IF otp[k] = r THEN "lost" ELSE otp[k]]
  /\ UNCHANGED docVars

MaybeEmails == Emails \cup {None}
MaybePhones == Phones \cup {None}

SignupCalls(r) ==
  \/ \E email \in MaybeEmails, phone \in MaybePhones : Signup(r, email, phone)
  \/ \E key \in Keys : VerifyOtp(r, key)
  \/ \E phone \in Phones : SendSmsOtp(r, phone)
  \/ \E email \in Emails : ResendEmailOtp(email)

ResetCalls(r) == \E email \in Emails : ForgotPassword(r, email) \/ ResetPassword(email)

AccountCalls(r) ==
  \/ \E email \in Emails : GoogleLogin(r, email)
  \/ \E email \in MaybeEmails, phone \in MaybePhones :
       ApplyAsStylist(r, email, phone) \/ \E u \in Users : UpdateProfile(r, u, email, phone)

\* The invite is validated, and may be found expired, when its link is opened.
InviteCalls(r) ==
  \/ \E email \in Emails : CreateInvite(r, email)
  \/ \E i \in Invites : ExpireInvite(i) \/ \E phone \in MaybePhones : AcceptInvite(r, i, phone)
  \/ \E u \in Users : SendInvite(r, u) \/ ApproveStylist(r, u) \/ RejectStylist(r, u)

StylistCalls == \E u \in Users : ToggleBlock(u)

Begin(r) ==
  SignupCalls(r) \/ ResetCalls(r) \/ AccountCalls(r) \/ InviteCalls(r) \/ StylistCalls

Continue(r) ==
  \/ StoreCode(r) \/ SendCode(r) \/ DropCode(r) \/ MarkVerified(r)
  \/ \E u \in Users : InsertUser(r, u)
  \/ InsertRefused(r) \/ InsertDraft(r)
  \/ \E i \in Invites : InsertInvite(r, i)
  \/ Cancel(r) \/ TakeInvite(r) \/ MarkAccepted(r)
  \/ WriteUser(r) \/ ActivateProfile(r) \/ WriteProfile(r)

Clock ==
  \/ \E key \in Keys : CodeExpires(key)
  \/ \E i \in Invites : InvitePasses(i)

Next ==
  \/ \E r \in Requests : Begin(r) \/ Continue(r) \/ RequestFails(r)
  \/ Clock

Spec == Init /\ [][Next]_vars

-----------------------------------------------------------------------------
(* Properties.                                                              *)

\* A code that is texted, or mailed to reset a password, is known to the one it was
\* stored for or about to be sent, whichever requests for a new one overlap, unless
\* a handler was cut short (sendSmsOtp, forgotPassword).
CodesArrive ==
  \A k \in Keys :
    \/ otp[k] \in {None, "known"}
    \/ otp[k] \in Requests /\ At(otp[k], "send")
    \/ otp[k] = "lost" /\ (faults > 0 \/ k \in {<<"signup", e>> : e \in Emails})

\* A stylist whose document is active has a password, although approval writes it
\* apart, on a reading that may be old, and the database does not check the schema
\* on updates (approveStylist).
ActiveStylistHasPassword ==
  \A u \in Users : stylist[u] = "ACTIVE" => user[u].password

\* As long as no two handlers overlap, a stylist has one open invite at most, and
\* none once rejected, wherever a handler was cut short (sendInviteToAppliedStylist,
\* rejectStylist).
InvitesInTurn ==
  ~overlapped => \A u \in Users :
    /\ Cardinality(PendingOf(u)) <= 1
    /\ user[u].status = "REJECTED" => PendingOf(u) = {}
=============================================================================
