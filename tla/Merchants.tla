------------------------------- MODULE Merchants -------------------------------
(***************************************************************************)
(* Becoming a merchant and sharing the work:                               *)
(* src/services/merchantService.js.                                        *)
(*                                                                         *)
(* An approved application founds a merchant, which goes by the            *)
(* application's name here, with the applicant as its OWNER.  OWNER and    *)
(* ADMIN members add and change others.  Reviews and changes of members    *)
(* check first, without a lock, and write later; the writes of overlapping *)
(* requests come in any order.  That the user is signed in is left out: a  *)
(* refused request changes nothing.  What a review tells the applicant is  *)
(* a row of NotificationOutbox.  Access and role of the caller of          *)
(* addMember and updateMember are looked up one after the other; here that *)
(* is one read.                                                            *)
(*                                                                         *)
(* An account may be found active in two merchants: an application that    *)
(* waits is approved without a look at what its applicant joined meanwhile *)
(* and a disabled member is made active again the same way.                *)
(*                                                                         *)
(* The names that Sessions has too begin with Merchant here:               *)
(* AccountsProofs has both modules.                                        *)
(***************************************************************************)
EXTENDS Integers, FiniteSets

CONSTANTS
  Users,
  Applications, Applicant, Code,   \* applications, who makes them, and the
                                   \* merchant and shop code they ask for
  Requests                         \* requests under way at a time

ASSUME MerchantsAssumption == Applicant \in [Applications -> Users]

Merchant == Applications
Assignable == {"ADMIN", "STAFF"}
Roles == Assignable \cup {"OWNER"}

VARIABLES
  application,   \* NONE, PENDING, APPROVED, REJECTED
  role,          \* MerchantMember.role, or NONE
  active,        \* members with status ACTIVE
  merchantRole,  \* users with the MERCHANT role
  request        \* what each request has checked

Waiting == [op |-> "none"]
Changes == [role : Assignable \cup {"SAME"}, status : {"ACTIVE", "DISABLED", "SAME"}]
               \ {[role |-> "SAME", status |-> "SAME"]}
MerchantRequests ==
  [op : {"approve", "reject"}, on : Applications]
    \cup [op : {"add"}, on : Merchant, user : Users, role : Assignable]
    \cup [op : {"update"}, on : Merchant, user : Users, change : Changes]

merchantVars == <<application, role, active, merchantRole, request>>

MerchantTypeOK ==
  /\ application \in [Applications -> {"NONE", "PENDING", "APPROVED", "REJECTED"}]
  /\ role \in [Merchant -> [Users -> Roles \cup {"NONE"}]]
  /\ active \subseteq {x \in Merchant \X Users : role[x[1]][x[2]] # "NONE"}
  /\ merchantRole \subseteq Users /\ {x[2] : x \in active} \subseteq merchantRole
  /\ request \in [Requests -> MerchantRequests \cup {Waiting}]

MerchantInit ==
  /\ application = [a \in Applications |-> "NONE"]
  /\ role = [m \in Merchant |-> [u \in Users |-> "NONE"]]
  /\ active = {} /\ merchantRole = {}
  /\ request = [q \in Requests |-> Waiting]

Check(q, what) == request[q] = Waiting /\ request' = [request EXCEPT ![q] = what]
Answer(q)      == request' = [request EXCEPT ![q] = Waiting]

-----------------------------------------------------------------------------
(* Applications. *)

Founded == {m \in Merchant : application[m] = "APPROVED"}
CodeFree(a) == \A m \in Founded : Code[m] # Code[a]

HasPending(u) == \E a \in Applications : Applicant[a] = u /\ application[a] = "PENDING"
Joined(u)     == \E m \in Merchant : <<m, u>> \in active
Occupied(u)   == HasPending(u) \/ Joined(u)

(* The user's row is locked first, so a user's applications come one by one. *)
CreateApplication(a) ==
  /\ application[a] = "NONE"
  /\ ~Occupied(Applicant[a]) /\ CodeFree(a)
  /\ application' = [application EXCEPT ![a] = "PENDING"]
  /\ UNCHANGED <<role, active, merchantRole, request>>

ReviewRead(q, a) ==
  /\ application[a] = "PENDING"
  /\ \/ Check(q, [op |-> "reject", on |-> a])
     \/ CodeFree(a) /\ Check(q, [op |-> "approve", on |-> a])
  /\ UNCHANGED <<application, role, active, merchantRole>>

UndecidedAsRead(a) == TRUE  \* mutant: the status that was read still holds
Undecided(a) == application[a] = "PENDING"

Reject(q) ==
  /\ request[q].op = "reject"
  /\ LET a == request[q].on
     IN  application' = IF Undecided(a) THEN [application EXCEPT ![a] = "REJECTED"]
                        ELSE application
  /\ Answer(q)
  /\ UNCHANGED <<role, active, merchantRole>>

(* The codes are unique columns: founding with one that was taken since the *)
(* check fails, and the review with it.                                     *)
Approve(q) ==
  /\ request[q].op = "approve"
  /\ LET a == request[q].on
         u == Applicant[a]
     IN  IF Undecided(a) /\ CodeFree(a)
         THEN /\ application' = [application EXCEPT ![a] = "APPROVED"]
              /\ role' = [role EXCEPT ![a][u] = "OWNER"]
              /\ active' = active \cup {<<a, u>>}
              /\ merchantRole' = merchantRole \cup {u}
         ELSE UNCHANGED <<application, role, active, merchantRole>>
  /\ Answer(q)

-----------------------------------------------------------------------------
(* Members. *)

(* assertShopAccess(OWNER, ADMIN) and getMerchantActor. *)
Manages(u, m) == <<m, u>> \in active /\ role[m][u] \in {"OWNER", "ADMIN"}

AddMemberRead(q, u, m, t, r) ==
  /\ Manages(u, m)
  /\ role[m][u] = "ADMIN" => r = "STAFF"
  /\ Check(q, [op |-> "add", on |-> m, user |-> t, role |-> r])
  /\ UNCHANGED <<application, role, active, merchantRole>>

Elsewhere(t, m) == \E n \in Merchant \ {m} : <<n, t>> \in active
Addable(t, m) == ~Elsewhere(t, m) /\ role[m][t] # "OWNER"

AddMemberWrite(q) ==
  /\ request[q].op = "add"
  /\ LET m == request[q].on
         t == request[q].user
     IN  IF Addable(t, m)
         THEN /\ role' = [role EXCEPT ![m][t] = request[q].role]
              /\ active' = active \cup {<<m, t>>}
              /\ merchantRole' = merchantRole \cup {t}
         ELSE UNCHANGED <<role, active, merchantRole>>
  /\ Answer(q)
  /\ UNCHANGED application

Changeable(u, m, t, change) ==
  /\ Manages(u, m)
  /\ role[m][t] \in Assignable
  /\ role[m][u] = "ADMIN" => role[m][t] = "STAFF" /\ change.role # "ADMIN"

UpdateMemberRead(q, u, m, t, change) ==
  /\ Changeable(u, m, t, change)
  /\ Check(q, [op |-> "update", on |-> m, user |-> t, change |-> change])
  /\ UNCHANGED <<application, role, active, merchantRole>>

(* What was checked is not checked again. *)
UpdateMemberWrite(q) ==
  /\ request[q].op = "update"
  /\ LET m == request[q].on
         t == request[q].user
         change == request[q].change
     IN  /\ role' = IF change.role = "SAME" THEN role
                    ELSE [role EXCEPT ![m][t] = change.role]
         /\ active' = CASE change.status = "SAME"     -> active
                        [] change.status = "ACTIVE"   -> active \cup {<<m, t>>}
                        [] change.status = "DISABLED" -> active \ {<<m, t>>}
  /\ Answer(q)
  /\ UNCHANGED <<application, merchantRole>>

MerchantNext ==
  \/ \E a \in Applications : CreateApplication(a)
  \/ \E q \in Requests :
       \/ \E a \in Applications : ReviewRead(q, a)
       \/ Reject(q) \/ Approve(q)
       \/ \E u, t \in Users, m \in Merchant :
            \/ \E r \in Assignable : AddMemberRead(q, u, m, t, r)
            \/ \E change \in Changes : UpdateMemberRead(q, u, m, t, change)
       \/ AddMemberWrite(q) \/ UpdateMemberWrite(q)

MerchantSpec == MerchantInit /\ [][MerchantNext]_merchantVars

-----------------------------------------------------------------------------
(* Properties. *)

(* A merchant exists exactly when its application was approved, and has one *)
(* OWNER, its applicant, who is active: two reviewers cannot both decide,   *)
(* and no change of members, however late, reaches the owner.               *)
OwnedByApplicant ==
  \A m \in Merchant, u \in Users :
    (application[m] = "APPROVED" /\ u = Applicant[m])
      <=> (role[m][u] = "OWNER" /\ <<m, u>> \in active)

(* No two merchants go by one code, also when both were checked before     *)
(* either was founded.                                                     *)
CodesDistinct == \A m, n \in Founded : Code[m] = Code[n] => m = n
=============================================================================
