------------------------------ MODULE Campaigns ------------------------------
(***************************************************************************)
(* The campaigns of one organisation: the wallet its sponsored interviews  *)
(* come from, the budget of each campaign, the candidates who join, and    *)
(* the organisation's interview quota.                                     *)
(*                                                                         *)
(* An edit and a change of status read the campaign first and commit later *)
(* in a transaction that is conditional on some of what they read; joins,  *)
(* starts, ends and the admin's changes to the organisation happen in      *)
(* between.  A null limit is Unlimited, a null budget a total of 0.        *)
(***************************************************************************)
EXTENDS Integers, FiniteSets

CONSTANTS
  Campaign,
  Candidate,
  Editor,       \* members who edit campaigns
  Granted,      \* sponsored interviews in the wallet at the start
  MaxGranted,   \* bound: sponsored interviews an admin has put in
  Limit,        \* the limits of candidates and of interviews one may set
  Faults        \* what may go wrong

Unlimited == -1

ASSUME CampaignsAssumption ==
  /\ IsFiniteSet(Campaign)
  /\ "NONE" \notin Campaign
  /\ IsFiniteSet(Candidate)
  /\ Granted \in Nat
  /\ MaxGranted \in Nat
  /\ Granted <= MaxGranted
  /\ Limit \subseteq Nat \cup {Unlimited}
  /\ Unlimited \in Limit
  /\ Faults \subseteq {"TWO_EDITORS"}    \* two members edit one campaign at a time

VARIABLES
  org,          \* the organisation: wallet, quota and status
  campaign,     \* the campaigns
  application,  \* application[c][k]: candidate k's interview in campaign c
  editor,       \* what each editor has read
  granted       \* history: what the admins have put into the wallet, less what they took

vars == <<org, campaign, application, editor, granted>>

Status == {"DRAFT", "ACTIVE", "PAUSED", "CLOSED"}
STATUS_MOVES ==
  [DRAFT |-> {"ACTIVE", "CLOSED"}, ACTIVE |-> {"PAUSED", "CLOSED"},
   PAUSED |-> {"ACTIVE", "CLOSED"}, CLOSED |-> {}]

CampaignRecord ==
  [status : Status, max : Limit, joined : Nat, total : Int, used : Nat]

(* An interview: joined, started on the candidate's own credit, started on *)
(* the campaign's budget and still open, or over, used or unused.          *)
Interview == {"NONE", "JOINED", "OWN", "SPONSORED", "USED", "UNUSED"}
Sponsored == {"SPONSORED", "USED", "UNUSED"}

TypeOK ==
  /\ org \in [balance : Int, allocated : Int, quota : Limit, used : Nat,
            status : {"ACTIVE", "SUSPENDED"}]
  /\ campaign \in [Campaign -> CampaignRecord]
  /\ application \in [Campaign -> [Candidate -> Interview]]
  /\ editor \in [Editor -> [op : {"NONE", "UPDATE", "STATUS"},
                            c : Campaign \cup {"NONE"}, seen : CampaignRecord]]
  /\ granted \in Int

NewCampaign == [status |-> "DRAFT", max |-> Unlimited, joined |-> 0, total |-> 0, used |-> 0]
NotEditing == [op |-> "NONE", c |-> "NONE", seen |-> NewCampaign]

Init ==
  /\ org = [balance |-> Granted, allocated |-> 0, quota |-> Unlimited, used |-> 0,
            status |-> "ACTIVE"]
  /\ campaign = [c \in Campaign |-> NewCampaign]
  /\ application = [c \in Campaign |-> [k \in Candidate |-> "NONE"]]
  /\ editor = [e \in Editor |-> NotEditing]
  /\ granted = Granted

Within(n, limit) == limit = Unlimited \/ n <= limit

-------------------------------------------------------------------------------
(* Editing a campaign                                                      *)

(* Mutant: the balance is not asked about.                                 *)
Covers_Unchecked(delta) == TRUE

(* A positive delta is taken from the wallet, if the balance covers it.    *)
Covers(delta) == delta <= 0 \/ org.balance >= delta
moveWalletCredits(delta) ==
  org' = [org EXCEPT !.balance = @ - delta, !.allocated = @ + delta]

Reads(e, c, op) ==
  /\ editor[e].op = "NONE"
  /\ "TWO_EDITORS" \in Faults \/ \A d \in Editor : editor[d].c # c
  /\ campaign[c].status # "CLOSED"
  /\ editor' = [editor EXCEPT ![e] = [op |-> op, c |-> c, seen |-> campaign[c]]]
  /\ UNCHANGED <<org, campaign, application, granted>>

Done(e) == editor' = [editor EXCEPT ![e] = NotEditing]

(* Mutant: the counters that were checked are not checked again.           *)
UpdateHolds_Stale(e, max) == campaign[editor[e].c].status # "CLOSED"

(* The condition of the update: the counters the checks relied on.         *)
UpdateHolds(e, max) ==
  LET now == campaign[editor[e].c] IN
  /\ now.status # "CLOSED"
  /\ Within(now.joined, max)
  /\ editor[e].seen.total # 0 => now.used = editor[e].seen.used

(* The new limit and budget.  The wallet moves by the difference to the    *)
(* total that was read.                                                    *)
Update(e) ==
  /\ editor[e].op = "UPDATE"
  /\ \E max \in Limit, total \in 0..MaxGranted :
       LET c == editor[e].c
           seen == editor[e].seen
           delta == total - seen.total
       IN /\ Within(seen.joined, max) /\ total >= seen.used
          /\ Covers(delta)
          /\ UpdateHolds(e, max)
          /\ moveWalletCredits(delta)
          /\ campaign' = [campaign EXCEPT ![c] =
                            [@ EXCEPT !.max = max, !.total = total, !.used = seen.used]]
  /\ Done(e)
  /\ UNCHANGED <<application, granted>>

(* Mutant: the units used since are not asked about.                       *)
CloseHolds_Stale(e, unused) == campaign[editor[e].c].status = editor[e].seen.status

CloseHolds(e, unused) ==
  /\ campaign[editor[e].c].status = editor[e].seen.status
  /\ unused > 0 => campaign[editor[e].c].used = editor[e].seen.used

(* Closing leaves a campaign what it has used and returns the rest of its  *)
(* budget to the wallet.                                                   *)
setStatus(e) ==
  /\ editor[e].op = "STATUS"
  /\ \E s \in STATUS_MOVES[editor[e].seen.status] :
       LET c == editor[e].c
           seen == editor[e].seen
           unused == IF s = "CLOSED" THEN seen.total - seen.used ELSE 0
           total == IF unused > 0 THEN seen.used ELSE campaign[c].total
       IN /\ CloseHolds(e, unused)
          /\ campaign' = [campaign EXCEPT ![c] = [@ EXCEPT !.status = s, !.total = total]]
          /\ moveWalletCredits(-unused)
  /\ Done(e)
  /\ UNCHANGED <<application, granted>>

(* A check fails, the balance does not cover it, or something changed.     *)
Refused(e) ==
  /\ editor[e].op # "NONE"
  /\ Done(e)
  /\ UNCHANGED <<org, campaign, application, granted>>

-------------------------------------------------------------------------------
(* Candidates                                                              *)

HasPlace(c) ==
  /\ campaign[c].status = "ACTIVE"
  /\ campaign[c].max = Unlimited \/ campaign[c].joined < campaign[c].max

InQuota == org.status = "ACTIVE" /\ (org.quota = Unlimited \/ org.used < org.quota)

(* A place and a unit of the quota are claimed with the application, which *)
(* is unique: a second request of the same candidate is undone.            *)
joinCampaign(c, k) ==
  /\ application[c][k] = "NONE"
  /\ HasPlace(c)
  /\ InQuota
  /\ campaign' = [campaign EXCEPT ![c].joined = @ + 1]
  /\ org' = [org EXCEPT !.used = @ + 1]
  /\ application' = [application EXCEPT ![c][k] = "JOINED"]
  /\ UNCHANGED <<editor, granted>>

(* A campaign pays while its budget lasts, whatever its status.            *)
Start(c, k) ==
  /\ application[c][k] = "JOINED"
  /\ LET sponsored == campaign[c].used < campaign[c].total IN
     /\ campaign' = IF sponsored THEN [campaign EXCEPT ![c].used = @ + 1] ELSE campaign
     /\ application' =
          [application EXCEPT ![c][k] = IF sponsored THEN "SPONSORED" ELSE "OWN"]
  /\ UNCHANGED <<org, editor, granted>>

(* The engine settles a credit only if it is RESERVED, which a sponsored   *)
(* one is not: the end of the interview leaves the campaign as it is.      *)
Ends(c, k) ==
  /\ application[c][k] = "SPONSORED"
  /\ \E end \in {"USED", "UNUSED"} : application' = [application EXCEPT ![c][k] = end]
  /\ UNCHANGED <<org, campaign, editor, granted>>

-------------------------------------------------------------------------------
(* The platform's admins                                                   *)

UpdateQuota ==
  /\ \E quota \in Limit : Within(org.used, quota) /\ org' = [org EXCEPT !.quota = quota]
  /\ UNCHANGED <<campaign, application, editor, granted>>

SetOrgStatus ==
  /\ \E s \in {"ACTIVE", "SUSPENDED"} : org' = [org EXCEPT !.status = s]
  /\ UNCHANGED <<campaign, application, editor, granted>>

(* Only what no campaign holds can be taken back.                          *)
adjustWallet ==
  /\ \E delta \in {-1, 1} :
       /\ org.balance + delta >= 0
       /\ granted + delta <= MaxGranted
       /\ org' = [org EXCEPT !.balance = @ + delta]
       /\ granted' = granted + delta
  /\ UNCHANGED <<campaign, application, editor>>

Next ==
  \/ \E e \in Editor :
       \/ \E c \in Campaign, op \in {"UPDATE", "STATUS"} : Reads(e, c, op)
       \/ Update(e) \/ setStatus(e) \/ Refused(e)
  \/ \E c \in Campaign, k \in Candidate :
       joinCampaign(c, k) \/ Start(c, k) \/ Ends(c, k)
  \/ UpdateQuota \/ SetOrgStatus \/ adjustWallet

Spec == Init /\ [][Next]_vars

-------------------------------------------------------------------------------
(* Properties                                                              *)

(* The units that are in the budgets: as many of each campaign's as its    *)
(* total.                                                                  *)
Budgeted == {u \in Campaign \X (1..MaxGranted) : u[2] <= campaign[u[1]].total}

Having(c, kinds) == {k \in Candidate : application[c][k] \in kinds}
Joins == {j \in Campaign \X Candidate : application[j[1]][j[2]] # "NONE"}

(* The wallet never owes, and every unit the admins put in is either in it *)
(* or in the budget of one campaign: closing and editing neither make nor  *)
(* lose one, whatever candidates use meanwhile.                            *)
WalletConserved ==
  /\ org.balance >= 0
  /\ org.balance + org.allocated = granted
  /\ org.allocated = Cardinality(Budgeted)
  /\ \A c \in Campaign : campaign[c].total <= MaxGranted

(* A campaign pays for each interview started on its budget, and never for *)
(* more of them than that, however it is edited meanwhile; once closed it  *)
(* keeps no unit that nobody has used.                                     *)
BudgetCoversUse ==
  \A c \in Campaign :
    /\ campaign[c].used = Cardinality(Having(c, Sponsored))
    /\ campaign[c].used <= campaign[c].total
    /\ campaign[c].status = "CLOSED" => campaign[c].used = campaign[c].total

(* A campaign never has more candidates than its limit, nor an             *)
(* organisation more than its quota, and what is counted is what has       *)
(* joined, although limit and quota change.                                *)
JoinsWithinLimits ==
  /\ \A c \in Campaign :
       /\ campaign[c].joined = Cardinality(Having(c, Interview \ {"NONE"}))
       /\ Within(campaign[c].joined, campaign[c].max)
  /\ org.used = Cardinality(Joins)
  /\ Within(org.used, org.quota)
===============================================================================
