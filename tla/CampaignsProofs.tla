---------------------------- MODULE CampaignsProofs ----------------------------
(***************************************************************************)
(* Theorems about Campaigns, for any number of campaigns, candidates and   *)
(* editors.                                                                *)
(*                                                                         *)
(* The limits hold whatever the editors do.  That the wallet and the       *)
(* budgets balance rests on an assumption the code does not enforce: no    *)
(* two members edit one campaign at a time.  Then the total an editor read *)
(* is still the campaign's, and the conditions of the updates speak for    *)
(* the units used.                                                         *)
(***************************************************************************)
EXTENDS Campaigns, FiniteSetTheorems, TLAPS

(* Joins, starts, ends and edits, as kinds of steps.                       *)
CandidateStep(c, k) ==
  joinCampaign(c, k) \/ Start(c, k) \/ Ends(c, k)

AdminStep == UpdateQuota \/ SetOrgStatus \/ adjustWallet

EditStep(e) == Update(e) \/ setStatus(e) \/ Refused(e)

ReadStep(e) == \E c \in Campaign, op \in {"UPDATE", "STATUS"} : Reads(e, c, op)

LEMMA Steps ==
  ASSUME Next
  PROVE  \/ \E e \in Editor : ReadStep(e) \/ EditStep(e)
         \/ \E c \in Campaign, k \in Candidate : CandidateStep(c, k)
         \/ AdminStep
BY DEF Next, ReadStep, EditStep, CandidateStep, AdminStep

-------------------------------------------------------------------------------
(* Types                                                                   *)

EditsInv == \A e \in Editor : editor[e].op # "NONE" => editor[e].c \in Campaign

TypeInv == TypeOK /\ EditsInv

LEMMA InitTypeInv == Init => TypeInv
BY CampaignsAssumption
DEF Init, TypeInv, TypeOK, EditsInv, CampaignRecord, NewCampaign, NotEditing, Status, Interview,
    Unlimited

Org == [balance : Int, allocated : Int, quota : Limit, used : Nat,
        status : {"ACTIVE", "SUSPENDED"}]

LEMMA WalletStaysTyped ==
  ASSUME org \in Org, NEW delta \in Int, moveWalletCredits(delta)
  PROVE  org' \in Org
<1>1. org' = [balance |-> org.balance - delta, allocated |-> org.allocated + delta,
              quota |-> org.quota, used |-> org.used, status |-> org.status]
  BY DEF moveWalletCredits, Org
<1> QED
  BY <1>1 DEF Org

(* The two ways an edit changes a campaign.                                *)
LEMMA CampaignStaysTyped ==
  ASSUME NEW r \in CampaignRecord, NEW max \in Limit, NEW total \in Int, NEW used \in Nat,
         NEW s \in Status, NEW new,
         \/ new = [r EXCEPT !.max = max, !.total = total, !.used = used]
         \/ new = [r EXCEPT !.status = s, !.total = total]
         \/ new = [r EXCEPT !.joined = used]
         \/ new = [r EXCEPT !.used = used]
  PROVE  new \in CampaignRecord
BY DEF CampaignRecord

LEMMA CampaignPut ==
  ASSUME campaign \in [Campaign -> CampaignRecord], NEW c \in Campaign, NEW new \in CampaignRecord,
         campaign' = [campaign EXCEPT ![c] = new]
  PROVE  campaign' \in [Campaign -> CampaignRecord]
OBVIOUS

LEMMA InterviewStaysTyped ==
  ASSUME application \in [Campaign -> [Candidate -> Interview]],
         NEW c \in Campaign, NEW k \in Candidate, NEW v \in Interview,
         application' = [application EXCEPT ![c][k] = v]
  PROVE  /\ application' \in [Campaign -> [Candidate -> Interview]]
         /\ \A d \in Campaign, l \in Candidate :
              application'[d][l] = IF d = c /\ l = k THEN v ELSE application[d][l]
OBVIOUS

LEMMA UsedStaysTyped ==
  ASSUME campaign \in [Campaign -> CampaignRecord], NEW c \in Campaign, NEW n \in Nat,
         campaign' = [campaign EXCEPT ![c].used = n]
  PROVE  campaign' \in [Campaign -> CampaignRecord]
BY DEF CampaignRecord

LEMMA NextTypeInv ==
  ASSUME TypeInv, [Next]_vars
  PROVE  TypeInv'
<1> USE CampaignsAssumption DEF TypeInv, TypeOK, EditsInv
<1>1. CASE UNCHANGED vars
  BY <1>1 DEF vars
<1>2. ASSUME NEW e \in Editor, ReadStep(e) PROVE TypeInv'
  BY <1>2 DEF ReadStep, Reads
<1>3. NotEditing \in [op : {"NONE", "UPDATE", "STATUS"}, c : Campaign \cup {"NONE"},
                      seen : CampaignRecord] /\ NotEditing.op = "NONE"
  BY DEF NotEditing, NewCampaign, CampaignRecord, Status, Unlimited
<1>4. ASSUME NEW e \in Editor, Update(e) PROVE TypeInv'
  <2>1. PICK max \in Limit, total \in 0..MaxGranted :
          /\ moveWalletCredits(total - editor[e].seen.total)
          /\ campaign' = [campaign EXCEPT ![editor[e].c] =
               [@ EXCEPT !.max = max, !.total = total, !.used = editor[e].seen.used]]
    BY <1>4 DEF Update
  <2>2. editor[e].c \in Campaign /\ editor[e].seen \in CampaignRecord
    BY <1>4 DEF Update
  <2>3. campaign' \in [Campaign -> CampaignRecord]
    <3>1. campaign[editor[e].c] \in CampaignRecord /\ editor[e].seen.used \in Nat
      BY <2>2 DEF CampaignRecord
    <3>2. /\ "DRAFT" \in Status
          /\ total \in Int
      BY DEF Status
    <3>3. [campaign[editor[e].c] EXCEPT !.max = max, !.total = total, !.used = editor[e].seen.used]
            \in CampaignRecord
      BY <3>1, <3>2, CampaignStaysTyped
    <3> QED
      BY <2>1, <2>2, <3>3
  <2>4. org' \in Org
    BY <2>1, <2>2, WalletStaysTyped DEF CampaignRecord, Org
  <2> QED
    BY <1>3, <1>4, <2>3, <2>4 DEF Update, Done, Org
<1>5. ASSUME NEW e \in Editor, setStatus(e) PROVE TypeInv'
  <2> DEFINE unused(s) == IF s = "CLOSED" THEN editor[e].seen.total - editor[e].seen.used ELSE 0
             total(s) == IF unused(s) > 0 THEN editor[e].seen.used ELSE campaign[editor[e].c].total
  <2>1. PICK s \in STATUS_MOVES[editor[e].seen.status] :
          /\ campaign' = [campaign EXCEPT ![editor[e].c] =
               [@ EXCEPT !.status = s, !.total = total(s)]]
          /\ moveWalletCredits(-unused(s))
    BY <1>5 DEF setStatus
  <2>2. editor[e].c \in Campaign /\ editor[e].seen \in CampaignRecord
    BY <1>5 DEF setStatus
  <2>3. s \in Status
    BY <2>1, <2>2 DEF STATUS_MOVES, Status, CampaignRecord
  <2>4. unused(s) \in Int /\ -unused(s) \in Int
    BY <2>2 DEF CampaignRecord
  <2>5. campaign[editor[e].c] \in CampaignRecord
    BY <2>2
  <2>6. [campaign[editor[e].c] EXCEPT !.status = s, !.total = total(s)] \in CampaignRecord
    <3>1. campaign[editor[e].c].total \in Int /\ editor[e].seen.used \in Int
      BY <2>2, <2>5 DEF CampaignRecord
    <3> HIDE DEF unused
    <3>2. total(s) \in Int
      BY <3>1
    <3> HIDE DEF total
    <3> QED
      BY <2>3, <2>5, <3>2, CampaignStaysTyped, CampaignsAssumption
  <2>7. campaign' \in [Campaign -> CampaignRecord]
    <3> HIDE DEF unused, total
    <3>1. PICK new \in CampaignRecord : campaign' = [campaign EXCEPT ![editor[e].c] = new]
      BY <2>1, <2>6
    <3> QED
      BY <2>2, <3>1, CampaignPut
  <2>8. org' \in Org
    BY <2>1, <2>4, WalletStaysTyped DEF Org
  <2> QED
    BY <1>3, <1>5, <2>7, <2>8 DEF setStatus, Done, Org
<1>6. ASSUME NEW e \in Editor, Refused(e) PROVE TypeInv'
  BY <1>3, <1>6 DEF Refused, Done
<1>7. ASSUME NEW c \in Campaign, NEW k \in Candidate, CandidateStep(c, k) PROVE TypeInv'
  <2>1. CASE joinCampaign(c, k)
    <3>1. campaign[c].joined + 1 \in Nat
      BY DEF CampaignRecord
    <3>2. campaign' = [campaign EXCEPT ![c] = [@ EXCEPT !.joined = campaign[c].joined + 1]]
      BY <2>1 DEF joinCampaign
    <3>3. [campaign[c] EXCEPT !.joined = campaign[c].joined + 1] \in CampaignRecord
      BY <3>1 DEF CampaignRecord
    <3>4. campaign' \in [Campaign -> CampaignRecord]
      BY <3>2, <3>3
    <3>5. "JOINED" \in Interview
      BY DEF Interview
    <3>6. application' \in [Campaign -> [Candidate -> Interview]]
      BY <2>1, <3>5, InterviewStaysTyped DEF joinCampaign
    <3> QED
      BY <2>1, <3>4, <3>6 DEF joinCampaign
  <2>2. CASE Start(c, k)
    <3>1. campaign[c].used + 1 \in Nat
      BY DEF CampaignRecord
    <3>2. campaign' = campaign \/ campaign' = [campaign EXCEPT ![c].used = campaign[c].used + 1]
      BY <2>2 DEF Start
    <3>3. campaign' \in [Campaign -> CampaignRecord]
      BY <3>1, <3>2, UsedStaysTyped
    <3>4. PICK v \in {"SPONSORED", "OWN"} : application' = [application EXCEPT ![c][k] = v]
      BY <2>2 DEF Start
    <3>5. v \in Interview
      BY DEF Interview
    <3> QED
      BY <2>2, <3>3, <3>4, <3>5, InterviewStaysTyped DEF Start
  <2>3. CASE Ends(c, k)
    <3>1. PICK v \in {"USED", "UNUSED"} : application' = [application EXCEPT ![c][k] = v]
      BY <2>3 DEF Ends
    <3>2. v \in Interview
      BY DEF Interview
    <3> QED
      BY <2>3, <3>1, <3>2, InterviewStaysTyped DEF Ends
  <2> QED
    BY <1>7, <2>1, <2>2, <2>3 DEF CandidateStep
<1>8. ASSUME AdminStep PROVE TypeInv'
  BY <1>8 DEF AdminStep, UpdateQuota, SetOrgStatus, adjustWallet
<1> QED
  BY <1>1, <1>2, <1>4, <1>5, <1>6, <1>7, <1>8, Steps DEF EditStep

LEMMA SpecTypeInv == Spec => []TypeInv
<1>1. Init => TypeInv
  BY InitTypeInv
<1>2. TypeInv /\ [Next]_vars => TypeInv'
  BY NextTypeInv
<1> QED
  BY <1>1, <1>2, PTL DEF Spec

(* The organisation, the campaigns, the interviews and what editors have   *)
(* read stay in their types.                                               *)
THEOREM TypeCorrect == Spec => []TypeOK
<1>1. TypeInv => TypeOK
  BY DEF TypeInv
<1> QED
  BY <1>1, SpecTypeInv, PTL

-------------------------------------------------------------------------------
(* Candidates and limits                                                   *)

Joined(c) == Having(c, Interview \ {"NONE"})

LEMMA JoinsFinite ==
  /\ \A c \in Campaign : IsFiniteSet(Joined(c))
  /\ IsFiniteSet(Joins)
<1>1. \A c \in Campaign : Joined(c) \subseteq Candidate
  BY DEF Joined, Having
<1>2. IsFiniteSet(Campaign \X Candidate) /\ Joins \subseteq Campaign \X Candidate
  BY FS_Product, CampaignsAssumption DEF Joins
<1> QED
  BY <1>1, <1>2, FS_Subset, CampaignsAssumption

(* A step by which nobody joins, and which respects the limits.            *)
LEMMA NobodyJoins ==
  ASSUME TypeInv, JoinsWithinLimits,
         \A c \in Campaign : campaign'[c].joined = campaign[c].joined
                               /\ Within(campaign[c].joined, campaign'[c].max),
         \A c \in Campaign, k \in Candidate :
           application'[c][k] # "NONE" <=> application[c][k] # "NONE",
         application' \in [Campaign -> [Candidate -> Interview]],
         org'.used = org.used, Within(org.used, org'.quota)
  PROVE  JoinsWithinLimits'
<1>1. \A c \in Campaign : Joined(c)' = Joined(c)
  BY DEF Joined, Having, TypeInv, TypeOK
<1>2. Joins' = Joins
  BY DEF Joins
<1> QED
  BY <1>1, <1>2 DEF JoinsWithinLimits, Joined, Within

LEMMA SomebodyJoins ==
  ASSUME TypeInv, JoinsWithinLimits, NEW c \in Campaign, NEW k \in Candidate, joinCampaign(c, k)
  PROVE  JoinsWithinLimits'
<1> USE DEF TypeInv, TypeOK
<1>1. /\ application' \in [Campaign -> [Candidate -> Interview]]
      /\ \A d \in Campaign, l \in Candidate :
           application'[d][l] = IF d = c /\ l = k THEN "JOINED" ELSE application[d][l]
      /\ application[c][k] = "NONE"
  BY InterviewStaysTyped DEF joinCampaign, Interview
<1>2. /\ \A d \in Campaign : d # c => Joined(d)' = Joined(d)
      /\ k \notin Joined(c) /\ Joined(c)' = Joined(c) \cup {k}
  BY <1>1 DEF Joined, Having, Interview
<1>3. <<c, k>> \notin Joins /\ Joins' = Joins \cup {<<c, k>>}
  BY <1>1 DEF Joins
<1>4. /\ Cardinality(Joined(c)') = Cardinality(Joined(c)) + 1
      /\ Cardinality(Joins') = Cardinality(Joins) + 1
  BY <1>2, <1>3, JoinsFinite, FS_AddElement
<1>5. /\ \A d \in Campaign : campaign'[d].joined = IF d = c THEN campaign[c].joined + 1
                                                   ELSE campaign[d].joined
      /\ \A d \in Campaign : campaign'[d].max = campaign[d].max
      /\ org'.used = org.used + 1 /\ org'.quota = org.quota
  BY DEF joinCampaign, CampaignRecord
<1>6. /\ \A d \in Campaign : campaign[d].joined = Cardinality(Joined(d))
                               /\ Within(campaign[d].joined, campaign[d].max)
      /\ org.used = Cardinality(Joins) /\ Within(org.used, org.quota)
  BY DEF JoinsWithinLimits, Joined
<1>7. \A d \in Campaign : campaign'[d].joined = Cardinality(Joined(d)')
  BY <1>2, <1>4, <1>5, <1>6
<1>8. \A d \in Campaign : Within(campaign'[d].joined, campaign'[d].max)
  <2>1. Within(campaign[c].joined + 1, campaign[c].max)
    BY CampaignsAssumption DEF joinCampaign, HasPlace, Within, CampaignRecord, Unlimited
  <2> QED
    BY <1>5, <1>6, <2>1
<1>9. Within(org'.used, org'.quota)
  BY <1>5, CampaignsAssumption DEF joinCampaign, InQuota, Within, Unlimited
<1>10. org'.used = Cardinality(Joins')
  BY <1>4, <1>5, <1>6
<1> QED
  BY <1>7, <1>8, <1>9, <1>10 DEF JoinsWithinLimits, Joined

LEMMA JoinsStayWithin ==
  ASSUME TypeInv, JoinsWithinLimits, [Next]_vars
  PROVE  JoinsWithinLimits'
<1> USE DEF TypeInv, TypeOK
<1>1. /\ \A c \in Campaign : Within(campaign[c].joined, campaign[c].max)
      /\ Within(org.used, org.quota)
  BY DEF JoinsWithinLimits
<1>2. TypeInv'
  BY NextTypeInv
<1>3. CASE UNCHANGED <<org, campaign, application>>
  BY <1>1, <1>3, NobodyJoins
<1>4. ASSUME NEW e \in Editor, Update(e) PROVE JoinsWithinLimits'
  <2>1. PICK max \in Limit, total \in 0..MaxGranted :
          /\ Within(campaign[editor[e].c].joined, max)
          /\ moveWalletCredits(total - editor[e].seen.total)
          /\ campaign' = [campaign EXCEPT ![editor[e].c] =
               [@ EXCEPT !.max = max, !.total = total, !.used = editor[e].seen.used]]
    BY <1>4 DEF Update, UpdateHolds
  <2>2. editor[e].c \in Campaign
    BY <1>4 DEF Update, EditsInv
  <2>3. \A c \in Campaign : campaign'[c].joined = campaign[c].joined
                              /\ Within(campaign[c].joined, campaign'[c].max)
    BY <1>1, <2>1, <2>2 DEF CampaignRecord
  <2>4. org'.used = org.used /\ org'.quota = org.quota
    BY <2>1 DEF moveWalletCredits
  <2> QED
    BY <1>1, <1>2, <1>4, <2>3, <2>4, NobodyJoins DEF Update
<1>5. ASSUME NEW e \in Editor, setStatus(e) PROVE JoinsWithinLimits'
  <2>1. editor[e].c \in Campaign
    BY <1>5 DEF setStatus, EditsInv
  <2>2. \A c \in Campaign : campaign'[c].joined = campaign[c].joined
                              /\ campaign'[c].max = campaign[c].max
    BY <1>5, <2>1 DEF setStatus, CampaignRecord
  <2>3. org'.used = org.used /\ org'.quota = org.quota
    BY <1>5 DEF setStatus, moveWalletCredits
  <2> QED
    BY <1>1, <1>2, <1>5, <2>2, <2>3, NobodyJoins DEF setStatus
<1>6. ASSUME NEW c \in Campaign, NEW k \in Candidate,
             Start(c, k) \/ Ends(c, k)
      PROVE  JoinsWithinLimits'
  <2>1. \A d \in Campaign : campaign'[d].joined = campaign[d].joined
                              /\ campaign'[d].max = campaign[d].max
    BY <1>6 DEF Start, Ends, CampaignRecord
  <2>2. application[c][k] # "NONE"
          /\ \E v \in Interview \ {"NONE"} : application' = [application EXCEPT ![c][k] = v]
    BY <1>6 DEF Start, Ends, Interview
  <2>3. \A d \in Campaign, l \in Candidate :
          application'[d][l] # "NONE" <=> application[d][l] # "NONE"
    BY <2>2, InterviewStaysTyped
  <2>4. org' = org
    BY <1>6 DEF Start, Ends
  <2> QED
    BY <1>1, <1>2, <2>1, <2>3, <2>4, NobodyJoins
<1>7. ASSUME AdminStep PROVE JoinsWithinLimits'
  <2>1. org'.used = org.used /\ Within(org.used, org'.quota)
    BY <1>1, <1>7 DEF AdminStep, UpdateQuota, SetOrgStatus, adjustWallet
  <2> QED
    BY <1>1, <1>2, <1>7, <2>1, NobodyJoins DEF AdminStep, UpdateQuota, SetOrgStatus, adjustWallet
<1>8. \/ UNCHANGED <<org, campaign, application>>
      \/ \E e \in Editor : Update(e) \/ setStatus(e)
      \/ \E c \in Campaign, k \in Candidate : CandidateStep(c, k)
      \/ AdminStep
  BY Steps DEF vars, ReadStep, Reads, EditStep, Refused
<1> QED
  BY <1>3, <1>4, <1>5, <1>6, <1>7, <1>8, SomebodyJoins DEF CandidateStep

(* However limits and quota are edited while candidates join, no campaign  *)
(* and no organisation ever has more of them than it allows.               *)
THEOREM JoinsWithinLimitsAlways == Spec => []JoinsWithinLimits
<1>1. Init => JoinsWithinLimits
  <2>1. ASSUME Init PROVE Joins = {} /\ \A c \in Campaign : Joined(c) = {}
    BY <2>1 DEF Init, Joins, Joined, Having
  <2> QED
    <3>1. ASSUME Init
          PROVE  /\ org.used = 0 /\ org.quota = Unlimited
                 /\ \A c \in Campaign : campaign[c].joined = 0 /\ campaign[c].max = Unlimited
      BY <3>1 DEF Init, NewCampaign
    <3>2. Cardinality({}) = 0
      BY FS_EmptySet
    <3> QED
      BY <2>1, <3>1, <3>2 DEF JoinsWithinLimits, Joined, Within
<1>2. TypeInv /\ JoinsWithinLimits /\ [Next]_vars => JoinsWithinLimits'
  BY JoinsStayWithin
<1> QED
  BY <1>1, <1>2, SpecTypeInv, PTL DEF Spec

-------------------------------------------------------------------------------
(* Budgets, when one member edits a campaign at a time                     *)

OneEditor == "TWO_EDITORS" \notin Faults

(* What an editor knows of the campaign.                                   *)
Knows(e) ==
  /\ editor[e].seen.total = campaign[editor[e].c].total
  /\ editor[e].seen.used <= editor[e].seen.total
  /\ editor[e].seen.used <= campaign[editor[e].c].used
  /\ \A d \in Editor : editor[d].c = editor[e].c => d = e

EditingInv ==
  \A e \in Editor : IF editor[e].op = "NONE" THEN editor[e].c = "NONE" ELSE Knows(e)

BudgetInv == TypeInv /\ EditingInv /\ BudgetCoversUse

Paying(c) == Having(c, Sponsored)

LEMMA PayingFinite == \A c \in Campaign : IsFiniteSet(Paying(c)) /\ Cardinality(Paying(c)) \in Nat
<1>1. \A c \in Campaign : Paying(c) \subseteq Candidate
  BY DEF Paying, Having
<1> QED
  BY <1>1, FS_Subset, FS_CardinalityType, CampaignsAssumption

(* An edit is the only step that changes a total, and leaves others alone; *)
(* candidates only use more of it.                                         *)
LEMMA EditChangesItsCampaign ==
  ASSUME TypeInv, NEW e \in Editor, Update(e) \/ setStatus(e)
  PROVE  /\ editor' = [editor EXCEPT ![e] = NotEditing]
         /\ editor[e].op # "NONE" /\ editor[e].c \in Campaign
         /\ \A c \in Campaign : c # editor[e].c => campaign'[c] = campaign[c]
BY DEF TypeInv, TypeOK, EditsInv, Update, setStatus, Done

LEMMA CandidatesKeepTotals ==
  ASSUME TypeInv, NEW c \in Campaign, NEW k \in Candidate, CandidateStep(c, k)
  PROVE  /\ editor' = editor
         /\ \A d \in Campaign : /\ campaign'[d].total = campaign[d].total
                               /\ campaign'[d].status = campaign[d].status
                               /\ campaign'[d].used >= campaign[d].used
<1> USE DEF TypeInv, TypeOK
<1>1. CASE joinCampaign(c, k)
  BY <1>1 DEF joinCampaign, CampaignRecord
<1>2. CASE Start(c, k)
  BY <1>2 DEF Start, CampaignRecord
<1>3. CASE Ends(c, k)
  BY <1>3 DEF Ends, CampaignRecord
<1> QED
  BY <1>1, <1>2, <1>3 DEF CandidateStep

LEMMA EditingStays ==
  ASSUME OneEditor, BudgetInv, [Next]_vars
  PROVE  EditingInv'
<1> USE DEF BudgetInv, TypeInv, TypeOK
<1>1. NotEditing.op = "NONE" /\ NotEditing.c = "NONE"
  BY DEF NotEditing
<1>2. ASSUME editor' = editor,
             \A c \in Campaign : campaign'[c].total = campaign[c].total
                                   /\ campaign'[c].used >= campaign[c].used,
             campaign' \in [Campaign -> CampaignRecord]
      PROVE  EditingInv'
  <2> SUFFICES ASSUME NEW e \in Editor, editor[e].op # "NONE" PROVE Knows(e)'
    BY <1>2 DEF EditingInv
  <2>1. Knows(e) /\ editor[e].c \in Campaign /\ editor[e].seen \in CampaignRecord
    BY DEF EditingInv, EditsInv
  <2>2. campaign'[editor[e].c].used >= campaign[editor[e].c].used
    BY <1>2, <2>1
  <2>3. /\ campaign'[editor[e].c].used \in Int /\ campaign[editor[e].c].used \in Int
        /\ editor[e].seen.used \in Int
    BY <1>2, <2>1 DEF CampaignRecord
  <2>4. editor[e].seen.used <= campaign'[editor[e].c].used
    BY <2>1, <2>2, <2>3 DEF Knows
  <2> QED
    BY <1>2, <2>1, <2>4 DEF Knows
<1>3. ASSUME NEW e \in Editor, editor' = [editor EXCEPT ![e] = NotEditing],
             editor[e].op # "NONE",
             \A c \in Campaign : c # editor[e].c => campaign'[c] = campaign[c]
      PROVE  EditingInv'
  <2> SUFFICES ASSUME NEW d \in Editor
               PROVE  IF editor'[d].op = "NONE" THEN editor'[d].c = "NONE" ELSE Knows(d)'
    BY DEF EditingInv
  <2>1. CASE d = e
    BY <1>1, <1>3, <2>1
  <2>2. CASE d # e /\ editor[d].op = "NONE"
    BY <1>3, <2>2 DEF EditingInv
  <2>3. CASE d # e /\ editor[d].op # "NONE"
    <3>1. Knows(d) /\ editor[d].c \in Campaign /\ editor[d].c # editor[e].c
      BY <2>3 DEF EditingInv, EditsInv, Knows
    <3>2. editor'[d] = editor[d] /\ campaign'[editor[d].c] = campaign[editor[d].c]
      BY <1>3, <2>3, <3>1
    <3>3. \A x \in Editor : editor'[x].c = editor[d].c => x = d
      BY <1>1, <1>3, <3>1, CampaignsAssumption DEF Knows
    <3> QED
      BY <2>3, <3>1, <3>2, <3>3 DEF Knows
  <2> QED
    BY <2>1, <2>2, <2>3
<1>4. ASSUME NEW e \in Editor, ReadStep(e) PROVE EditingInv'
  <2>1. PICK c \in Campaign, op \in {"UPDATE", "STATUS"} : Reads(e, c, op)
    BY <1>4 DEF ReadStep
  <2>2. /\ \A d \in Editor : editor[d].c # c
        /\ editor' = [editor EXCEPT ![e] = [op |-> op, c |-> c, seen |-> campaign[c]]]
        /\ campaign' = campaign
    BY <2>1 DEF Reads, OneEditor
  <2> SUFFICES ASSUME NEW d \in Editor
               PROVE  IF editor'[d].op = "NONE" THEN editor'[d].c = "NONE" ELSE Knows(d)'
    BY DEF EditingInv
  <2>3. CASE d = e
    <3>1. campaign[c].used <= campaign[c].total /\ campaign[c].used <= campaign[c].used
      BY DEF BudgetCoversUse, CampaignRecord
    <3> QED
      BY <2>2, <2>3, <3>1 DEF Knows
  <2>4. CASE d # e
    BY <2>2, <2>4 DEF EditingInv, Knows
  <2> QED
    BY <2>3, <2>4
<1>5. ASSUME NEW e \in Editor, EditStep(e) PROVE EditingInv'
  BY <1>3, <1>5, EditChangesItsCampaign DEF EditStep, Refused, Done
<1>6. ASSUME NEW c \in Campaign, NEW k \in Candidate, CandidateStep(c, k) PROVE EditingInv'
  BY <1>2, <1>6, CandidatesKeepTotals, NextTypeInv
<1>7. ASSUME AdminStep PROVE EditingInv'
  BY <1>2, <1>7 DEF AdminStep, UpdateQuota, SetOrgStatus, adjustWallet, CampaignRecord
<1>8. CASE UNCHANGED vars
  BY <1>2, <1>8 DEF vars, CampaignRecord
<1> QED
  BY <1>4, <1>5, <1>6, <1>7, <1>8, Steps

LEMMA EditCoversUse ==
  ASSUME BudgetInv, NEW e \in Editor, Update(e) \/ setStatus(e)
  PROVE  BudgetCoversUse'
<1> USE DEF BudgetInv, TypeInv, TypeOK
<1> DEFINE c == editor[e].c
           seen == editor[e].seen
<1>1. /\ c \in Campaign /\ editor[e].op # "NONE"
      /\ \A d \in Campaign : d # c => campaign'[d] = campaign[d]
  BY EditChangesItsCampaign
<1>2. Knows(e)
  BY <1>1 DEF EditingInv
<1>3. \A d \in Campaign : campaign[d].used <= campaign[d].total
  BY DEF BudgetCoversUse
<1>4. \A d \in Campaign : Paying(d)' = Paying(d)
  BY DEF Update, setStatus, Paying, Having
<1>5. seen \in CampaignRecord /\ campaign[c] \in CampaignRecord
  BY <1>1
<1>6. /\ campaign'[c].used = campaign[c].used /\ campaign[c].used <= campaign'[c].total
      /\ campaign'[c].status = "CLOSED" => campaign[c].used = campaign'[c].total
  <2>1. CASE Update(e)
    <3>1. PICK max \in Limit, total \in 0..MaxGranted :
            /\ total >= seen.used
            /\ seen.total # 0 => campaign[c].used = seen.used
            /\ campaign[c].status # "CLOSED"
            /\ campaign' = [campaign EXCEPT ![c] =
                 [@ EXCEPT !.max = max, !.total = total, !.used = seen.used]]
      BY <2>1 DEF Update, UpdateHolds
    <3>2. /\ campaign'[c].used = seen.used /\ campaign'[c].total = total
          /\ campaign'[c].status # "CLOSED"
      BY <1>1, <1>5, <3>1 DEF CampaignRecord
    <3>3. seen.used = campaign[c].used
      <4>1. CASE seen.total = 0
        <5>1. seen.used \in Nat /\ campaign[c].used \in Nat
          BY <1>5 DEF CampaignRecord
        <5>2. seen.total = campaign[c].total /\ seen.used <= seen.total
          BY <1>2 DEF Knows
        <5>3. campaign[c].used <= campaign[c].total
          BY <1>1, <1>3
        <5> HIDE DEF c, seen
        <5> QED
          BY <4>1, <5>1, <5>2, <5>3
      <4> QED
        BY <3>1, <4>1
    <3> QED
      BY <3>1, <3>2, <3>3
  <2>2. CASE setStatus(e)
    <3> DEFINE unused(s) == IF s = "CLOSED" THEN seen.total - seen.used ELSE 0
               total(s) == IF unused(s) > 0 THEN seen.used ELSE campaign[c].total
    <3>1. PICK s \in STATUS_MOVES[seen.status] :
            /\ unused(s) > 0 => campaign[c].used = seen.used
            /\ campaign' = [campaign EXCEPT ![c] = [@ EXCEPT !.status = s, !.total = total(s)]]
      BY <2>2 DEF setStatus, CloseHolds
    <3>2. /\ seen.used <= seen.total /\ seen.used <= campaign[c].used
          /\ campaign[c].used <= campaign[c].total /\ seen.total = campaign[c].total
          /\ seen.used \in Int /\ campaign[c].used \in Int /\ campaign[c].total \in Int
      BY <1>1, <1>2, <1>3, <1>5 DEF Knows, CampaignRecord
    <3>3. unused(s) > 0 => campaign[c].used = seen.used
      BY <3>1
    <3> DEFINE n == campaign[c].used
               m == campaign[c].total
               x == seen.used
    <3>4. /\ n \in Int /\ m \in Int /\ x \in Int /\ x <= n /\ n <= m
          /\ unused(s) = IF s = "CLOSED" THEN m - x ELSE 0
          /\ total(s) = IF unused(s) > 0 THEN x ELSE m
          /\ unused(s) > 0 => n = x
      BY <3>2, <3>3
    <3> HIDE DEF n, m, x, unused, total
    <3>6. n <= total(s) /\ (s = "CLOSED" => n = total(s))
      BY <3>4
    <3>5. /\ campaign'[c].used = campaign[c].used /\ campaign'[c].total = total(s)
          /\ campaign'[c].status = s
      BY <1>1, <1>5, <3>1 DEF CampaignRecord
    <3> QED
      BY <3>5, <3>6 DEF n
  <2> QED
    BY <2>1, <2>2
<1>7. \A d \in Campaign : /\ campaign'[d].used = campaign[d].used
                          /\ campaign[d].used <= campaign'[d].total
                          /\ campaign'[d].status = "CLOSED" =>
                               campaign[d].used = campaign'[d].total
  <2>1. ASSUME NEW d \in Campaign, d # c
        PROVE  /\ campaign'[d].used = campaign[d].used
               /\ campaign[d].used <= campaign'[d].total
               /\ campaign'[d].status = "CLOSED" => campaign[d].used = campaign'[d].total
    BY <1>1, <2>1 DEF BudgetCoversUse
  <2> HIDE DEF c
  <2> QED
    BY <1>6, <2>1
<1>8. \A d \in Campaign : /\ campaign'[d].used = Cardinality(Paying(d)')
                          /\ campaign'[d].used <= campaign'[d].total
                          /\ campaign'[d].status = "CLOSED" =>
                               campaign'[d].used = campaign'[d].total
  <2> SUFFICES ASSUME NEW d \in Campaign
               PROVE  /\ campaign'[d].used = Cardinality(Paying(d)')
                      /\ campaign'[d].used <= campaign'[d].total
                      /\ campaign'[d].status = "CLOSED" => campaign'[d].used = campaign'[d].total
    OBVIOUS
  <2>1. /\ campaign'[d].used = campaign[d].used /\ campaign[d].used <= campaign'[d].total
        /\ campaign'[d].status = "CLOSED" => campaign[d].used = campaign'[d].total
        /\ Paying(d)' = Paying(d)
    BY <1>4, <1>7
  <2>2. campaign[d].used = Cardinality(Paying(d))
    BY DEF BudgetCoversUse, Paying
  <2> QED
    BY <2>1, <2>2
<1> QED
  BY <1>8 DEF BudgetCoversUse, Paying

LEMMA CandidatesCoverUse ==
  ASSUME BudgetInv, NEW c \in Campaign, NEW k \in Candidate, CandidateStep(c, k)
  PROVE  BudgetCoversUse'
<1> USE DEF BudgetInv, TypeInv, TypeOK
<1>1. PICK v \in Interview : application' = [application EXCEPT ![c][k] = v]
  BY DEF CandidateStep, joinCampaign, Start, Ends, Interview
<1>2. /\ application' \in [Campaign -> [Candidate -> Interview]]
      /\ \A d \in Campaign, l \in Candidate :
           application'[d][l] = IF d = c /\ l = k THEN v ELSE application[d][l]
  BY <1>1, InterviewStaysTyped
<1>3. \A d \in Campaign : d # c => Paying(d)' = Paying(d)
  BY <1>2 DEF Paying, Having, Sponsored
<1>4. \A d \in Campaign : /\ campaign[d].used = Cardinality(Paying(d))
                          /\ campaign[d].used <= campaign[d].total
                          /\ campaign'[d].total = campaign[d].total
                          /\ campaign'[d].status = campaign[d].status
                          /\ campaign[d].status = "CLOSED" => campaign[d].used = campaign[d].total
  BY CandidatesKeepTotals DEF BudgetCoversUse, Paying
<1>5. \A d \in Campaign : d # c => campaign'[d].used = campaign[d].used
  BY DEF CandidateStep, joinCampaign, Start, Ends, CampaignRecord
<1>6. /\ campaign'[c].used = Cardinality(Paying(c)') /\ campaign'[c].used <= campaign[c].total
      /\ campaign[c].status = "CLOSED" => campaign'[c].used = campaign[c].total
  <2>1. ASSUME campaign'[c].used = campaign[c].used, Paying(c)' = Paying(c)
        PROVE  /\ campaign'[c].used = Cardinality(Paying(c)') /\ campaign'[c].used <= campaign[c].total
               /\ campaign[c].status = "CLOSED" => campaign'[c].used = campaign[c].total
    BY <1>4, <2>1
  <2>2. CASE joinCampaign(c, k)
    <3>1. campaign'[c].used = campaign[c].used
      BY <2>2 DEF joinCampaign, CampaignRecord
    <3>2. application[c][k] = "NONE" /\ application'[c][k] = "JOINED"
      BY <2>2 DEF joinCampaign
    <3>3. Paying(c)' = Paying(c)
      BY <1>2, <3>2 DEF Paying, Having, Sponsored
    <3> QED
      BY <2>1, <3>1, <3>3
  <2>3. CASE Start(c, k)
    <3>1. application[c][k] = "JOINED"
      BY <2>3 DEF Start
    <3>2. CASE campaign[c].used < campaign[c].total
      <4>1. campaign'[c].used = campaign[c].used + 1 /\ application'[c][k] = "SPONSORED"
        BY <2>3, <3>2 DEF Start, CampaignRecord
      <4>2. k \notin Paying(c) /\ Paying(c)' = Paying(c) \cup {k}
        BY <1>2, <3>1, <4>1 DEF Paying, Having, Sponsored
      <4>3. Cardinality(Paying(c)') = Cardinality(Paying(c)) + 1
        BY <4>2, PayingFinite, FS_AddElement
      <4>4. campaign[c].used \in Nat /\ campaign[c].total \in Int
        BY DEF CampaignRecord
      <4> QED
        BY <1>4, <3>2, <4>1, <4>3, <4>4
    <3>3. CASE ~(campaign[c].used < campaign[c].total)
      <4>1. campaign' = campaign /\ application'[c][k] = "OWN"
        BY <2>3, <3>3 DEF Start
      <4>2. Paying(c)' = Paying(c)
        BY <1>2, <3>1, <4>1 DEF Paying, Having, Sponsored
      <4> QED
        BY <2>1, <4>1, <4>2
    <3> QED
      BY <3>2, <3>3
  <2>4. CASE Ends(c, k)
    <3>1. /\ campaign' = campaign /\ application[c][k] = "SPONSORED"
          /\ application'[c][k] \in {"USED", "UNUSED"}
      BY <2>4 DEF Ends
    <3>2. Paying(c)' = Paying(c)
      BY <1>2, <3>1 DEF Paying, Having, Sponsored
    <3> QED
      BY <2>1, <3>1, <3>2
  <2> QED
    BY <2>2, <2>3, <2>4 DEF CandidateStep
<1>7. \A d \in Campaign : /\ campaign'[d].used = Cardinality(Paying(d)')
                          /\ campaign'[d].used <= campaign'[d].total
                          /\ campaign'[d].status = "CLOSED" =>
                               campaign'[d].used = campaign'[d].total
  BY <1>3, <1>4, <1>5, <1>6
<1> QED
  BY <1>7 DEF BudgetCoversUse, Paying

LEMMA NextBudgetInv ==
  ASSUME OneEditor, BudgetInv, [Next]_vars
  PROVE  BudgetInv'
<1>1. ASSUME UNCHANGED <<campaign, application>> PROVE BudgetCoversUse'
  BY <1>1 DEF BudgetInv, BudgetCoversUse, Having
<1>2. BudgetCoversUse'
  <2>1. \/ UNCHANGED <<campaign, application>>
        \/ \E e \in Editor : Update(e) \/ setStatus(e)
        \/ \E c \in Campaign, k \in Candidate : CandidateStep(c, k)
    BY Steps
    DEF vars, ReadStep, Reads, EditStep, Refused, AdminStep, UpdateQuota, SetOrgStatus, adjustWallet
  <2> QED
    BY <1>1, <2>1, EditCoversUse, CandidatesCoverUse
<1> QED
  BY <1>2, EditingStays, NextTypeInv DEF BudgetInv

LEMMA SpecBudgetInv ==
  ASSUME OneEditor
  PROVE  Spec => []BudgetInv
<1>1. Init => BudgetInv
  <2>1. ASSUME Init PROVE \A c \in Campaign : Paying(c) = {}
    BY <2>1 DEF Init, Paying, Having, Sponsored
  <2>2. ASSUME Init PROVE BudgetCoversUse
    <3>1. \A c \in Campaign : campaign[c].used = 0 /\ campaign[c].total = 0
                                   /\ campaign[c].status # "CLOSED"
      BY <2>2 DEF Init, NewCampaign
    <3>2. Cardinality({}) = 0
      BY FS_EmptySet
    <3> QED
      BY <2>1, <2>2, <3>1, <3>2 DEF BudgetCoversUse, Paying
  <2>3. ASSUME Init PROVE EditingInv
    BY <2>3 DEF Init, EditingInv, NotEditing
  <2> QED
    BY <2>2, <2>3, InitTypeInv DEF BudgetInv
<1>2. BudgetInv /\ [Next]_vars => BudgetInv'
  BY NextBudgetInv
<1> QED
  BY <1>1, <1>2, PTL DEF Spec

(* Edited by one member at a time, a campaign pays exactly for the         *)
(* interviews started on its budget, and closing takes back all the rest.  *)
THEOREM BudgetCoversUseAlways ==
  ASSUME OneEditor
  PROVE  Spec => []BudgetCoversUse
<1>1. BudgetInv => BudgetCoversUse
  BY DEF BudgetInv
<1> QED
  BY <1>1, SpecBudgetInv, PTL

-------------------------------------------------------------------------------
(* The wallet                                                              *)

Units(c, n) == {c} \X (1..n)
Others(c) == {u \in Budgeted : u[1] # c}

LEMMA UnitsCounted ==
  ASSUME NEW c \in Campaign, NEW n \in Nat
  PROVE  IsFiniteSet(Units(c, n)) /\ Cardinality(Units(c, n)) = n
<1>1. IsFiniteSet({c}) /\ Cardinality({c}) = 1
  BY FS_Singleton
<1>2. IsFiniteSet(1..n) /\ Cardinality(1..n) = n
  BY FS_Interval
<1>3. IsFiniteSet(Units(c, n)) /\ Cardinality(Units(c, n)) = Cardinality({c}) * Cardinality(1..n)
  BY <1>1, <1>2, FS_Product DEF Units
<1>4. 1 * n = n
  OBVIOUS
<1> QED
  BY <1>1, <1>2, <1>3, <1>4

LEMMA BudgetedFinite == IsFiniteSet(Budgeted) /\ Cardinality(Budgeted) \in Nat
<1>1. IsFiniteSet(1..MaxGranted)
  BY FS_Interval, CampaignsAssumption
<1>2. IsFiniteSet(Campaign \X (1..MaxGranted))
  BY <1>1, FS_Product, CampaignsAssumption
<1>3. Budgeted \subseteq Campaign \X (1..MaxGranted)
  BY DEF Budgeted
<1> QED
  BY <1>2, <1>3, FS_Subset, FS_CardinalityType

(* When one campaign's total changes, so does the number of units in the   *)
(* budgets.                                                                *)
LEMMA BudgetChanges ==
  ASSUME NEW c \in Campaign, NEW b \in 0..MaxGranted,
         campaign[c].total \in 0..MaxGranted, campaign'[c].total = b,
         \A d \in Campaign : d # c => campaign'[d].total = campaign[d].total
  PROVE  Cardinality(Budgeted') = Cardinality(Budgeted) - campaign[c].total + b
<1> USE CampaignsAssumption
<1> DEFINE a == campaign[c].total
<1>1. Budgeted = Others(c) \cup Units(c, a)
  BY DEF Budgeted, Others, Units
<1>2. Budgeted' = Others(c) \cup Units(c, b)
  BY DEF Budgeted, Others, Units
<1>3. Others(c) \cap Units(c, a) = {} /\ Others(c) \cap Units(c, b) = {}
  BY DEF Others, Units
<1>4. IsFiniteSet(Others(c)) /\ Cardinality(Others(c)) \in Nat
  <2>1. Others(c) \subseteq Budgeted
    BY DEF Others
  <2> QED
    BY <2>1, BudgetedFinite, FS_Subset, FS_CardinalityType
<1>5. Cardinality({}) = 0
  BY FS_EmptySet
<1>6. a \in Nat /\ b \in Nat
  OBVIOUS
<1> HIDE DEF a
<1>7. ASSUME NEW n \in Nat, Others(c) \cap Units(c, n) = {}
      PROVE  Cardinality(Others(c) \cup Units(c, n)) = Cardinality(Others(c)) + n
  <2>1. IsFiniteSet(Units(c, n)) /\ Cardinality(Units(c, n)) = n
    BY UnitsCounted
  <2> DEFINE S == Others(c)
             T == Units(c, n)
  <2>2. IsFiniteSet(S) /\ IsFiniteSet(T) /\ S \cap T = {} /\ Cardinality(T) = n
          /\ Cardinality(S) \in Nat
    BY <1>4, <1>7, <2>1
  <2> HIDE DEF S, T
  <2>3. Cardinality(S \cup T) = Cardinality(S) + Cardinality(T) - Cardinality(S \cap T)
    BY <2>2, FS_Union
  <2>4. Cardinality(S \cup T) = Cardinality(S) + n
    BY <1>5, <2>2, <2>3
  <2> QED
    BY <2>4 DEF S, T
<1>8. /\ Cardinality(Others(c) \cup Units(c, a)) = Cardinality(Others(c)) + a
      /\ Cardinality(Others(c) \cup Units(c, b)) = Cardinality(Others(c)) + b
  BY <1>3, <1>6, <1>7
<1>9. Cardinality(Budgeted') = Cardinality(Budgeted) - a + b
  BY <1>1, <1>2, <1>4, <1>6, <1>8
<1> QED
  BY <1>9 DEF a

(* The wallet moves by what the budget changes.                            *)
LEMMA WalletMoves ==
  ASSUME TypeInv, WalletConserved, NEW c \in Campaign, NEW b \in 0..MaxGranted,
         campaign[c].total \in 0..MaxGranted, campaign'[c].total = b,
         \A d \in Campaign : d # c => campaign'[d] = campaign[d],
         moveWalletCredits(b - campaign[c].total),
         b > campaign[c].total => org.balance >= b - campaign[c].total,
         granted' = granted
  PROVE  WalletConserved'
<1> USE CampaignsAssumption DEF TypeInv, TypeOK, WalletConserved
<1> DEFINE a == campaign[c].total
<1>1. org'.balance = org.balance - (b - a) /\ org'.allocated = org.allocated + (b - a)
  BY DEF moveWalletCredits
<1>2. Cardinality(Budgeted') = Cardinality(Budgeted) - a + b
  BY BudgetChanges
<1>3. \A d \in Campaign : campaign'[d].total <= MaxGranted
  BY DEF CampaignRecord
<1>4. org.balance \in Int /\ org.allocated \in Int /\ granted \in Int /\ a \in Int /\ b \in Int
        /\ Cardinality(Budgeted) \in Int
  BY BudgetedFinite
<1> HIDE DEF a
<1>5. org'.balance >= 0
  <2>1. b > a => org.balance >= b - a
    BY DEF a
  <2> QED
    BY <1>1, <1>4, <2>1
<1>6. org'.balance + org'.allocated = granted' /\ org'.allocated = Cardinality(Budgeted')
  BY <1>1, <1>2, <1>4
<1> QED
  BY <1>3, <1>5, <1>6

LEMMA WalletStaysConserved ==
  ASSUME BudgetInv, WalletConserved, [Next]_vars
  PROVE  WalletConserved'
<1> USE CampaignsAssumption DEF BudgetInv, TypeInv, TypeOK
<1>1. ASSUME \A d \in Campaign : campaign'[d].total = campaign[d].total,
             org'.balance = org.balance, org'.allocated = org.allocated, granted' = granted
      PROVE  WalletConserved'
  <2>1. Budgeted' = Budgeted
    BY <1>1 DEF Budgeted
  <2> QED
    BY <1>1, <2>1 DEF WalletConserved
<1>2. \A d \in Campaign : campaign[d].total \in 0..MaxGranted /\ campaign[d].used <= campaign[d].total
                            /\ campaign[d].used \in Nat
  BY DEF WalletConserved, BudgetCoversUse, CampaignRecord
<1>3. ASSUME NEW e \in Editor, Update(e) PROVE WalletConserved'
  <2> DEFINE c == editor[e].c
  <2>1. PICK max \in Limit, total \in 0..MaxGranted :
          /\ Covers(total - editor[e].seen.total)
          /\ moveWalletCredits(total - editor[e].seen.total)
          /\ campaign' = [campaign EXCEPT ![c] =
               [@ EXCEPT !.max = max, !.total = total, !.used = editor[e].seen.used]]
    BY <1>3 DEF Update
  <2>2. /\ c \in Campaign /\ editor[e].op # "NONE"
        /\ \A d \in Campaign : d # c => campaign'[d] = campaign[d]
    BY <1>3, EditChangesItsCampaign
  <2>3. editor[e].seen.total = campaign[c].total
    BY <2>2 DEF EditingInv, Knows
  <2>4. campaign'[c].total = total
    BY <2>1, <2>2 DEF CampaignRecord
  <2>5. total > campaign[c].total => org.balance >= total - campaign[c].total
    BY <1>2, <2>1, <2>2, <2>3 DEF Covers
  <2>6. granted' = granted
    BY <1>3 DEF Update
  <2>7. moveWalletCredits(total - campaign[c].total)
    BY <2>1, <2>3
  <2> QED
    BY <1>2, <2>2, <2>4, <2>5, <2>6, <2>7, WalletMoves
<1>4. ASSUME NEW e \in Editor, setStatus(e) PROVE WalletConserved'
  <2> DEFINE c == editor[e].c
             unused(s) == IF s = "CLOSED" THEN editor[e].seen.total - editor[e].seen.used ELSE 0
  <2>1. PICK s \in STATUS_MOVES[editor[e].seen.status] :
          /\ campaign' = [campaign EXCEPT ![c] =
               [@ EXCEPT !.status = s,
                         !.total = IF unused(s) > 0 THEN editor[e].seen.used ELSE campaign[c].total]]
          /\ moveWalletCredits(-unused(s))
    BY <1>4 DEF setStatus
  <2>2. /\ c \in Campaign /\ editor[e].op # "NONE"
        /\ \A d \in Campaign : d # c => campaign'[d] = campaign[d]
    BY <1>4, EditChangesItsCampaign
  <2>3. editor[e].seen.total = campaign[c].total
          /\ editor[e].seen.used <= editor[e].seen.total /\ editor[e].seen.used \in Nat
    BY <2>2 DEF EditingInv, Knows, CampaignRecord
  <2>4. campaign[c].total \in 0..MaxGranted
    BY <1>2, <2>2
  <2> DEFINE u == unused(s)
  <2>5. /\ u \in 0..campaign[c].total
        /\ (IF u > 0 THEN editor[e].seen.used ELSE campaign[c].total) = campaign[c].total - u
    BY <2>3, <2>4
  <2>6. granted' = granted
    BY <1>4 DEF setStatus
  <2> HIDE DEF unused, u
  <2>8. unused(s) = u
    BY DEF u
  <2>7. campaign'[c].total = campaign[c].total - unused(s)
    BY <2>1, <2>2, <2>5, <2>8 DEF CampaignRecord
  <2> DEFINE b == campaign[c].total - u
  <2>9. b \in 0..MaxGranted /\ b - campaign[c].total = -u /\ ~(b > campaign[c].total)
    BY <2>4, <2>5
  <2>10. moveWalletCredits(b - campaign[c].total)
    BY <2>1, <2>8, <2>9
  <2>11. campaign'[c].total = b
    BY <2>7, <2>8
  <2> HIDE DEF b
  <2> QED
    BY <2>2, <2>4, <2>6, <2>9, <2>10, <2>11, WalletMoves
<1>5. ASSUME NEW c \in Campaign, NEW k \in Candidate, CandidateStep(c, k) PROVE WalletConserved'
  <2>1. org'.balance = org.balance /\ org'.allocated = org.allocated /\ granted' = granted
    BY <1>5 DEF CandidateStep, joinCampaign, Start, Ends
  <2> QED
    BY <1>1, <1>5, <2>1, CandidatesKeepTotals
<1>6. ASSUME UpdateQuota \/ SetOrgStatus PROVE WalletConserved'
  BY <1>1, <1>6 DEF UpdateQuota, SetOrgStatus
<1>7. ASSUME adjustWallet PROVE WalletConserved'
  <2>1. PICK delta \in {-1, 1} : /\ org.balance + delta >= 0
                                 /\ org' = [org EXCEPT !.balance = @ + delta]
                                 /\ granted' = granted + delta
    BY <1>7 DEF adjustWallet
  <2>2. org'.balance = org.balance + delta /\ org'.allocated = org.allocated
    BY <2>1
  <2>3. Budgeted' = Budgeted /\ campaign' = campaign
    BY <1>7 DEF adjustWallet, Budgeted
  <2> QED
    BY <2>1, <2>2, <2>3 DEF WalletConserved
<1>8. ASSUME UNCHANGED <<org, campaign, granted>> PROVE WalletConserved'
  BY <1>1, <1>8
<1> QED
  BY <1>3, <1>4, <1>5, <1>6, <1>7, <1>8, Steps
  DEF vars, ReadStep, Reads, EditStep, Refused, AdminStep

(* Edited by one member at a time, no unit of the organisation's wallet is *)
(* made or lost, and the wallet never owes.                                *)
THEOREM WalletConservedAlways ==
  ASSUME OneEditor
  PROVE  Spec => []WalletConserved
<1>1. Init => WalletConserved
  <2>1. ASSUME Init PROVE Budgeted = {}
    <3>1. \A c \in Campaign : campaign[c].total = 0
      BY <2>1 DEF Init, NewCampaign
    <3> QED
      BY <3>1, CampaignsAssumption DEF Budgeted
  <2>2. Cardinality({}) = 0
    BY FS_EmptySet
  <2> QED
    BY <2>1, <2>2, CampaignsAssumption DEF Init, WalletConserved, NewCampaign
<1>2. BudgetInv /\ WalletConserved /\ [Next]_vars => WalletConserved'
  BY WalletStaysConserved
<1> QED
  BY <1>1, <1>2, SpecBudgetInv, PTL DEF Spec
=============================================================================
