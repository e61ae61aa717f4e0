---------------------------- MODULE Certificates ----------------------------
(***************************************************************************)
(* Portfolios, whose approval asks for an internship certificate; the two  *)
(* approvals a certificate needs before it gets a number, from the history *)
(* it shares with the certificates made by hand; and the certificates of a *)
(* whole batch, numbered apart.                                            *)
(***************************************************************************)
EXTENDS Portal

CONSTANTS
  Tries,     \* of a number for a certificate of the batch
  NoRequest  \* this student has none

VARIABLES
  folio,    \* the portfolio of each student
  request,  \* the StudentCertificateRequest of each student
  history,  \* the students of the GeneratedCertificates, by number
  award     \* the number of each student's certificate of the batch, 0 if none

(* text and seen count versions: submitted, and read by the last review.   *)
Folio == [st : {"none", "PENDING", "APPROVED", "REJECTED"}, slug : BOOLEAN,
          text : Nat, seen : Nat]
NoFolio == [st |-> "none", slug |-> FALSE, text |-> 0, seen |-> 0]
Signed == [fee : BOOLEAN, ldm : BOOLEAN, no : Nat]
Asking == [fee |-> FALSE, ldm |-> FALSE, no |-> 0]
ByHand == "by hand"

CertTypeOK ==
  /\ folio \in [Students -> Folio]
  /\ \A s \in Students : request[s] = NoRequest \/ request[s] \in Signed
  /\ \A n \in DOMAIN history : n \in Nat \ {0} /\ history[n] \in Students \cup {ByHand}
  /\ award \in [Students -> Nat]

CertInit ==
  /\ folio = [s \in Students |-> NoFolio]
  /\ request = [s \in Students |-> NoRequest]
  /\ history = <<>>
  /\ award = [s \in Students |-> 0]

kept == <<now, roster, form, release>>
certs == <<folio, request, history, award>>
Handle(c, op, todo) == Free(c, op) /\ Start(c, op, todo) /\ UNCHANGED <<kept, certs>>

-----------------------------------------------------------------------------
(* Every save of a portfolio submits it anew and takes its page down.      *)

\* Mutant: a save leaves the approval.
ResavedKeeps(f) == [f EXCEPT !.st = IF @ = "none" THEN "PENDING" ELSE @, !.text = @ + 1]

Resaved(f) == [f EXCEPT !.st = "PENDING", !.slug = FALSE, !.text = @ + 1]

SubmitPortfolio(c, s) ==
  /\ folio[s].text < use.rows \* bound
  /\ Handle(c, "portfolio", <<[do |-> "portfolio", s |-> s]>>)

StorePortfolio(c) ==
  /\ Runs(c, "portfolio") /\ Done(c)
  /\ folio' = [folio EXCEPT ![It(c).s] = Resaved(@)]
  /\ UNCHANGED <<kept, request, history, award>>

(* Any portfolio may be approved or rejected, at any time.                 *)
ApprovePortfolio(c, s) ==
  /\ folio[s].st # "none"
  /\ Handle(c, "approvePortfolio",
            <<[do |-> "judge", s |-> s, st |-> "APPROVED", seen |-> folio[s].text],
              [do |-> "ask", s |-> s]>>)
RejectPortfolio(c, s) ==
  /\ folio[s].st # "none"
  /\ Handle(c, "rejectPortfolio",
            <<[do |-> "judge", s |-> s, st |-> "REJECTED", seen |-> folio[s].text]>>)

StoreJudgement(c) ==
  LET it == It(c) IN
  /\ Runs(c, "judge")
  /\ IF folio[it.s].st = "none" THEN Fails(c) /\ UNCHANGED folio
     ELSE /\ Done(c)
          /\ folio' = [folio EXCEPT ![it.s] =
               [@ EXCEPT !.st = it.st, !.seen = it.seen,
                         !.slug = @ \/ it.st = "APPROVED"]]
  /\ UNCHANGED <<kept, request, history, award>>

RemovePortfolio(c, s) ==
  /\ folio[s].st # "none"
  /\ Handle(c, "removePortfolio", <<[do |-> "unfolio", s |-> s]>>)

DropPortfolio(c) ==
  /\ Runs(c, "unfolio") /\ Done(c)
  /\ folio' = [folio EXCEPT ![It(c).s] = [NoFolio EXCEPT !.text = folio[It(c).s].text]]
  /\ UNCHANGED <<kept, request, history, award>>

(* ensureInternshipCertRequest: one request per student and type; asking   *)
(* again does nothing.                                                     *)
EnsureInternshipCertRequest(c) ==
  /\ Runs(c, "ask") /\ Done(c)
  /\ request' = IF request[It(c).s] = NoRequest
                THEN [request EXCEPT ![It(c).s] = Asking] ELSE request
  /\ UNCHANGED <<kept, folio, history, award>>

-----------------------------------------------------------------------------
(* The two approvals, each given once, by different calls.  Each then      *)
(* finalizes the request if the other is there: it counts the history,     *)
(* and in one transaction takes the next number and enters it.             *)
Approving(c, s, side) ==
  Handle(c, "approve", <<[do |-> "sign", s |-> s, side |-> side],
                         [do |-> "finalize", s |-> s]>>)
ApproveFee(c, s) == request[s] # NoRequest /\ ~request[s].fee /\ Approving(c, s, "fee")
ApproveLdm(c, s) == request[s] # NoRequest /\ ~request[s].ldm /\ Approving(c, s, "ldm")

StoreApproval(c) ==
  /\ Runs(c, "sign") /\ Done(c)
  /\ request' = [request EXCEPT ![It(c).s] = [@ EXCEPT ![It(c).side] = TRUE]]
  /\ UNCHANGED <<kept, folio, history, award>>

\* Mutant: one approval is enough.
FinalEither(r) == (r.fee \/ r.ldm) /\ r.no = 0

Final(r) == r.fee /\ r.ldm /\ r.no = 0

MaybeFinalize(c) ==
  /\ Runs(c, "finalize")
  /\ Goes(c, IF Final(request[It(c).s]) THEN <<[do |-> "nextNo", s |-> It(c).s]>>
             ELSE Rest(c))
  /\ UNCHANGED <<kept, certs>>

(* nextCertNo, here and for a certificate made by hand: one more than      *)
(* there are, whatever was deleted.                                        *)
NextCertNo(c) ==
  /\ Runs(c, "nextNo")
  /\ Goes(c, <<[do |-> "issue", s |-> It(c).s,
                no |-> Cardinality(DOMAIN history) + 1]>>)
  /\ UNCHANGED <<kept, certs>>

(* The number must be new to the history, and to the requests.             *)
Issue(c) ==
  LET it == It(c) IN
  LET new == it.no \notin DOMAIN history IN
  /\ Runs(c, "issue") /\ Done(c)
  /\ \/ /\ it.s = ByHand
        /\ history' = IF new THEN history @@ (it.no :> ByHand) ELSE history
        /\ UNCHANGED request
     \/ /\ it.s # ByHand
        /\ IF new /\ \A s \in Students \ {it.s} : request[s] # NoRequest => request[s].no # it.no
           THEN /\ history' = history @@ (it.no :> it.s)
                /\ request' = [request EXCEPT ![it.s].no = it.no]
           ELSE UNCHANGED <<history, request>>
  /\ UNCHANGED <<kept, folio, award>>

CreateCertificate(c) ==
  /\ Cardinality(DOMAIN history) < use.rows \* bound
  /\ Handle(c, "hand", <<[do |-> "nextNo", s |-> ByHand]>>)

RemoveCertificate(c, n) ==
  n \in DOMAIN history /\ Handle(c, "unhand", <<[do |-> "unissue", no |-> n]>>)

Unissue(c) ==
  /\ Runs(c, "unissue") /\ Done(c)
  /\ history' = [n \in DOMAIN history \ {It(c).no} |-> history[n]]
  /\ UNCHANGED <<kept, folio, request, award>>

-----------------------------------------------------------------------------
(* generateForBatch: of each student on the roster without one, a number   *)
(* is read and the certificate created; a number taken meanwhile, or a     *)
(* certificate, is an occasion to try the next number.                     *)
Awarded == {s \in Students : award[s] # 0}
Numbers == {award[s] : s \in Awarded}
Highest == CHOOSE n \in Numbers \cup {0} : \A m \in Numbers : m <= n

GenerateForBatch(c) ==
  LET left == roster \ Awarded IN
  /\ Highest + Cardinality(left) <= use.rows \* bound
  /\ Handle(c, "generate", IF left = {} THEN <<>> ELSE <<[do |-> "each", left |-> left]>>)

Each(c, s) ==
  LET left == It(c).left \ {s} IN
  /\ Runs(c, "each") /\ s \in It(c).left
  /\ Goes(c, <<[do |-> "number", s |-> s, try |-> 0]>>
             \o IF left = {} THEN <<>> ELSE <<[do |-> "each", left |-> left]>>)
  /\ UNCHANGED <<kept, certs>>

\* Mutant: one more than the certificates there are.
BatchNumberByCount(try) == Cardinality(Awarded) + 1

BatchNumber(try) == Highest + 1 + try

NextBatchNo(c) ==
  /\ Runs(c, "number")
  /\ Goes(c, <<[do |-> "award", s |-> It(c).s, try |-> It(c).try,
                no |-> BatchNumber(It(c).try)]>> \o Rest(c))
  /\ UNCHANGED <<kept, certs>>

AwardOne(c) ==
  LET it == It(c)
      free == it.no \notin Numbers /\ award[it.s] = 0
      again == IF it.try + 1 < Tries
               THEN <<[do |-> "number", s |-> it.s, try |-> it.try + 1]>> ELSE <<>>
  IN
  /\ Runs(c, "award")
  /\ IF free THEN Done(c) /\ award' = [award EXCEPT ![it.s] = it.no]
     ELSE Goes(c, again \o Rest(c)) /\ UNCHANGED award
  /\ UNCHANGED <<kept, folio, request, history>>

RemoveBatchCertificate(c, s) ==
  award[s] # 0 /\ Handle(c, "unaward", <<[do |-> "unaward", no |-> award[s]]>>)

Unaward(c) ==
  /\ Runs(c, "unaward") /\ Done(c)
  /\ award' = [s \in Students |-> IF award[s] = It(c).no THEN 0 ELSE award[s]]
  /\ UNCHANGED <<kept, folio, request, history>>

CertNext ==
  \E c \in Calls :
    \/ \E s \in use.students :
         \/ SubmitPortfolio(c, s) \/ ApprovePortfolio(c, s) \/ RejectPortfolio(c, s)
         \/ RemovePortfolio(c, s) \/ ApproveFee(c, s) \/ ApproveLdm(c, s)
         \/ Each(c, s) \/ RemoveBatchCertificate(c, s)
    \/ \E n \in DOMAIN history : RemoveCertificate(c, n)
    \/ CreateCertificate(c) \/ GenerateForBatch(c)
    \/ StorePortfolio(c) \/ StoreJudgement(c) \/ DropPortfolio(c)
    \/ EnsureInternshipCertRequest(c) \/ StoreApproval(c) \/ MaybeFinalize(c)
    \/ NextCertNo(c) \/ Issue(c) \/ Unissue(c) \/ NextBatchNo(c) \/ AwardOne(c)
    \/ Unaward(c)

-----------------------------------------------------------------------------
Downloadable(s) ==
  request[s] # NoRequest /\ request[s].fee /\ request[s].ldm /\ request[s].no # 0

(* A request that both have approved has its certificate.                  *)
ApprovedIsIssued ==
  AllIdle => \A s \in Students :
    request[s] # NoRequest /\ request[s].fee /\ request[s].ldm => Downloadable(s)

(* Between calls: a public page shows what was approved; a number stands   *)
(* for one student, with both approvals, in the requests and the history,  *)
(* as long as nothing of the history is removed; where one call runs at a  *)
(* time, every approved request has its number then.                       *)
CertsAgree ==
  /\ Serial /\ AllIdle =>
       /\ \A s \in Students :
            folio[s].st = "APPROVED" => folio[s].slug /\ folio[s].seen = folio[s].text
       /\ \A s \in Students : folio[s].st = "APPROVED" => request[s] # NoRequest
       /\ "unhand" \notin use.ops => ApprovedIsIssued
  /\ \A s \in Students :
       request[s] # NoRequest /\ request[s].no # 0 =>
         /\ request[s].fee /\ request[s].ldm
         /\ "unhand" \notin use.ops => history[request[s].no] = s

(* The number of a certificate stands once it is issued, where one call    *)
(* runs at a time; and a batch that was generated is filled, whatever was  *)
(* removed before.                                                         *)
IssuedStands ==
  Serial =>
    /\ \A s \in Students :
         request[s] # NoRequest /\ request[s].no # 0 => request'[s].no = request[s].no
    /\ \A c \in Calls :
         call[c].op = "generate" /\ call'[c] = Idle => \A s \in roster : award'[s] # 0
=============================================================================
