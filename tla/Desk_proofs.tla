----------------------------- MODULE Desk_proofs -----------------------------
(***************************************************************************)
(* Proofs about what the joining and the papers of module Staff agree on   *)
(* between calls: logins, employees, onboarding requests, documents and    *)
(* letters.  Each part of the invariant is kept by itself; what is left in *)
(* the lists of calls carries what the reads before it found.              *)
(***************************************************************************)
EXTENDS Joining_proofs

-----------------------------------------------------------------------------
(* Verification: a document that is to be replaced is not verified, and    *)
(* what is to be verified is what HR saw.                                  *)
SeenOf(t) ==
  \A i \in DOMAIN t :
    /\ t[i].do = "replace" => ~paper[t[i].p][t[i].d].verified
    /\ t[i].do = "verify" => t[i].seen = paper[t[i].p][t[i].d].file
SeenInv == Desk!NotDuring("verify") =>
  /\ \A p \in People : \A d \in Slots :
       paper[p][d].verified => paper[p][d].seen = paper[p][d].file
  /\ \A c \in Calls : SeenOf(doing[c].todo)

LEMMA SeenStep ==
  ASSUME DeskInv, CallsInv, SeenInv, [StaffNext]_staff
  PROVE  SeenInv'
<1>1. CASE UNCHANGED <<duty, office>>
  BY <1>1 DEF office, SeenInv, SeenOf, Desk!NotDuring, Desk!Serial
<1>2. CASE Crash
  <2>1. UNCHANGED <<duty, paper>> /\ \A c \in Calls : DOMAIN doing'[c].todo = {}
    BY <1>2 DEF Crash, Desk!Idle
  <2>2. QED
    BY <2>1 DEF SeenInv, SeenOf, Desk!NotDuring, Desk!Serial
<1>3. ASSUME NEW c \in Calls, UNCHANGED duty, Desk!NotDuring("verify"), OthersWait(c),
             /\ \A p \in People, d \in Slots :
                  paper'[p][d].verified => paper'[p][d].seen = paper'[p][d].file
             /\ \A k \in Calls : k # c => SeenOf(doing[k].todo)'
             /\ SeenOf(doing[c].todo)'
      PROVE  SeenInv'
  BY <1>3 DEF SeenInv
<1>4. ASSUME NEW c \in Calls, UNCHANGED <<duty, paper>>, Desk!NotDuring("verify"), OthersWait(c),
             SeenOf(doing'[c].todo)
      PROVE  SeenInv'
  <2>1. ASSUME NEW k \in Calls, k # c
        PROVE  SeenOf(doing[k].todo)'
    <3>1. SeenOf(doing[k].todo) /\ doing'[k] = doing[k]
      BY <1>4, <2>1 DEF SeenInv, OthersWait
    <3>2. QED
      BY <1>4, <3>1 DEF SeenOf
  <2>2. SeenOf(doing[c].todo)'
    BY <1>4 DEF SeenOf
  <2>3. \A p \in People, d \in Slots :
          paper'[p][d].verified => paper'[p][d].seen = paper'[p][d].file
    BY <1>4 DEF SeenInv
  <2>4. QED
    BY <1>3, <1>4, <2>1, <2>2, <2>3
<1>5. ASSUME NEW c \in Calls, UNCHANGED duty, Desk!NotDuring("verify"), Begins(c)
      PROVE  SeenInv'
  <2>1. PICK op : Fresh(op, doing'[c].todo) /\ OthersWait(c) /\ UNCHANGED paper
    BY <1>5, BeginRuns
  <2>2. PICK v : v = doing'[c].todo
    OBVIOUS
  <2>3. SeenOf(v)
    BY <2>1, <2>2 DEF Fresh, Found, SeenOf
  <2>4. QED
    BY <1>4, <1>5, <2>1, <2>2, <2>3
<1>6. ASSUME NEW c \in Calls, UNCHANGED duty, Desk!NotDuring("verify"), Looks(c)
      PROVE  SeenInv'
  <2>1. PICK s, v : /\ v = doing'[c].todo /\ (v = <<>> \/ Ahead(s, v))
                    /\ OthersWait(c) /\ UNCHANGED paper
    BY <1>6, LookRuns
  <2>2. \A i \in DOMAIN v : v[i].do \notin {"replace", "verify"}
    <3>1. ASSUME NEW i \in DOMAIN v
          PROVE  v[i].do \notin {"replace", "verify"}
      <4>1. v[i].do \in {"unlogin", "code", "enter", "row", "login", "employ", "file",
                         "letter", "mail"}
        BY <2>1, <3>1, AheadKinds
      <4>2. QED
        BY <4>1
    <3>2. QED
      BY <3>1
  <2>3. SeenOf(v)
    BY <2>2 DEF SeenOf
  <2>4. QED
    BY <1>4, <1>6, <2>1, <2>3
<1>7. ASSUME NEW c \in Calls, UNCHANGED duty, Desk!NotDuring("verify"), Joins(c)
      PROVE  SeenInv'
  <2>1. UNCHANGED paper
    BY <1>7 DEF Joins
  <2>2. CASE Desk!EnterEmployee(c)
    <3>1. PICK v : /\ v = doing'[c].todo /\ OthersWait(c)
                   /\ v = <<>> \/ (DOMAIN v = {1} /\ v[1].do = "link")
      BY <2>2, EnterRuns
    <3>2. SeenOf(v)
      BY <3>1 DEF SeenOf
    <3>3. QED
      BY <1>4, <1>7, <2>1, <3>1, <3>2
  <2>3. CASE JoiningRuns(c)
    <3>1. PICK t, r, s : /\ Now(c, t, r, s) /\ OthersWait(c)
                         /\ doing'[c].todo = r \/ doing'[c].todo = <<>>
      BY <2>3, StatementRuns
    <3>2. SeenOf(t)
      BY <1>7, <3>1 DEF SeenInv, Now
    <3>3. SeenOf(r) /\ SeenOf(<<>>)
      BY <3>1, <3>2 DEF SeenOf, Now
    <3>4. QED
      BY <1>4, <1>7, <2>1, <3>1, <3>3
  <2>4. QED
    BY <1>7, <2>2, <2>3 DEF Joins
<1>8. ASSUME NEW c \in Calls, UNCHANGED duty, Desk!NotDuring("verify"), Handles(c)
      PROVE  SeenInv'
  <2>1. PICK t, r, s : /\ Now(c, t, r, s) /\ OthersWait(c) /\ doing'[c].todo \in {r, <<>>}
                       /\ PaperWrote(c, s) \/ LetterWrote(c, s)
    BY <1>8, HandleRuns
  <2>2. SeenOf(t) /\ SeenOf(r) /\ SeenOf(<<>>)
    <3>1. SeenOf(t)
      BY <1>8, <2>1 DEF SeenInv, Now
    <3>2. QED
      BY <2>1, <3>1 DEF SeenOf, Now
  <2>3. CASE UNCHANGED paper
    BY <1>4, <1>8, <2>1, <2>2, <2>3
  <2>4. PICK op : op = doing[c].op
    OBVIOUS
  <2>5. Belongs(op, s) /\ \A i \in DOMAIN r : Belongs(op, r[i])
    BY <2>1, <2>4 DEF CallsInv, Now
  <2>6. s.do = "verify" => \A k \in Calls : k # c => DOMAIN doing[k].todo = {}
    <3>1. s.do = "verify" => op = "verify"
      BY <2>5 DEF Belongs
    <3>2. QED
      BY <1>8, <2>1, <2>4, <3>1, RunsAlone DEF Now
  <2>7. s.do # "verify" => \A k \in Calls : \A i \in DOMAIN doing[k].todo :
                              k # c => doing[k].todo[i].do # "verify"
    <3>1. ASSUME NEW k \in Calls, NEW i \in DOMAIN doing[k].todo, doing[k].todo[i].do = "verify",
                 k # c
          PROVE  FALSE
      <4>1. Busy(k) /\ Belongs(doing[k].op, doing[k].todo[i])
        <5>1. Busy(k)
          BY <3>1 DEF Busy, Desk!Idle
        <5>2. QED
          BY <5>1 DEF CallsInv
      <4>2. doing[k].op = "verify"
        BY <3>1, <4>1 DEF Belongs
      <4>3. QED
        BY <1>8, <2>1, <3>1, <4>1, <4>2 DEF CallsInv, Now
    <3>2. QED
      BY <3>1
  <2>8. ASSUME s.do \in OnPaper \cup {"attach"}, NEW p \in People, NEW d \in Slots,
               OnlyRow(p, d), p = s.p,
               s.do # "attach" => d = s.d,
               paper'[p][d].verified => paper'[p][d].seen = paper'[p][d].file,
               paper'[p][d].verified => paper[p][d].verified \/ s.do = "verify"
        PROVE  SeenInv'
    <3>2. \A q \in People, e \in Slots :
            paper'[q][e].verified => paper'[q][e].seen = paper'[q][e].file
      BY <1>8, <2>8 DEF SeenInv, OnlyRow
    <3>3. \A q \in People, e \in Slots :
            paper'[q][e].verified => paper[q][e].verified \/ s.do = "verify"
      BY <2>8 DEF OnlyRow
    <3>4. ASSUME NEW k \in Calls, k # c
          PROVE  SeenOf(doing[k].todo)'
      <4>1. doing'[k] = doing[k] /\ doing[k].todo \in Seq(Statement)
        BY <2>1, <3>4 DEF OthersWait, DeskInv, DeskTyped, Call
      <4>2. PICK u : u = doing[k].todo
        OBVIOUS
      <4>3. \A i \in DOMAIN u : u[i] \in Statement
        BY <4>1, <4>2
      <4>4. SeenOf(u)
        BY <1>8, <4>2 DEF SeenInv
      <4>5. ASSUME NEW i \in DOMAIN u, u[i].do = "replace"
            PROVE  ~paper'[u[i].p][u[i].d].verified
        <5>1. u[i].p \in People /\ u[i].d \in Slots
          BY <4>3, <4>5, PapersParts
        <5>2. ~paper[u[i].p][u[i].d].verified
          BY <4>4, <4>5 DEF SeenOf
        <5>3. s.do # "verify"
          BY <2>6, <3>4, <4>2, <4>5
        <5>4. QED
          BY <3>3, <5>1, <5>2, <5>3
      <4>6. \A i \in DOMAIN u : u[i].do # "verify"
        BY <2>6, <2>7, <3>4, <4>2
      <4>7. QED
        BY <4>1, <4>2, <4>5, <4>6 DEF SeenOf
    <3>5. SeenOf(doing[c].todo)'
      <4>1. PICK u \in {r, <<>>} : u = doing'[c].todo
        BY <2>1
      <4>2. SeenOf(u) /\ \A i \in DOMAIN u : u[i] \in Statement /\ Belongs(op, u[i])
        BY <2>1, <2>2, <2>5 DEF Now
      <4>3. ASSUME NEW i \in DOMAIN u, u[i].do = "replace"
            PROVE  ~paper'[u[i].p][u[i].d].verified
        <5>1. u[i].p \in People /\ u[i].d \in Slots
          BY <4>2, <4>3, PapersParts
        <5>2. ~paper[u[i].p][u[i].d].verified
          BY <4>2, <4>3 DEF SeenOf
        <5>3. s.do # "verify"
          BY <2>5, <4>2, <4>3 DEF Belongs
        <5>4. QED
          BY <3>3, <5>1, <5>2, <5>3
      <4>4. ASSUME NEW i \in DOMAIN u, u[i].do = "verify"
            PROVE  u[i].seen = paper'[u[i].p][u[i].d].file
        <5>1. op = "verify"
          BY <4>2, <4>4 DEF Belongs
        <5>2. s.do = "verify"
          BY <2>5, <2>8, <5>1 DEF Belongs, OnPaper
        <5>3. u[i].p \in People /\ u[i].d \in Slots
          BY <4>2, <4>4, PapersParts
        <5>4. \A q \in People, e \in Slots : paper'[q][e].file = paper[q][e].file
          BY <2>1, <5>2, <2>3 DEF PaperWrote, LetterWrote, RowWritten, OnlyRow
        <5>5. QED
          BY <4>2, <4>4, <5>3, <5>4 DEF SeenOf
      <4>5. QED
        BY <4>1, <4>3, <4>4 DEF SeenOf
    <3>6. QED
      BY <1>3, <1>8, <2>1, <3>2, <3>4, <3>5
  <2>9. CASE s.do \in OnPaper /\ s.p \in People /\ s.d \in Slots /\ OnlyRow(s.p, s.d)
             /\ RowWritten(s, paper[s.p][s.d], paper'[s.p][s.d])
    <3>1. s.do = "replace" => ~paper[s.p][s.d].verified
      BY <2>1, <2>2 DEF SeenOf, Now
    <3>2. s.do = "verify" => s.seen = paper[s.p][s.d].file
      BY <2>1, <2>2 DEF SeenOf, Now
    <3>3. paper[s.p][s.d].verified => paper[s.p][s.d].seen = paper[s.p][s.d].file
      BY <1>8, <2>9 DEF SeenInv
    <3>4. PICK was, doc : was = paper[s.p][s.d] /\ doc = paper'[s.p][s.d]
      OBVIOUS
    <3>5. /\ doc.verified => doc.seen = doc.file
          /\ doc.verified => was.verified \/ s.do = "verify"
      BY <2>9, <3>1, <3>2, <3>3, <3>4 DEF RowWritten, OnPaper
    <3>6. QED
      BY <2>8, <2>9, <3>4, <3>5
  <2>10. CASE /\ s.do = "attach" /\ s.p \in People
              /\ \E d \in Slots : OnlyRow(s.p, d) /\ ~paper'[s.p][d].verified
    BY <2>8, <2>10
  <2>11. QED
    BY <2>1, <2>3, <2>9, <2>10 DEF PaperWrote, LetterWrote
<1>9. QED
  <2>1. CASE duty' = duty /\ ~Desk!NotDuring("verify")
    BY <2>1 DEF SeenInv, Desk!NotDuring, Desk!Serial
  <2>2. QED
    BY <1>1, <1>2, <1>5, <1>6, <1>7, <1>8, <2>1, DeskMoves

-----------------------------------------------------------------------------
(* The letter: what is to be mailed is its text, and it is marked sent     *)
(* after a mail.                                                           *)
Mailed(p) == letter[p].mails > 0 /\ letter[p].mailed = letter[p].text
MailOf(t) ==
  \A i \in DOMAIN t :
    /\ t[i].do \in {"letter", "text", "pdf", "mail"} => letter[t[i].p].st # "none"
    /\ t[i].do = "mail" => t[i].text = letter[t[i].p].text
    /\ t[i].do = "letter" /\ t[i].st = "SENT" =>
         Mailed(t[i].p) \/ (i > 1 /\ t[i - 1].do = "mail" /\ t[i - 1].p = t[i].p)
MailInv == Desk!NotDuring("redraft") =>
  /\ \A p \in People : letter[p].st = "SENT" => Mailed(p)
  /\ \A c \in Calls : MailOf(doing[c].todo)

LEMMA MailRest ==
  ASSUME NEW c, NEW t, NEW r, NEW s, Now(c, t, r, s), MailOf(t)
  PROVE  /\ s.do # "mail" => MailOf(r)
         /\ \A i \in DOMAIN r :
              /\ r[i].do \in {"letter", "text", "pdf", "mail"} => letter[r[i].p].st # "none"
              /\ r[i].do = "mail" => r[i].text = letter[r[i].p].text
              /\ r[i].do = "letter" /\ r[i].st = "SENT" =>
                   \/ Mailed(r[i].p)
                   \/ i > 1 /\ r[i - 1].do = "mail" /\ r[i - 1].p = r[i].p
                   \/ s.do = "mail" /\ s.p = r[i].p
<1>1. ASSUME NEW i \in DOMAIN r
      PROVE  /\ r[i].do \in {"letter", "text", "pdf", "mail"} => letter[r[i].p].st # "none"
             /\ r[i].do = "mail" => r[i].text = letter[r[i].p].text
             /\ r[i].do = "letter" /\ r[i].st = "SENT" =>
                  \/ Mailed(r[i].p)
                  \/ i > 1 /\ r[i - 1].do = "mail" /\ r[i - 1].p = r[i].p
                  \/ s.do = "mail" /\ s.p = r[i].p
  <2>1. i \in Nat /\ i >= 1 /\ i + 1 \in DOMAIN t /\ r[i] = t[i + 1] /\ i + 1 - 1 = i
        /\ t[1] = s /\ (i > 1 => r[i - 1] = t[i])
    BY <1>1 DEF Now
  <2>2. PICK j \in DOMAIN t : j = i + 1 /\ j - 1 = i /\ t[j] = r[i]
    BY <2>1
  <2>3. QED
    BY <2>1, <2>2 DEF MailOf
<1>2. s.do # "mail" => MailOf(r)
  BY <1>1 DEF MailOf
<1>3. QED
  BY <1>1, <1>2

LEMMA MailStep ==
  ASSUME DeskInv, CallsInv, MailInv, [StaffNext]_staff
  PROVE  MailInv'
<1>1. CASE UNCHANGED <<duty, office>>
  BY <1>1 DEF office, MailInv, MailOf, Mailed, Desk!NotDuring, Desk!Serial
<1>2. CASE Crash
  <2>1. UNCHANGED <<duty, letter>> /\ \A c \in Calls : DOMAIN doing'[c].todo = {}
    BY <1>2 DEF Crash, Desk!Idle
  <2>2. QED
    BY <2>1 DEF MailInv, MailOf, Mailed, Desk!NotDuring, Desk!Serial
<1>3. ASSUME NEW c \in Calls, UNCHANGED <<duty, letter>>, Desk!NotDuring("redraft"),
             OthersWait(c), MailOf(doing'[c].todo)
      PROVE  MailInv'
  <2>1. ASSUME NEW k \in Calls, k # c
        PROVE  MailOf(doing[k].todo)'
    <3>1. MailOf(doing[k].todo) /\ doing'[k] = doing[k]
      BY <1>3, <2>1 DEF MailInv, OthersWait
    <3>2. QED
      BY <1>3, <3>1 DEF MailOf, Mailed
  <2>2. MailOf(doing[c].todo)'
    BY <1>3 DEF MailOf, Mailed
  <2>3. \A p \in People : letter'[p].st = "SENT" => Mailed(p)'
    BY <1>3 DEF MailInv, Mailed
  <2>4. QED
    BY <2>1, <2>2, <2>3 DEF MailInv
<1>4. ASSUME NEW c \in Calls, UNCHANGED duty, Desk!NotDuring("redraft"), Begins(c)
      PROVE  MailInv'
  <2>1. PICK op : Fresh(op, doing'[c].todo) /\ OthersWait(c) /\ UNCHANGED letter
    BY <1>4, BeginRuns
  <2>2. PICK v : v = doing'[c].todo
    OBVIOUS
  <2>3. MailOf(v)
    <3>1. \A i \in DOMAIN v : Found(op, v[i])
      BY <2>1, <2>2 DEF Fresh
    <3>2. QED
      BY <3>1 DEF Found, MailOf
  <2>4. QED
    BY <1>3, <1>4, <2>1, <2>2, <2>3
<1>5. ASSUME NEW c \in Calls, UNCHANGED duty, Desk!NotDuring("redraft"), Looks(c)
      PROVE  MailInv'
  <2>1. PICK t, r, s : /\ Now(c, t, r, s) /\ OthersWait(c) /\ UNCHANGED letter
                       /\ doing'[c].todo = <<>> \/ Ahead(s, doing'[c].todo)
    BY <1>5, LookRuns
  <2>2. PICK v : v = doing'[c].todo
    OBVIOUS
  <2>3. v = <<>> \/ Ahead(s, v)
    BY <2>1, <2>2
  <2>4. MailOf(v)
    <3>1. CASE s.do = "pdf" /\ v # <<>>
      <4>1. /\ DOMAIN v = {1, 2, 3} /\ v[1].do = "letter" /\ v[1].st = "APPROVED" /\ v[1].p = s.p
            /\ v[2].do = "mail" /\ v[2].p = s.p /\ v[2].text = letter[s.p].text
            /\ v[3].do = "letter" /\ v[3].st = "SENT" /\ v[3].p = s.p
        BY <2>3, <3>1 DEF Ahead
      <4>2. letter[s.p].st # "none"
        BY <1>5, <2>1, <3>1 DEF MailInv, MailOf, Now
      <4>3. 3 - 1 = 2 /\ 3 > 1
        OBVIOUS
      <4>4. QED
        BY <4>1, <4>2, <4>3 DEF MailOf
    <3>2. CASE s.do # "pdf" \/ v = <<>>
      <4>1. ASSUME NEW i \in DOMAIN v
            PROVE  v[i].do \notin {"letter", "text", "pdf", "mail"}
        <5>1. /\ v[i].do \in {"unlogin", "code", "enter", "row", "login", "employ", "file",
                              "letter", "mail"}
              /\ v[i].do \in {"letter", "mail"} => s.do = "pdf"
          BY <2>3, <4>1, AheadKinds
        <5>2. QED
          BY <3>2, <4>1, <5>1
      <4>2. QED
        BY <4>1 DEF MailOf
    <3>3. QED
      BY <3>1, <3>2
  <2>5. QED
    BY <1>3, <1>5, <2>1, <2>2, <2>4
<1>6. ASSUME NEW c \in Calls, UNCHANGED duty, Desk!NotDuring("redraft"), Joins(c)
      PROVE  MailInv'
  <2>1. UNCHANGED letter
    BY <1>6 DEF Joins
  <2>2. CASE Desk!EnterEmployee(c)
    <3>1. PICK v : /\ v = doing'[c].todo /\ OthersWait(c)
                   /\ v = <<>> \/ (DOMAIN v = {1} /\ v[1].do = "link")
      BY <2>2, EnterRuns
    <3>2. MailOf(v)
      BY <3>1 DEF MailOf
    <3>3. QED
      BY <1>3, <1>6, <2>1, <3>1, <3>2
  <2>3. CASE JoiningRuns(c)
    <3>1. PICK t, r, s : /\ Now(c, t, r, s) /\ OthersWait(c)
                         /\ doing'[c].todo = r \/ doing'[c].todo = <<>>
      BY <2>3, StatementRuns
    <3>2. MailOf(t)
      BY <1>6, <3>1 DEF MailInv, Now
    <3>3. s.do # "mail"
      <4>1. PICK do : Desk!Runs(c, do) /\ do # "mail"
        BY <2>3 DEF JoiningRuns, Desk!FileRequest, Desk!Readdress, Desk!Unfile, Desk!Mark,
           Desk!DeleteLogin, Desk!LinkEmployee, Desk!FillProfile, Desk!CreateLogin,
           Desk!EmployRow, Desk!WriteEmployeeStatus, Desk!Recode
      <4>2. QED
        BY <3>1, <4>1, Running DEF Now, DeskInv
    <3>4. MailOf(r) /\ MailOf(<<>>)
      <4>1. MailOf(r)
        BY <3>1, <3>2, <3>3, MailRest
      <4>2. QED
        BY <4>1 DEF MailOf
    <3>5. QED
      BY <1>3, <1>6, <2>1, <3>1, <3>4
  <2>4. QED
    BY <1>6, <2>2, <2>3 DEF Joins
<1>7. ASSUME NEW c \in Calls, UNCHANGED duty, Desk!NotDuring("redraft"), Handles(c)
      PROVE  MailInv'
  <2>1. PICK t, r, s : /\ Now(c, t, r, s) /\ OthersWait(c) /\ doing'[c].todo \in {r, <<>>}
                       /\ Desk!Fails(c) => doing'[c].todo = <<>>
                       /\ PaperWrote(c, s) \/ (LetterWrote(c, s) /\ s.do \in OnLetters)
    BY <1>7, HandleRuns
  <2>2. MailOf(t) /\ MailOf(<<>>)
    <3>1. MailOf(t)
      BY <1>7, <2>1 DEF MailInv, Now
    <3>2. QED
      BY <3>1 DEF MailOf
  <2>3. CASE PaperWrote(c, s)
    <3>1. UNCHANGED letter /\ s.do # "mail"
      BY <2>3 DEF PaperWrote, OnPaper
    <3>2. MailOf(r)
      BY <2>1, <2>2, <3>1, MailRest
    <3>3. QED
      BY <1>3, <1>7, <2>1, <2>2, <3>1, <3>2
  <2>4. CASE UNCHANGED letter /\ Desk!Fails(c)
    BY <1>3, <1>7, <2>1, <2>2, <2>4
  <2>5. CASE /\ s.do \in OnLetters /\ s.p \in People
             /\ OnlyLetter(s.p) /\ NewLetter(s, letter[s.p], letter'[s.p])
    <3>1. PICK p \in People : p = s.p
      BY <2>5
    <3>2. PICK was, new : was = letter[p] /\ new = letter'[p]
      OBVIOUS
    <3>3. PICK op : op = doing[c].op
      OBVIOUS
    <3>4. Belongs(op, s) /\ \A i \in DOMAIN r : Belongs(op, r[i])
      BY <2>1, <3>3 DEF CallsInv, Now
    <3>5. s.do = "text" => \A k \in Calls : k # c => DOMAIN doing[k].todo = {}
      <4>1. s.do = "text" => op = "redraft"
        BY <3>4 DEF Belongs
      <4>2. QED
        BY <1>7, <2>1, <3>3, <4>1, RunsAlone DEF Now
    <3>6. /\ s.do \in {"letter", "text", "mail"} => was.st # "none"
          /\ s.do = "mail" => s.text = was.text
          /\ s.do = "letter" /\ s.st = "SENT" => was.mails > 0 /\ was.mailed = was.text
      <4>1. 1 \in DOMAIN t /\ t[1] = s
        BY <2>1 DEF Now
      <4>2. QED
        BY <2>2, <3>1, <3>2, <4>1 DEF MailOf, Mailed
    <3>7. s.do = "letter" => s.st # "none"
      <4>1. s \in Statement
        BY <2>1 DEF Now
      <4>2. QED
        BY <4>1, PapersParts DEF Desk!AppointmentLetterStatus
    <3>8. /\ new.st # "none"
          /\ s.do # "text" /\ was.st # "none" =>
               /\ new.text = was.text
               /\ was.mails > 0 /\ was.mailed = was.text => new.mails > 0 /\ new.mailed = new.text
          /\ s.do = "mail" => new.mails > 0 /\ new.mailed = new.text
          /\ new.st = "SENT" /\ was.st # "SENT" => new.mails > 0 /\ new.mailed = new.text
          /\ was.st = "SENT" /\ new.st = "SENT" /\ was.mails > 0 /\ was.mailed = was.text =>
               new.mails > 0 /\ new.mailed = new.text
      <4>1. CASE s.do = "draft"
        BY <2>5, <3>1, <3>2, <3>6, <4>1 DEF NewLetter
      <4>2. CASE s.do = "text"
        BY <2>5, <3>1, <3>2, <3>6, <4>2 DEF NewLetter
      <4>3. CASE s.do = "letter"
        BY <2>5, <3>1, <3>2, <3>6, <3>7, <4>3 DEF NewLetter
      <4>4. CASE s.do = "mail"
        BY <2>5, <3>1, <3>2, <3>6, <4>4 DEF NewLetter
      <4>5. QED
        BY <2>5, <4>1, <4>2, <4>3, <4>4 DEF OnLetters
    <3>9. ASSUME NEW q \in People
          PROVE  /\ letter[q].st # "none" => letter'[q].st # "none"
                 /\ letter[q].st # "none" /\ s.do # "text" =>
                      letter'[q].text = letter[q].text /\ (Mailed(q) => Mailed(q)')
                 /\ letter'[q].st = "SENT" => Mailed(q)'
      <4>1. letter[q].st = "SENT" => Mailed(q)
        BY <1>7 DEF MailInv
      <4>2. CASE q # p
        BY <2>5, <3>1, <4>1, <4>2 DEF OnlyLetter, Mailed
      <4>3. CASE q = p
        BY <3>2, <3>8, <4>1, <4>3 DEF Mailed
      <4>4. QED
        BY <4>2, <4>3
    <3>10. ASSUME NEW k \in Calls, k # c
           PROVE  MailOf(doing[k].todo)'
      <4>1. doing'[k] = doing[k] /\ doing[k].todo \in Seq(Statement)
        BY <2>1, <3>10 DEF OthersWait, DeskInv, DeskTyped, Call
      <4>2. PICK u : u = doing[k].todo
        OBVIOUS
      <4>3. \A i \in DOMAIN u : u[i] \in Statement
        BY <4>1, <4>2
      <4>4. MailOf(u)
        BY <1>7, <4>2 DEF MailInv
      <4>5. MailOf(u)'
        BY <3>5, <3>9, <3>10, <4>2, <4>3, <4>4, PapersParts DEF MailOf
      <4>6. QED
        BY <4>1, <4>2, <4>5 DEF MailOf
    <3>11. MailOf(doing[c].todo)'
      <4>1. PICK u : u = doing'[c].todo
        OBVIOUS
      <4>2. CASE u = <<>>
        BY <4>1, <4>2 DEF MailOf
      <4>3. CASE u = r /\ s.do = "text"
        <5>1. op = "redraft"
          BY <3>4, <4>3 DEF Belongs
        <5>2. \A i \in DOMAIN r : r[i].do \notin {"letter", "mail", "pdf"}
          BY <3>4, <5>1 DEF Belongs
        <5>3. \A i \in DOMAIN r : r[i].do = "text" => letter'[r[i].p].st # "none"
          <6>1. ASSUME NEW i \in DOMAIN r, r[i].do = "text"
                PROVE  letter'[r[i].p].st # "none"
            <7>1. r[i] \in Statement /\ letter[r[i].p].st # "none"
              BY <2>1, <2>2, <6>1, MailRest DEF Now
            <7>2. QED
              BY <3>9, <6>1, <7>1, PapersParts
          <6>2. QED
            BY <6>1
        <5>4. QED
          BY <4>1, <4>3, <5>2, <5>3 DEF MailOf
      <4>4. CASE u = r /\ s.do # "text"
        <5>1. ASSUME NEW i \in DOMAIN r
              PROVE  /\ r[i].do \in {"letter", "text", "pdf", "mail"} => letter'[r[i].p].st # "none"
                     /\ r[i].do = "mail" => r[i].text = letter'[r[i].p].text
                     /\ r[i].do = "letter" /\ r[i].st = "SENT" =>
                          \/ Mailed(r[i].p)'
                          \/ i > 1 /\ r[i - 1].do = "mail" /\ r[i - 1].p = r[i].p
          <6>1. r[i] \in Statement
            BY <2>1, <5>1 DEF Now
          <6>2. /\ r[i].do \in {"letter", "text", "pdf", "mail"} => letter[r[i].p].st # "none"
                /\ r[i].do = "mail" => r[i].text = letter[r[i].p].text
                /\ r[i].do = "letter" /\ r[i].st = "SENT" =>
                     \/ Mailed(r[i].p)
                     \/ i > 1 /\ r[i - 1].do = "mail" /\ r[i - 1].p = r[i].p
                     \/ s.do = "mail" /\ s.p = r[i].p
            BY <2>1, <2>2, <5>1, MailRest
          <6>3. s.do = "mail" => Mailed(p)'
            BY <3>2, <3>8 DEF Mailed
          <6>4. r[i].do \in {"letter", "text", "pdf", "mail"} => r[i].p \in People
            BY <6>1, PapersParts
          <6>5. QED
            BY <3>1, <3>9, <4>4, <6>2, <6>3, <6>4
        <5>2. QED
          BY <4>1, <4>4, <5>1 DEF MailOf
      <4>5. QED
        BY <2>1, <4>1, <4>2, <4>3, <4>4
    <3>12. QED
      BY <3>9, <3>10, <3>11 DEF MailInv
  <2>6. QED
    BY <2>1, <2>3, <2>4, <2>5 DEF LetterWrote
<1>8. QED
  <2>1. CASE duty' = duty /\ ~Desk!NotDuring("redraft")
    BY <2>1 DEF MailInv, Desk!NotDuring, Desk!Serial
  <2>2. QED
    BY <1>1, <1>2, <1>4, <1>5, <1>6, <1>7, <2>1, DeskMoves

-----------------------------------------------------------------------------
(* One call at a time: what a statement writes to still is as it was found. *)
KeptOf(t) ==
  \A i \in DOMAIN t : LET s == t[i] IN
    /\ s.do = "attach" => i = 1 /\ Desk!There(s.p) = {}
    /\ s.do = "unstore" =>
         /\ i + 1 \in DOMAIN t /\ t[i + 1].do \in {"replace", "drop"}
         /\ t[i + 1].p = s.p /\ t[i + 1].d = s.d
    /\ s.do = "mark" /\ s.st = "AWAITING_APPROVAL" /\ onb[s.f].link # Nobody =>
         Desk!There(onb[s.f].link) # {}
    /\ s.do \in {"text", "pdf"} => letter[s.p].mails = 0
    /\ s.do = "pdf" => i = 1
    /\ s.do = "letter" /\ s.st \notin {"APPROVED", "SENT", "removed"} => letter[s.p].mails = 0
    /\ s.do = "mail" =>
         /\ letter[s.p].mails = 0
         /\ \/ i = 1 /\ letter[s.p].st \in {"APPROVED", "removed"}
            \/ i = 2 /\ t[1].do = "letter" /\ t[1].st = "APPROVED" /\ t[1].p = s.p

(* Its file is in the store, or the next statement puts it there.          *)
Stored(p, d) ==
  paper[p][d].file # 0 /\ ~crashed =>
    \/ paper[p][d].stored
    \/ \E c \in Calls : /\ doing[c].todo # <<>> /\ doing[c].todo[1].do \in {"replace", "drop"}
                        /\ doing[c].todo[1].p = p /\ doing[c].todo[1].d = d
OneDocument == \A p \in People : \A d, e \in Desk!There(p) : d = e
AllStored == \A p \in People : \A d \in Desk!There(p) : Stored(p, d)
HandedIn == Desk!Unused({"deletePaper"}) =>
  \A f \in Files : Desk!Live(f) /\ onb[f].link # Nobody /\ onb[f].st = "AWAITING_APPROVAL" =>
    Desk!There(onb[f].link) # {}
OneMail == \A p \in People :
  /\ letter[p].mails \in {0, 1}
  /\ letter[p].mails = 1 => letter[p].st \in {"APPROVED", "SENT", "removed"}
KeptInv == Desk!Serial =>
  /\ OneDocument /\ AllStored /\ HandedIn /\ OneMail
  /\ \A c \in Calls : KeptOf(doing[c].todo)

(* Where one call runs at a time the others have nothing to do.            *)
LEMMA SoleCall ==
  ASSUME DeskInv, Desk!Serial, NEW c \in Calls, Busy(c) \/ c \in duty.calls,
         NEW k \in Calls, k # c
  PROVE  doing[k] = Desk!Idle /\ doing[k].todo = <<>> /\ DOMAIN doing[k].todo = {}
<1>1. PICK x \in Calls : duty.calls = {x}
  BY DeskAlone DEF DeskInv, DeskTyped
<1>2. \A d \in Calls : doing[d] # Desk!Idle => d \in duty.calls
  BY DEF DeskInv, DeskTyped
<1>3. c = x /\ doing[k] = Desk!Idle
  BY <1>1, <1>2 DEF Busy
<1>4. Desk!Idle.todo = <<>> /\ DOMAIN <<>> = {}
  BY DEF Desk!Idle
<1>5. QED
  BY <1>3, <1>4

LEMMA KeptNext ==
  ASSUME DeskInv, Desk!Serial, UNCHANGED duty, NEW c \in Calls, Busy(c) \/ c \in duty.calls,
         OthersWait(c),
         OneDocument', AllStored', HandedIn', OneMail', KeptOf(doing[c].todo)'
  PROVE  KeptInv'
<1>1. ASSUME NEW k \in Calls, k # c
      PROVE  KeptOf(doing[k].todo)'
  <2>1. DOMAIN doing'[k].todo = {}
    BY <1>1, SoleCall DEF OthersWait
  <2>2. QED
    BY <2>1 DEF KeptOf
<1>2. QED
  BY <1>1 DEF KeptInv

(* Where the tables of the papers stay, all but the files in the store do. *)
LEMMA TablesKept ==
  ASSUME KeptInv, Desk!Serial, UNCHANGED <<duty, paper, onb, letter>>
  PROVE  OneDocument' /\ HandedIn' /\ OneMail'
<1>1. OneDocument'
  BY DEF KeptInv, OneDocument, Desk!There
<1>2. HandedIn'
  BY DEF KeptInv, HandedIn, Desk!There, Desk!Live, Desk!Unused
<1>3. OneMail'
  BY DEF KeptInv, OneMail
<1>4. QED
  BY <1>1, <1>2, <1>3

(* No call is about to put a file in the store: all of them are there.     *)
LEMMA StoredNow ==
  ASSUME DeskInv, KeptInv, Desk!Serial, NEW c \in Calls, Busy(c) \/ c \in duty.calls,
         1 \in DOMAIN doing[c].todo => doing[c].todo[1].do \notin {"replace", "drop"},
         NEW p \in People, NEW d \in Desk!There(p), paper[p][d].file # 0, ~crashed
  PROVE  paper[p][d].stored
<1>1. Stored(p, d)
  BY DEF KeptInv, AllStored
<1>2. ASSUME NEW k \in Calls, doing[k].todo # <<>>, doing[k].todo[1].do \in {"replace", "drop"}
      PROVE  FALSE
  <2>1. k = c
    BY <1>2, SoleCall
  <2>2. doing[c].todo \in Seq(Statement)
    BY DEF DeskInv, DeskTyped, Call
  <2>3. QED
    BY <1>2, <2>1, <2>2, Sequences
<1>3. QED
  BY <1>1, <1>2 DEF Stored

LEMMA StoredSame ==
  ASSUME DeskInv, KeptInv, Desk!Serial, NEW c \in Calls, Busy(c) \/ c \in duty.calls,
         1 \in DOMAIN doing[c].todo => doing[c].todo[1].do \notin {"replace", "drop"},
         UNCHANGED <<paper, crashed>>
  PROVE  AllStored'
BY StoredNow DEF AllStored, Stored, Desk!There

(* What is left of the list when the tables are as they were.              *)
LEMMA KeptSame ==
  ASSUME NEW v, KeptOf(v), UNCHANGED <<paper, letter>>,
         \A i \in DOMAIN v : v[i].do = "mark" /\ v[i].st = "AWAITING_APPROVAL" =>
           onb'[v[i].f].link = onb[v[i].f].link
  PROVE  KeptOf(v)'
BY DEF KeptOf, Desk!There

LEMMA KeptRest ==
  ASSUME NEW c, NEW t, NEW r, NEW s, Now(c, t, r, s), KeptOf(t)
  PROVE  /\ \A i \in DOMAIN r : r[i].do \notin {"attach", "pdf"}
         /\ \A i \in DOMAIN r : r[i].do = "mail" =>
              /\ i = 1 /\ s.do = "letter" /\ s.st = "APPROVED" /\ s.p = r[i].p
              /\ letter[s.p].mails = 0
         /\ \A i \in DOMAIN r : r[i].do = "unstore" =>
              /\ i + 1 \in DOMAIN r /\ r[i + 1].do \in {"replace", "drop"}
              /\ r[i + 1].p = r[i].p /\ r[i + 1].d = r[i].d
         /\ \A i \in DOMAIN r : r[i].do = "text" => letter[r[i].p].mails = 0
         /\ \A i \in DOMAIN r :
              r[i].do = "letter" /\ r[i].st \notin {"APPROVED", "SENT", "removed"} =>
                letter[r[i].p].mails = 0
         /\ s.do # "letter" => KeptOf(r)
<1>1. ASSUME NEW i \in DOMAIN r
      PROVE  /\ r[i].do \notin {"attach", "pdf"}
             /\ r[i].do = "mail" =>
                  /\ i = 1 /\ s.do = "letter" /\ s.st = "APPROVED" /\ s.p = r[i].p
                  /\ letter[s.p].mails = 0
             /\ r[i].do = "unstore" =>
                  /\ i + 1 \in DOMAIN r /\ r[i + 1].do \in {"replace", "drop"}
                  /\ r[i + 1].p = r[i].p /\ r[i + 1].d = r[i].d
             /\ r[i].do = "text" => letter[r[i].p].mails = 0
             /\ r[i].do = "letter" /\ r[i].st \notin {"APPROVED", "SENT", "removed"} =>
                  letter[r[i].p].mails = 0
             /\ r[i].do = "mark" /\ r[i].st = "AWAITING_APPROVAL" /\ onb[r[i].f].link # Nobody =>
                  Desk!There(onb[r[i].f].link) # {}
  <2>1. i \in Nat /\ i >= 1 /\ i + 1 \in DOMAIN t /\ r[i] = t[i + 1] /\ t[1] = s
    BY <1>1 DEF Now
  <2>2. PICK j \in DOMAIN t : j = i + 1 /\ t[j] = r[i] /\ j # 1
    BY <2>1
  <2>3. /\ r[i].do \notin {"attach", "pdf"}
        /\ r[i].do = "text" => letter[r[i].p].mails = 0
        /\ r[i].do = "letter" /\ r[i].st \notin {"APPROVED", "SENT", "removed"} =>
             letter[r[i].p].mails = 0
        /\ r[i].do = "mark" /\ r[i].st = "AWAITING_APPROVAL" /\ onb[r[i].f].link # Nobody =>
             Desk!There(onb[r[i].f].link) # {}
    BY <2>2 DEF KeptOf
  <2>4. ASSUME r[i].do = "mail"
        PROVE  /\ i = 1 /\ s.do = "letter" /\ s.st = "APPROVED" /\ s.p = r[i].p
               /\ letter[s.p].mails = 0
    <3>1. j = 2 /\ t[1].do = "letter" /\ t[1].st = "APPROVED" /\ t[1].p = r[i].p
          /\ letter[r[i].p].mails = 0
      BY <2>2, <2>4 DEF KeptOf
    <3>2. QED
      BY <2>1, <2>2, <3>1
  <2>5. ASSUME r[i].do = "unstore"
        PROVE  /\ i + 1 \in DOMAIN r /\ r[i + 1].do \in {"replace", "drop"}
               /\ r[i + 1].p = r[i].p /\ r[i + 1].d = r[i].d
    <3>1. /\ j + 1 \in DOMAIN t /\ t[j + 1].do \in {"replace", "drop"}
          /\ t[j + 1].p = r[i].p /\ t[j + 1].d = r[i].d
      BY <2>2, <2>5 DEF KeptOf
    <3>2. PICK m \in DOMAIN t : m = j + 1
      BY <3>1
    <3>3. m # 1 /\ m - 1 = i + 1
      BY <2>1, <2>2, <3>2
    <3>4. i + 1 \in DOMAIN r
      <4>1. m - 1 \in DOMAIN r
        BY <3>3 DEF Now
      <4>2. QED
        BY <3>3, <4>1
    <3>5. r[i + 1] = t[j + 1]
      BY <2>2, <3>4 DEF Now
    <3>6. QED
      BY <3>1, <3>4, <3>5
  <2>6. QED
    BY <2>3, <2>4, <2>5
<1>2. s.do # "letter" => KeptOf(r)
  BY <1>1 DEF KeptOf
<1>3. QED
  BY <1>1, <1>2

(* The statements of a call at the next state are statements.              *)
LEMMA NextTyped ==
  ASSUME DeskInv', NEW c \in Calls
  PROVE  /\ doing'[c].todo \in Seq(Statement)
         /\ \A i \in DOMAIN doing'[c].todo : doing'[c].todo[i] \in Statement
<1>1. doing'[c].todo \in Seq(Statement)
  BY DEF DeskInv, DeskTyped, Call
<1>2. PICK v \in Seq(Statement) : v = doing'[c].todo
  BY <1>1
<1>3. QED
  BY <1>2

LEMMA KeptBegins ==
  ASSUME DeskInv, DeskInv', KeptInv, Desk!Serial, UNCHANGED <<duty, crashed>>,
         NEW c \in Calls, Begins(c)
  PROVE  KeptInv'
<1>1. PICK op : /\ Fresh(op, doing'[c].todo) /\ OthersWait(c) /\ c \in duty.calls
                /\ doing[c] = Desk!Idle /\ UNCHANGED <<onb, paper, letter>>
  BY BeginRuns
<1>2. PICK v : v = doing'[c].todo
  OBVIOUS
<1>3. \A p \in People : letter[p].st \notin {"APPROVED", "SENT", "removed"} =>
                          letter[p].mails = 0
  BY DEF KeptInv, OneMail
<1>4. \A i \in DOMAIN v : v[i] \in Statement /\ Found(op, v[i])
  BY <1>1, <1>2, NextTyped DEF Fresh
<1>5. Paired(op, v)
  BY <1>1, <1>2 DEF Fresh
<1>6. KeptOf(v)
  <2>1. ASSUME NEW i \in DOMAIN v
        PROVE  /\ v[i].do # "mail"
               /\ v[i].do = "attach" => Desk!There(v[i].p) = {}
               /\ v[i].do = "mark" /\ v[i].st = "AWAITING_APPROVAL" =>
                    Desk!There(onb[v[i].f].link) # {}
    BY <1>4, <2>1 DEF Found
  <2>2. ASSUME NEW i \in DOMAIN v
        PROVE  /\ v[i].do \in {"attach", "pdf"} => i = 1
               /\ v[i].do = "unstore" =>
                    /\ i + 1 \in DOMAIN v /\ v[i + 1].do \in {"replace", "drop"}
                    /\ v[i + 1].p = v[i].p /\ v[i + 1].d = v[i].d
    BY <1>5, <2>2 DEF Paired
  <2>3. ASSUME NEW i \in DOMAIN v
        PROVE  /\ v[i].do \in {"text", "pdf"} => letter[v[i].p].mails = 0
               /\ v[i].do = "letter" /\ v[i].st \notin {"APPROVED", "SENT", "removed"} =>
                    letter[v[i].p].mails = 0
    <3>1. PICK s \in Statement : s = v[i]
      BY <1>4, <2>3
    <3>2. s.do \in {"text", "pdf", "letter"} => s.p \in People
      BY PapersParts
    <3>3. /\ s.do = "text" => letter[s.p].st \in {"DRAFT", "REJECTED"}
          /\ s.do = "pdf" => letter[s.p].st = "PENDING_APPROVAL"
          /\ s.do = "letter" /\ s.st # "removed" =>
               letter[s.p].st \in {"DRAFT", "REJECTED", "PENDING_APPROVAL"}
      BY <1>4, <2>3, <3>1 DEF Found
    <3>4. QED
      BY <1>3, <3>1, <3>2, <3>3
  <2>4. QED
    BY <2>1, <2>2, <2>3 DEF KeptOf
<1>7. KeptOf(v)'
  BY <1>1, <1>6, KeptSame
<1>8. AllStored'
  <2>1. DOMAIN doing[c].todo = {}
    BY <1>1 DEF Desk!Idle
  <2>2. QED
    BY <1>1, <2>1, StoredSame
<1>9. KeptOf(doing[c].todo)'
  BY <1>2, <1>7 DEF KeptOf
<1>10. QED
  BY <1>1, <1>8, <1>9, TablesKept, KeptNext

LEMMA KeptLooks ==
  ASSUME DeskInv, KeptInv, Desk!Serial, UNCHANGED <<duty, crashed>>, NEW c \in Calls, Looks(c)
  PROVE  KeptInv'
<1>1. PICK t, r, s : /\ Now(c, t, r, s) /\ OthersWait(c) /\ UNCHANGED <<onb, paper, letter>>
                     /\ doing'[c].todo = <<>> \/ Ahead(s, doing'[c].todo)
                     /\ s.do \in {"lookup", "code", "sheet", "row", "pdf"}
  BY LookRuns
<1>2. PICK v : v = doing'[c].todo
  OBVIOUS
<1>3. v = <<>> \/ Ahead(s, v)
  BY <1>1, <1>2
<1>4. KeptOf(v)
  <2>1. CASE s.do = "pdf" /\ v # <<>>
    <3>1. /\ DOMAIN v = {1, 2, 3} /\ v[1].do = "letter" /\ v[1].st = "APPROVED" /\ v[1].p = s.p
          /\ v[2].do = "mail" /\ v[2].p = s.p
          /\ v[3].do = "letter" /\ v[3].st = "SENT" /\ v[3].p = s.p
      BY <1>3, <2>1 DEF Ahead
    <3>2. letter[s.p].mails = 0
      BY <1>1, <2>1 DEF KeptInv, KeptOf, Now
    <3>3. QED
      BY <3>1, <3>2 DEF KeptOf
  <2>2. CASE s.do # "pdf" \/ v = <<>>
    <3>1. ASSUME NEW i \in DOMAIN v
          PROVE  v[i].do \in {"unlogin", "code", "enter", "row", "login", "employ", "file"}
      <4>1. /\ v[i].do \in {"unlogin", "code", "enter", "row", "login", "employ", "file",
                            "letter", "mail"}
            /\ v[i].do \in {"letter", "mail"} => s.do = "pdf"
        BY <1>3, <3>1, AheadKinds
      <4>2. QED
        BY <2>2, <3>1, <4>1
    <3>2. QED
      BY <3>1 DEF KeptOf
  <2>3. QED
    BY <2>1, <2>2
<1>5. KeptOf(v)'
  BY <1>1, <1>4, KeptSame
<1>6. AllStored'
  <2>1. Busy(c) /\ doing[c].todo[1].do \notin {"replace", "drop"}
    BY <1>1 DEF Now
  <2>2. QED
    BY <1>1, <2>1, StoredSame
<1>7. KeptOf(doing[c].todo)'
  BY <1>2, <1>5 DEF KeptOf
<1>8. Busy(c)
  BY <1>1 DEF Now
<1>9. QED
  BY <1>1, <1>6, <1>7, <1>8, TablesKept, KeptNext

LEMMA KeptJoins ==
  ASSUME DeskInv, DeskInv', CallsInv, KeptInv, Desk!Serial, UNCHANGED <<duty, crashed>>,
         NEW c \in Calls, Joins(c)
  PROVE  KeptInv'
<1>1. UNCHANGED <<paper, letter>>
  BY DEF Joins
<1>2. OneDocument' /\ OneMail'
  BY <1>1 DEF KeptInv, OneDocument, OneMail, Desk!There
<1>3. ASSUME NEW t, NEW r, NEW s, Now(c, t, r, s), OthersWait(c),
             s.do \notin {"replace", "drop"}, HandedIn', KeptOf(doing[c].todo)'
      PROVE  KeptInv'
  <2>1. Busy(c) /\ doing[c].todo[1].do \notin {"replace", "drop"}
    BY <1>3 DEF Now
  <2>2. AllStored'
    BY <1>1, <2>1, StoredSame
  <2>3. QED
    BY <1>2, <1>3, <2>1, <2>2, KeptNext
<1>4. CASE Desk!EnterEmployee(c)
  <2>1. PICK t, r, s, v : /\ Now(c, t, r, s) /\ s.do = "enter" /\ OthersWait(c) /\ UNCHANGED onb
                          /\ v = doing'[c].todo
                          /\ v = <<>> \/ (DOMAIN v = {1} /\ v[1].do = "link")
    BY <1>4, EnterRuns
  <2>2. KeptOf(doing[c].todo)'
    BY <2>1 DEF KeptOf
  <2>3. HandedIn'
    BY <1>1, <2>1, TablesKept
  <2>4. QED
    BY <1>3, <2>1, <2>2, <2>3
<1>5. CASE JoiningRuns(c)
  <2>1. PICK t, r, s : /\ Now(c, t, r, s) /\ OthersWait(c)
                       /\ FileWrote(c, s) \/ PersonWrote(c, s)
                       /\ doing'[c].todo \in {r, <<>>}
    BY <1>5, JoinRuns
  <2>2. s.do \in OnFiles \cup OnPeople
    BY <2>1 DEF FileWrote, PersonWrote
  <2>3. KeptOf(t) /\ KeptOf(r)
    <3>1. KeptOf(t)
      BY <2>1 DEF KeptInv, Now
    <3>2. s.do # "letter"
      BY <2>2 DEF OnFiles, OnPeople
    <3>3. QED
      BY <2>1, <3>1, <3>2, KeptRest
  <2>4. PICK op : op = doing[c].op /\ Belongs(op, s) /\ \A i \in DOMAIN r : Belongs(op, r[i])
    BY <2>1 DEF CallsInv, Now
  <2>5. ASSUME NEW i \in DOMAIN r, r[i].do = "mark", r[i].st = "AWAITING_APPROVAL"
        PROVE  onb'[r[i].f].link = onb[r[i].f].link
    <3>1. op = "handIn"
      BY <2>4, <2>5 DEF Belongs
    <3>2. s.do = "mark"
      BY <2>2, <2>4, <3>1 DEF Belongs, OnFiles, OnPeople
    <3>3. r[i].f \in Files
      <4>1. r[i] \in Statement
        BY <2>1 DEF Now
      <4>2. QED
        BY <2>5, <4>1, JoiningParts
    <3>4. UNCHANGED onb \/ \E f \in Files : OnlyFile(f) /\ onb'[f].link = onb[f].link
      BY <2>1, <3>2 DEF FileWrote, PersonWrote, RequestWritten
    <3>5. QED
      BY <3>3, <3>4 DEF OnlyFile
  <2>6. KeptOf(doing[c].todo)'
    <3>1. KeptOf(r)'
      BY <1>1, <2>3, <2>5, KeptSame
    <3>2. KeptOf(<<>>)'
      BY DEF KeptOf
    <3>3. CASE doing'[c].todo = r
      BY <3>1, <3>3 DEF KeptOf
    <3>4. CASE doing'[c].todo = <<>>
      BY <3>2, <3>4 DEF KeptOf
    <3>5. QED
      BY <2>1, <3>3, <3>4
  <2>7. HandedIn'
    <3>1. CASE UNCHANGED onb
      BY <1>1, <3>1, TablesKept
    <3>2. ASSUME NEW f \in Files, OnlyFile(f), RequestWritten(s, f, onb[f], onb'[f]),
                 Desk!Unused({"deletePaper"})
          PROVE  Desk!Live(f)' /\ onb'[f].link # Nobody /\ onb'[f].st = "AWAITING_APPROVAL" =>
                   Desk!There(onb'[f].link) # {}
      <4>1. PICK was, new : was = onb[f] /\ new = onb'[f]
        OBVIOUS
      <4>2. RequestWritten(s, f, was, new) /\ s \in Statement /\ 1 \in DOMAIN t /\ t[1] = s
        BY <2>1, <3>2, <4>1 DEF Now
      <4>3. CASE s.do = "file"
        <5>1. new.st \in {"PENDING", "ACCOUNT_CREATED"}
          BY <4>2, <4>3, JoiningParts DEF RequestWritten, Filed
        <5>2. QED
          BY <4>1, <5>1
      <4>4. CASE s.do = "readdress"
        <5>1. new.st = was.st /\ new.link = was.link /\ Desk!Live(f)
          BY <4>2, <4>4 DEF RequestWritten
        <5>2. QED
          BY <3>2, <4>1, <5>1 DEF KeptInv, HandedIn
      <4>5. CASE s.do \in {"unfile", "link"}
        BY <4>1, <4>2, <4>5 DEF RequestWritten
      <4>6. CASE s.do = "mark"
        <5>1. new.st = s.st /\ new.link = was.link /\ f = s.f
          BY <4>2, <4>6 DEF RequestWritten
        <5>2. s.st = "AWAITING_APPROVAL" /\ was.link # Nobody => Desk!There(was.link) # {}
          BY <2>3, <4>1, <4>2, <4>6, <5>1 DEF KeptOf
        <5>3. QED
          BY <4>1, <5>1, <5>2
      <4>7. QED
        BY <4>2, <4>3, <4>4, <4>5, <4>6 DEF RequestWritten
    <3>3. CASE \E f \in Files : OnlyFile(f) /\ RequestWritten(s, f, onb[f], onb'[f])
      <4>1. PICK f \in Files : OnlyFile(f) /\ RequestWritten(s, f, onb[f], onb'[f])
        BY <3>3
      <4>2. \A g \in Files : Desk!Unused({"deletePaper"}) /\ Desk!Live(g)' /\ onb'[g].link # Nobody
               /\ onb'[g].st = "AWAITING_APPROVAL" => Desk!There(onb'[g].link) # {}
        BY <3>2, <4>1 DEF KeptInv, HandedIn, OnlyFile, Desk!Live
      <4>3. QED
        BY <1>1, <4>2 DEF HandedIn, Desk!There, Desk!Unused
    <3>4. QED
      BY <2>1, <3>1, <3>3 DEF FileWrote, PersonWrote
  <2>8. s.do \notin {"replace", "drop"}
    BY <2>2 DEF OnFiles, OnPeople
  <2>9. QED
    BY <1>3, <2>1, <2>6, <2>7, <2>8
<1>6. QED
  BY <1>4, <1>5 DEF Joins

LEMMA KeptPapers ==
  ASSUME DeskInv, DeskInv', CallsInv, KeptInv, Desk!Serial,
         UNCHANGED <<duty, crashed, onb, letter>>,
         NEW c \in Calls, NEW t, NEW r, NEW s, Now(c, t, r, s), OthersWait(c),
         doing'[c].todo \in {r, <<>>}, s.do \in OnPaper \cup {"attach"},
         OneDocument', AllStored',
         Desk!Unused({"deletePaper"}) =>
           \A q \in People : Desk!There(q) # {} => Desk!There(q)' # {}
  PROVE  KeptInv'
<1>1. PICK op : op = doing[c].op /\ Belongs(op, s) /\ \A i \in DOMAIN r : Belongs(op, r[i])
  BY DEF CallsInv, Now
<1>2. op # "handIn"
  BY <1>1 DEF Belongs, OnPaper
<1>3. KeptOf(r)
  <2>1. KeptOf(t) /\ s.do # "letter"
    BY DEF KeptInv, Now, OnPaper
  <2>2. QED
    BY <2>1, KeptRest
<1>4. KeptOf(r)'
  <2>1. \A i \in DOMAIN r : /\ r[i].do # "attach"
                           /\ ~(r[i].do = "mark" /\ r[i].st = "AWAITING_APPROVAL")
    <3>1. KeptOf(t)
      BY DEF KeptInv, Now
    <3>2. \A i \in DOMAIN r : r[i].do # "attach"
      BY <3>1, KeptRest
    <3>3. QED
      BY <1>1, <1>2, <3>2 DEF Belongs
  <2>2. QED
    BY <1>3, <2>1 DEF KeptOf
<1>5. KeptOf(doing[c].todo)'
  <2>1. KeptOf(<<>>)'
    BY DEF KeptOf
  <2>2. CASE doing'[c].todo = r
    BY <1>4, <2>2 DEF KeptOf
  <2>3. CASE doing'[c].todo = <<>>
    BY <2>1, <2>3 DEF KeptOf
  <2>4. QED
    BY <2>2, <2>3
<1>6. OneMail'
  BY DEF KeptInv, OneMail
<1>7. HandedIn'
  <2>1. ASSUME NEW f \in Files, Desk!Unused({"deletePaper"}), Desk!Live(f), onb[f].link # Nobody,
               onb[f].st = "AWAITING_APPROVAL"
        PROVE  Desk!There(onb[f].link)' # {}
    <3>1. PICK q \in People : q = onb[f].link
      BY <2>1 DEF DeskInv, DeskTyped, Desk!JoiningTypeOK, Desk!OnboardingRequest
    <3>2. Desk!There(q) # {}
      BY <2>1, <3>1 DEF KeptInv, HandedIn
    <3>3. Desk!There(q)' # {}
      BY <2>1, <3>2
    <3>4. QED
      BY <3>1, <3>3 DEF Desk!There
  <2>2. QED
    BY <2>1 DEF HandedIn, Desk!Unused, Desk!Live, Desk!There
<1>8. Busy(c)
  BY DEF Now
<1>9. QED
  BY <1>5, <1>6, <1>7, <1>8, KeptNext

(* Every document of others is in the store, and so is what c neither      *)
(* replaces nor drops.                                                     *)
LEMMA OthersStored ==
  ASSUME DeskInv, KeptInv, Desk!Serial, NEW c \in Calls, NEW t, NEW r, NEW s, Now(c, t, r, s),
         NEW q \in People, NEW e \in Desk!There(q), paper[q][e].file # 0, ~crashed,
         s.do \in {"replace", "drop"} => q # s.p \/ e # s.d
  PROVE  paper[q][e].stored
<1>1. Stored(q, e)
  BY DEF KeptInv, AllStored
<1>2. ASSUME NEW k \in Calls, doing[k].todo # <<>>, doing[k].todo[1].do \in {"replace", "drop"},
             doing[k].todo[1].p = q, doing[k].todo[1].d = e
      PROVE  FALSE
  <2>1. Busy(c) /\ doing[c].todo[1] = s
    BY DEF Now
  <2>2. k = c
    BY <1>2, <2>1, SoleCall
  <2>3. QED
    BY <1>2, <2>1, <2>2
<1>3. QED
  BY <1>1, <1>2 DEF Stored

(* The statements on documents ... *)
LEMMA KeptWrites ==
  ASSUME DeskInv, DeskInv', CallsInv, KeptInv, Desk!Serial, UNCHANGED <<duty, crashed, onb>>,
         NEW c \in Calls, NEW t, NEW r, NEW s, Now(c, t, r, s), OthersWait(c),
         doing'[c].todo \in {r, <<>>}, Desk!Done(c) => doing'[c].todo = r, PaperWrote(c, s)
  PROVE  KeptInv'
<1>1. UNCHANGED letter
  BY DEF PaperWrote
<1>2. OneDocument /\ KeptOf(t)
  BY DEF KeptInv, Now
<1>3. s \in Statement /\ 1 \in DOMAIN t /\ t[1] = s
  BY DEF Now
<1>4. CASE s.do \in OnPaper /\ UNCHANGED paper /\ paper[s.p][s.d].st # "there"
  <2>1. OneDocument' /\ \A q \in People : Desk!There(q)' = Desk!There(q)
    BY <1>2, <1>4 DEF OneDocument, Desk!There
  <2>2. ASSUME NEW q \in People, NEW e \in Desk!There(q)
        PROVE  Stored(q, e)'
    <3>1. paper[q][e].st = "there"
      BY <2>2 DEF Desk!There
    <3>2. q # s.p \/ e # s.d
      BY <1>4, <3>1
    <3>3. paper[q][e].file # 0 /\ ~crashed => paper[q][e].stored
      BY <3>2, OthersStored
    <3>4. QED
      BY <1>4, <3>3 DEF Stored
  <2>3. AllStored'
    BY <2>1, <2>2 DEF AllStored
  <2>4. QED
    BY <1>1, <1>4, <2>1, <2>3, KeptPapers
<1>5. CASE /\ s.do \in OnPaper /\ Desk!Done(c) /\ s.p \in People /\ s.d \in Slots
           /\ OnlyRow(s.p, s.d) /\ paper[s.p][s.d].st = "there"
           /\ RowWritten(s, paper[s.p][s.d], paper'[s.p][s.d])
  <2>0. PICK p \in People, d \in Slots : p = s.p /\ d = s.d
    BY <1>5
  <2>1. PICK was, doc : p = s.p /\ d = s.d /\ was = paper[p][d] /\ doc = paper'[p][d]
    BY <2>0
  <2>2. /\ OnlyRow(p, d) /\ RowWritten(s, was, doc) /\ was.st = "there"
        /\ doc.st = IF s.do = "drop" THEN "deleted" ELSE "there"
    BY <1>5, <2>1 DEF RowWritten
  <2>3. \A q \in People, e \in Slots :
          paper'[q][e].st = "there" =>
            /\ paper[q][e].st = "there"
            /\ q = p /\ e = d => s.do # "drop"
    BY <2>1, <2>2 DEF OnlyRow
  <2>4. OneDocument'
    BY <1>2, <2>3 DEF OneDocument, Desk!There
  <2>5. Desk!Unused({"deletePaper"}) =>
          \A q \in People : Desk!There(q) # {} => Desk!There(q)' # {}
    <3>1. s.do = "drop" => "deletePaper" \in duty.ops
      <4>1. doing[c].op \in duty.ops /\ Belongs(doing[c].op, s)
        BY DEF CallsInv, Now
      <4>2. QED
        BY <4>1 DEF Belongs
    <3>2. CASE s.do # "drop"
      <4>1. \A q \in People, e \in Slots : paper[q][e].st = "there" => paper'[q][e].st = "there"
        BY <2>1, <2>2, <3>2 DEF OnlyRow
      <4>2. QED
        BY <4>1 DEF Desk!There
    <3>3. QED
      BY <3>1, <3>2 DEF Desk!Unused
  <2>6. ASSUME NEW q \in People, NEW e \in Slots, paper'[q][e].st = "there"
        PROVE  Stored(q, e)'
    <3>1. CASE q # p \/ e # d
      <4>1. e \in Desk!There(q) /\ paper'[q][e] = paper[q][e]
        BY <2>2, <2>3, <2>6, <3>1 DEF OnlyRow, Desk!There
      <4>2. paper[q][e].file # 0 /\ ~crashed => paper[q][e].stored
        BY <2>1, <3>1, <4>1, OthersStored
      <4>3. QED
        BY <4>1, <4>2 DEF Stored
    <3>2. CASE q = p /\ e = d /\ s.do = "unstore"
      <4>1. /\ 1 + 1 \in DOMAIN t /\ t[1 + 1].do \in {"replace", "drop"}
            /\ t[1 + 1].p = p /\ t[1 + 1].d = d
        BY <1>2, <1>3, <2>1, <3>2 DEF KeptOf
      <4>2. PICK j \in DOMAIN t : j = 2 /\ j # 1 /\ j - 1 = 1
        BY <4>1
      <4>3. 1 \in DOMAIN r
        <5>1. j - 1 \in DOMAIN r
          BY <4>2 DEF Now
        <5>2. QED
          BY <4>2, <5>1
      <4>4. r[1] = t[1 + 1]
        BY <4>3 DEF Now
      <4>5. doing'[c].todo = r
        BY <1>5
      <4>6. r # <<>>
        BY <4>3
      <4>7. QED
        BY <3>2, <4>1, <4>4, <4>5, <4>6 DEF Stored
    <3>3. CASE q = p /\ e = d /\ s.do = "replace"
      BY <2>1, <2>2, <3>3 DEF Stored, RowWritten
    <3>4. CASE q = p /\ e = d /\ s.do \in {"verify", "original"}
      <4>1. d \in Desk!There(p) /\ doc.file = was.file /\ doc.stored = was.stored
        BY <2>2, <2>1, <3>4 DEF RowWritten, Desk!There
      <4>2. was.file # 0 /\ ~crashed => was.stored
        BY <2>1, <3>4, <4>1, OthersStored
      <4>3. QED
        BY <2>1, <3>4, <4>1, <4>2 DEF Stored
    <3>5. QED
      BY <1>5, <2>3, <2>6, <3>1, <3>2, <3>3, <3>4 DEF OnPaper
  <2>7. AllStored'
    BY <2>6 DEF AllStored, Desk!There
  <2>8. QED
    BY <1>1, <1>5, <2>4, <2>5, <2>7, KeptPapers
<1>6. CASE /\ s.do = "attach" /\ Desk!Done(c) /\ s.p \in People
           /\ \E d \in Slots :
                /\ OnlyRow(s.p, d) /\ paper[s.p][d].st = "none" /\ paper'[s.p][d].st = "there"
                /\ ~paper'[s.p][d].verified
                /\ paper'[s.p][d].file # 0 => paper'[s.p][d].stored
  <2>1. PICK p \in People : p = s.p
    BY <1>6
  <2>2. PICK d \in Slots :
           /\ OnlyRow(p, d) /\ paper'[p][d].st = "there"
           /\ paper'[p][d].file # 0 => paper'[p][d].stored
    BY <1>6, <2>1
  <2>3. \A e \in Slots : paper[p][e].st # "there"
    <3>1. Desk!There(p) = {}
      BY <1>2, <1>3, <1>6, <2>1 DEF KeptOf
    <3>2. QED
      BY <3>1 DEF Desk!There
  <2>4. \A q \in People, e \in Slots :
          /\ paper'[q][e].st = "there" => IF q = p THEN e = d ELSE paper[q][e].st = "there"
          /\ paper[q][e].st = "there" => paper'[q][e].st = "there"
    BY <2>2, <2>3 DEF OnlyRow
  <2>5. OneDocument'
    BY <1>2, <2>4 DEF OneDocument, Desk!There
  <2>6. \A q \in People : Desk!There(q) # {} => Desk!There(q)' # {}
    BY <2>4 DEF Desk!There
  <2>7. ASSUME NEW q \in People, NEW e \in Slots, paper'[q][e].st = "there"
        PROVE  Stored(q, e)'
    <3>1. CASE q = p
      BY <2>2, <2>4, <2>7, <3>1 DEF Stored
    <3>2. CASE q # p
      <4>1. e \in Desk!There(q) /\ paper'[q][e] = paper[q][e]
        BY <2>2, <2>4, <2>7, <3>2 DEF OnlyRow, Desk!There
      <4>2. paper[q][e].file # 0 /\ ~crashed => paper[q][e].stored
        BY <1>6, <4>1, OthersStored
      <4>3. QED
        BY <4>1, <4>2 DEF Stored
    <3>3. QED
      BY <3>1, <3>2
  <2>8. AllStored'
    BY <2>7 DEF AllStored, Desk!There
  <2>9. QED
    BY <1>1, <1>6, <2>5, <2>6, <2>8, KeptPapers
<1>7. QED
  BY <1>4, <1>5, <1>6 DEF PaperWrote

(* ... and on letters. *)
LEMMA KeptLetters ==
  ASSUME DeskInv, DeskInv', CallsInv, KeptInv, Desk!Serial, UNCHANGED <<duty, crashed, onb>>,
         NEW c \in Calls, NEW t, NEW r, NEW s, Now(c, t, r, s), OthersWait(c),
         doing'[c].todo \in {r, <<>>}, Desk!Fails(c) => doing'[c].todo = <<>>,
         LetterWrote(c, s), s.do \in OnLetters
  PROVE  KeptInv'
<1>1. /\ KeptOf(t) /\ OneDocument /\ HandedIn /\ OneMail /\ s \in Statement
      /\ 1 \in DOMAIN t /\ t[1] = s /\ Busy(c) /\ doing[c].todo[1] = s
  BY DEF KeptInv, Now
<1>2. UNCHANGED paper
  BY DEF LetterWrote
<1>3. AllStored'
  <2>1. doing[c].todo[1].do \notin {"replace", "drop"}
    BY <1>1 DEF OnLetters
  <2>2. QED
    BY <1>1, <1>2, <2>1, StoredSame
<1>4. OneDocument' /\ HandedIn'
  <2>1. OneDocument'
    BY <1>1, <1>2 DEF OneDocument, Desk!There
  <2>2. HandedIn'
    BY <1>1, <1>2 DEF HandedIn, Desk!There, Desk!Live, Desk!Unused
  <2>3. QED
    BY <2>1, <2>2
<1>5. KeptOf(<<>>)'
  BY DEF KeptOf
<1>6. CASE Desk!Fails(c) /\ UNCHANGED letter
  <2>1. OneMail'
    BY <1>1, <1>6 DEF OneMail
  <2>2. KeptOf(doing[c].todo)'
    BY <1>5, <1>6 DEF KeptOf
  <2>3. QED
    BY <1>1, <1>3, <1>4, <2>1, <2>2, KeptNext
<1>7. CASE /\ s.do \in OnLetters /\ Desk!Done(c) /\ s.p \in People
           /\ OnlyLetter(s.p) /\ NewLetter(s, letter[s.p], letter'[s.p])
  <2>0. PICK p \in People : p = s.p
    BY <1>7
  <2>1. PICK was, new : p = s.p /\ was = letter[p] /\ new = letter'[p]
    BY <2>0
  <2>2. OnlyLetter(p) /\ NewLetter(s, was, new)
    BY <1>7, <2>1
  <2>3. /\ was.mails \in {0, 1}
        /\ was.mails = 1 => was.st \in {"APPROVED", "SENT", "removed"}
    BY <1>1, <2>1 DEF OneMail
  <2>4. /\ s.do = "text" => was.mails = 0
        /\ s.do = "letter" /\ s.st \notin {"APPROVED", "SENT", "removed"} => was.mails = 0
        /\ s.do = "mail" => was.mails = 0 /\ was.st \in {"APPROVED", "removed"}
    <3>1. s.do = "mail" => was.mails = 0 /\ was.st \in {"APPROVED", "removed"}
      BY <1>1, <2>1 DEF KeptOf
    <3>2. s.do = "text" => was.mails = 0
      BY <1>1, <2>1 DEF KeptOf
    <3>3. s.do = "letter" /\ s.st \notin {"APPROVED", "SENT", "removed"} => was.mails = 0
      BY <1>1, <2>1 DEF KeptOf
    <3>4. QED
      BY <3>1, <3>2, <3>3
  <2>5. /\ new.mails \in {0, 1}
        /\ new.mails = 1 => new.st \in {"APPROVED", "SENT", "removed"}
    BY <2>2, <2>3, <2>4 DEF NewLetter
  <2>6. OneMail'
    BY <1>1, <2>1, <2>2, <2>5 DEF OneMail, OnlyLetter
  <2>7. s.do # "mail" => \A q \in People : letter'[q].mails = letter[q].mails
    BY <2>1, <2>2 DEF NewLetter, OnlyLetter
  <2>8. PICK op : op = doing[c].op /\ Belongs(op, s) /\ \A i \in DOMAIN r : Belongs(op, r[i])
    BY DEF CallsInv, Now
  <2>9. ASSUME NEW i \in DOMAIN r
        PROVE  /\ r[i].do # "attach" /\ r[i].do # "pdf"
               /\ ~(r[i].do = "mark" /\ r[i].st = "AWAITING_APPROVAL")
               /\ r[i].do = "unstore" =>
                    /\ i + 1 \in DOMAIN r /\ r[i + 1].do \in {"replace", "drop"}
                    /\ r[i + 1].p = r[i].p /\ r[i + 1].d = r[i].d
               /\ r[i].do = "text" => letter'[r[i].p].mails = 0
               /\ r[i].do = "letter" /\ r[i].st \notin {"APPROVED", "SENT", "removed"} =>
                    letter'[r[i].p].mails = 0
               /\ r[i].do = "mail" =>
                    letter'[r[i].p].mails = 0 /\ i = 1 /\ letter'[r[i].p].st = "APPROVED"
    <3>1. r[i] \in Statement
      BY <2>9 DEF Now
    <3>2. r[i].do \in {"text", "letter", "mail"} => r[i].p \in People
      BY <3>1, PapersParts
    <3>3. /\ r[i].do \notin {"attach", "pdf"}
          /\ r[i].do = "mail" => /\ i = 1 /\ s.do = "letter" /\ s.st = "APPROVED" /\ s.p = r[i].p
                                 /\ letter[s.p].mails = 0
          /\ r[i].do = "unstore" =>
               /\ i + 1 \in DOMAIN r /\ r[i + 1].do \in {"replace", "drop"}
               /\ r[i + 1].p = r[i].p /\ r[i + 1].d = r[i].d
          /\ r[i].do = "text" => letter[r[i].p].mails = 0
          /\ r[i].do = "letter" /\ r[i].st \notin {"APPROVED", "SENT", "removed"} =>
               letter[r[i].p].mails = 0
      BY <1>1, <2>9, KeptRest
    <3>4. op = "handIn" => FALSE
      BY <1>7, <2>8 DEF Belongs, OnLetters
    <3>5. s.do = "mail" => op = "approveLetter"
      BY <2>8 DEF Belongs
    <3>6. r[i].do = "text" => s.do # "mail"
      BY <2>8, <2>9, <3>5 DEF Belongs
    <3>7. r[i].do = "letter" /\ r[i].st \notin {"APPROVED", "SENT", "removed"} => s.do # "mail"
      BY <2>8, <2>9, <3>5 DEF Belongs
    <3>8. ~(r[i].do = "mark" /\ r[i].st = "AWAITING_APPROVAL")
      BY <2>8, <2>9, <3>4 DEF Belongs
    <3>9. s.do = "letter" => new.st = s.st
      BY <2>2 DEF NewLetter
    <3>10. r[i].do = "text" => letter'[r[i].p].mails = 0
      BY <2>7, <3>2, <3>3, <3>6
    <3>11. r[i].do = "letter" /\ r[i].st \notin {"APPROVED", "SENT", "removed"} =>
             letter'[r[i].p].mails = 0
      BY <2>7, <3>2, <3>3, <3>7
    <3>12. r[i].do = "mail" =>
             letter'[r[i].p].mails = 0 /\ i = 1 /\ letter'[r[i].p].st = "APPROVED"
      BY <2>1, <2>7, <3>2, <3>3, <3>9
    <3>13. QED
      BY <3>3, <3>8, <3>10, <3>11, <3>12
  <2>10. KeptOf(r)'
    BY <2>9 DEF KeptOf
  <2>11. KeptOf(doing[c].todo)'
    <3>1. CASE doing'[c].todo = r
      BY <2>10, <3>1 DEF KeptOf
    <3>2. CASE doing'[c].todo = <<>>
      BY <1>5, <3>2 DEF KeptOf
    <3>3. QED
      BY <3>1, <3>2
  <2>12. QED
    BY <1>1, <1>3, <1>4, <2>6, <2>11, KeptNext
<1>8. QED
  BY <1>6, <1>7 DEF LetterWrote

LEMMA KeptStep ==
  ASSUME DeskInv, DeskInv', CallsInv, KeptInv, [StaffNext]_staff
  PROVE  KeptInv'
<1>1. CASE UNCHANGED <<duty, office>>
  <2>1. CASE Desk!Serial
    <3>1. OneDocument' /\ HandedIn' /\ OneMail'
      BY <1>1, <2>1, TablesKept DEF office
    <3>2. AllStored'
      BY <1>1, <2>1 DEF office, KeptInv, AllStored, Stored, Desk!There
    <3>3. ASSUME NEW c \in Calls
          PROVE  KeptOf(doing[c].todo)'
      <4>1. PICK v : v = doing[c].todo /\ v = doing'[c].todo /\ KeptOf(v)
        BY <1>1, <2>1 DEF office, KeptInv
      <4>2. KeptOf(v)'
        BY <1>1, <4>1, KeptSame DEF office
      <4>3. QED
        BY <4>1, <4>2 DEF KeptOf
    <3>4. QED
      BY <3>1, <3>2, <3>3 DEF KeptInv
  <2>2. CASE ~Desk!Serial
    BY <1>1, <2>2 DEF KeptInv, Desk!Serial
  <2>3. QED
    BY <2>1, <2>2
<1>2. CASE UNCHANGED duty /\ ~Desk!Serial
  BY <1>2 DEF KeptInv, Desk!Serial
<1>3. CASE Crash /\ Desk!Serial
  <2>1. /\ UNCHANGED <<duty, onb, paper, letter>> /\ crashed' = TRUE
        /\ \A c \in Calls : DOMAIN doing'[c].todo = {}
    BY <1>3 DEF Crash, Desk!Idle
  <2>2. OneDocument' /\ HandedIn' /\ OneMail'
    BY <1>3, <2>1, TablesKept
  <2>3. AllStored'
    BY <2>1 DEF AllStored, Stored
  <2>4. \A c \in Calls : KeptOf(doing[c].todo)'
    BY <2>1 DEF KeptOf
  <2>5. QED
    BY <2>2, <2>3, <2>4 DEF KeptInv
<1>4. ASSUME UNCHANGED <<duty, crashed>>, Desk!Serial, NEW c \in Calls, Handles(c)
      PROVE  KeptInv'
  <2>1. PICK t, r, s : /\ Now(c, t, r, s) /\ OthersWait(c) /\ UNCHANGED onb
                       /\ doing'[c].todo \in {r, <<>>}
                       /\ Desk!Fails(c) => doing'[c].todo = <<>>
                       /\ Desk!Done(c) => doing'[c].todo = r
                       /\ PaperWrote(c, s) \/ (LetterWrote(c, s) /\ s.do \in OnLetters)
    BY <1>4, HandleRuns
  <2>2. QED
    BY <1>4, <2>1, KeptWrites, KeptLetters
<1>5. CASE Crash
  BY <1>2, <1>3, <1>5 DEF Crash
<1>6. QED
  BY <1>1, <1>2, <1>4, <1>5, DeskMoves, KeptBegins, KeptLooks, KeptJoins

-----------------------------------------------------------------------------
(* No two requests are of one employee, however calls overlap.             *)
OwnFiles ==
  \A f, g \in Files :
    Desk!Live(f) /\ Desk!Live(g) /\ onb[f].link # Nobody /\ onb[f].link = onb[g].link => f = g

LEMMA OwnStep ==
  ASSUME DeskInv, OwnFiles, [StaffNext]_staff
  PROVE  OwnFiles'
<1>1. CASE UNCHANGED onb
  BY <1>1 DEF OwnFiles, Desk!Live
<1>2. ASSUME NEW c \in Calls, Joins(c), onb' # onb
      PROVE  OwnFiles'
  <2>1. JoiningRuns(c)
    BY <1>2, EnterRuns DEF Joins
  <2>2. PICK s : FileWrote(c, s) \/ PersonWrote(c, s)
    BY <2>1, JoinRuns
  <2>3. PICK f \in Files : OnlyFile(f) /\ RequestWritten(s, f, onb[f], onb'[f])
    BY <1>2, <2>2 DEF FileWrote, PersonWrote
  <2>4. ASSUME NEW g \in Files, g # f, Desk!Live(f)', Desk!Live(g)', onb'[f].link # Nobody,
               onb'[f].link = onb'[g].link
        PROVE  FALSE
    <3>1. onb'[g] = onb[g] /\ Desk!Live(g)
      BY <2>3, <2>4 DEF OnlyFile, Desk!Live
    <3>2. CASE s.do = "file"
      BY <2>3, <2>4, <3>1, <3>2 DEF RequestWritten, Desk!FileOf
    <3>3. CASE s.do \in {"readdress", "mark"}
      BY <2>3, <2>4, <3>1, <3>3 DEF RequestWritten, OwnFiles
    <3>4. CASE s.do = "unfile"
      BY <2>3, <2>4, <3>4 DEF RequestWritten, Desk!Live
    <3>5. CASE s.do = "link"
      BY <2>3, <2>4, <3>1, <3>5 DEF RequestWritten, Desk!FileOf
    <3>6. QED
      BY <2>3, <3>2, <3>3, <3>4, <3>5 DEF RequestWritten
  <2>5. ASSUME NEW g \in Files, NEW h \in Files, g # f, h # f, Desk!Live(g)', Desk!Live(h)',
               onb'[g].link # Nobody, onb'[g].link = onb'[h].link
        PROVE  g = h
    BY <2>3, <2>5 DEF OnlyFile, OwnFiles, Desk!Live
  <2>6. QED
    BY <2>4, <2>5 DEF OwnFiles
<1>3. ASSUME UNCHANGED <<duty, crashed>>, NEW c \in Calls, Begins(c) \/ Looks(c) \/ Handles(c)
      PROVE  UNCHANGED onb
  BY <1>3 DEF Begins, Looks, Handles
<1>4. QED
  BY <1>1, <1>2, <1>3, DeskMoves DEF Crash, office

-----------------------------------------------------------------------------
(* Who is employed has a request, or the next statement files it; while    *)
(* addresses are not corrected meanwhile, a request linked to an employee  *)
(* names its address, and what a call is to link is still as it was found. *)
Filing == /\ ~crashed /\ Desk!Unused({"hire", "removeJoiner"})
          /\ Desk!NotDuring("correctJoiner")

Covers(c, p) == 1 \in DOMAIN doing[c].todo /\
  LET s == doing[c].todo[1] IN
  \/ s.do = "link" /\ s.who = p
  \/ s.do = "file" /\ s.row.link = p
AllFiled == \A p \in People : Desk!Employed(p) =>
  Desk!FileOf(p) # {} \/ \E c \in Calls : Covers(c, p)
OwnAddress == \A f \in Files : onb[f].link # Nobody => onb[f].link = onb[f].who

FilingOf(t) ==
  \A i \in DOMAIN t : LET s == t[i] IN
    /\ s.do \in {"lookup", "code", "enter", "link"} =>
         s.f \in Files /\ Desk!Live(s.f) /\ onb[s.f].who = s.who
    /\ s.do = "readdress" => s.f \in Files /\ onb[s.f].link = Nobody
    /\ s.do = "employ" =>
         i + 1 \in DOMAIN t /\ t[i + 1].do = "file" /\ t[i + 1].row.link = s.who

FiledInv == Filing =>
  AllFiled /\ OwnAddress /\ \A c \in Calls : FilingOf(doing[c].todo)

LEMMA FiledNext ==
  ASSUME Filing, FiledInv, NEW c \in Calls, OthersWait(c),
         \A p \in People : Desk!FileOf(p) # {} => Desk!FileOf(p)' # {},
         \A p \in People : Desk!Employed(p)' /\ Desk!FileOf(p)' = {} =>
           Covers(c, p)' \/ (Desk!Employed(p) /\ ~Covers(c, p)),
         OwnAddress', \A k \in Calls : FilingOf(doing[k].todo)'
  PROVE  FiledInv'
<1>1. AllFiled'
  <2>1. ASSUME NEW p \in People, Desk!Employed(p)', Desk!FileOf(p)' = {}
        PROVE  \E k \in Calls : Covers(k, p)'
    <3>1. CASE Covers(c, p)'
      BY <3>1
    <3>2. CASE Desk!Employed(p) /\ ~Covers(c, p)
      <4>1. PICK k \in Calls : Covers(k, p)
        BY <2>1, <3>2 DEF FiledInv, AllFiled
      <4>2. Covers(k, p)'
        BY <3>2, <4>1 DEF Covers, OthersWait
      <4>3. QED
        BY <4>2
    <3>3. QED
      BY <2>1, <3>1, <3>2
  <2>2. QED
    BY <2>1 DEF AllFiled
<1>2. QED
  BY <1>1 DEF FiledInv

LEMMA FilingKept ==
  ASSUME NEW v, FilingOf(v),
         \A f \in Files : Desk!Live(f) => Desk!Live(f)' /\ onb'[f].who = onb[f].who,
         \A f \in Files : onb[f].link = Nobody =>
           onb'[f].link = Nobody \/ \A i \in DOMAIN v : v[i].do # "readdress"
  PROVE  FilingOf(v)'
BY DEF FilingOf

LEMMA FilingRest ==
  ASSUME NEW c, NEW t, NEW r, NEW s, Now(c, t, r, s), FilingOf(t)
  PROVE  FilingOf(r)
<1>1. ASSUME NEW i \in DOMAIN r
      PROVE  /\ r[i].do \in {"lookup", "code", "enter", "link"} =>
                  r[i].f \in Files /\ Desk!Live(r[i].f) /\ onb[r[i].f].who = r[i].who
             /\ r[i].do = "readdress" => r[i].f \in Files /\ onb[r[i].f].link = Nobody
             /\ r[i].do = "employ" =>
                  i + 1 \in DOMAIN r /\ r[i + 1].do = "file" /\ r[i + 1].row.link = r[i].who
  <2>1. PICK j \in DOMAIN t : j = i + 1 /\ t[j] = r[i] /\ i \in Nat /\ j # 1
    BY <1>1 DEF Now
  <2>2. ASSUME r[i].do = "employ"
        PROVE  i + 1 \in DOMAIN r /\ r[i + 1].do = "file" /\ r[i + 1].row.link = r[i].who
    <3>1. PICK m \in DOMAIN t : m = j + 1 /\ t[m].do = "file" /\ t[m].row.link = r[i].who
      BY <2>1, <2>2 DEF FilingOf
    <3>2. m # 1 /\ m - 1 = i + 1
      BY <2>1, <3>1
    <3>3. i + 1 \in DOMAIN r
      <4>1. m - 1 \in DOMAIN r
        BY <3>2 DEF Now
      <4>2. QED
        BY <3>2, <4>1
    <3>4. r[i + 1] = t[m]
      BY <2>1, <3>1, <3>3 DEF Now
    <3>5. QED
      BY <3>1, <3>3, <3>4
  <2>3. QED
    BY <2>1, <2>2 DEF FilingOf
<1>2. QED
  BY <1>1 DEF FilingOf

LEMMA FiledBegins ==
  ASSUME DeskInv, DeskInv', Filing, FiledInv, UNCHANGED duty, NEW c \in Calls, Begins(c)
  PROVE  FiledInv'
<1>1. PICK op : /\ Fresh(op, doing'[c].todo) /\ OthersWait(c) /\ doing[c] = Desk!Idle
                /\ op \in duty.ops /\ UNCHANGED <<joiner, onb>>
  BY BeginRuns
<1>2. PICK v : v = doing'[c].todo
  OBVIOUS
<1>3. \A i \in DOMAIN v : v[i] \in Statement /\ Found(op, v[i])
  BY <1>1, <1>2, NextTyped DEF Fresh
<1>4. op \notin {"hire", "removeJoiner"}
  BY <1>1 DEF Filing, Desk!Unused
<1>5. FilingOf(v)
  <2>1. ASSUME NEW s \in Statement, Found(op, s)
        PROVE  /\ s.do \notin {"code", "enter", "link", "employ"}
               /\ s.do = "lookup" => s.f \in Files /\ Desk!Live(s.f) /\ onb[s.f].who = s.who
               /\ s.do = "readdress" => s.f \in Files /\ onb[s.f].link = Nobody
    BY <1>4, <2>1, JoiningParts DEF Found, Belongs, Desk!Live
  <2>2. QED
    BY <1>3, <2>1 DEF FilingOf
<1>6. FilingOf(v)'
  BY <1>1, <1>5 DEF FilingOf, Desk!Live
<1>7. \A k \in Calls : FilingOf(doing[k].todo)'
  <2>1. ASSUME NEW k \in Calls, k # c
        PROVE  FilingOf(doing[k].todo)'
    BY <1>1, <2>1 DEF OthersWait, FiledInv, FilingOf, Desk!Live
  <2>2. FilingOf(doing[c].todo)'
    BY <1>2, <1>6 DEF FilingOf
  <2>3. QED
    BY <2>1, <2>2
<1>8. \A p \in People : ~Covers(c, p)
  BY <1>1 DEF Covers, Desk!Idle
<1>9. OwnAddress'
  BY <1>1 DEF FiledInv, OwnAddress
<1>10. \A p \in People : /\ Desk!FileOf(p)' = Desk!FileOf(p)
                         /\ (Desk!Employed(p)' <=> Desk!Employed(p))
  BY <1>1 DEF Desk!FileOf, Desk!Live, Desk!Employed
<1>11. QED
  BY <1>1, <1>7, <1>8, <1>9, <1>10, FiledNext

(* Nobody's request goes: what the others are to do stays as it was found. *)
LEMMA FiledOthers ==
  ASSUME FiledInv, Filing, NEW c \in Calls, OthersWait(c), NEW k \in Calls, k # c,
         \A f \in Files : Desk!Live(f) => Desk!Live(f)' /\ onb'[f].who = onb[f].who,
         \A f \in Files : onb[f].link = Nobody =>
           \/ onb'[f].link = Nobody
           \/ \A i \in DOMAIN doing[k].todo : doing[k].todo[i].do # "readdress"
  PROVE  FilingOf(doing[k].todo)'
<1>1. PICK v : v = doing[k].todo /\ v = doing'[k].todo
  BY DEF OthersWait
<1>2. FilingOf(v)
  BY <1>1 DEF FiledInv
<1>3. FilingOf(v)'
  BY <1>1, <1>2, FilingKept
<1>4. QED
  BY <1>1, <1>3 DEF FilingOf

LEMMA FiledSame ==
  ASSUME Filing, FiledInv, NEW c \in Calls, OthersWait(c), UNCHANGED onb,
         \A p \in People : Desk!Employed(p)' /\ Desk!FileOf(p) = {} =>
           Covers(c, p)' \/ (Desk!Employed(p) /\ ~Covers(c, p)),
         FilingOf(doing'[c].todo)
  PROVE  FiledInv'
<1>1. \A p \in People : Desk!FileOf(p)' = Desk!FileOf(p)
  BY DEF Desk!FileOf, Desk!Live
<1>2. OwnAddress'
  BY DEF FiledInv, OwnAddress
<1>3. FilingOf(doing[c].todo)'
  BY DEF FilingOf, Desk!Live
<1>4. \A k \in Calls : k # c => FilingOf(doing[k].todo)'
  BY FiledOthers DEF Desk!Live
<1>5. QED
  BY <1>1, <1>2, <1>3, <1>4, FiledNext

LEMMA FiledLooks ==
  ASSUME DeskInv, CallsInv, Filing, FiledInv, NEW c \in Calls, Looks(c)
  PROVE  FiledInv'
<1>1. PICK t, r, s : /\ Now(c, t, r, s) /\ OthersWait(c) /\ UNCHANGED <<joiner, onb>>
                     /\ doing'[c].todo = <<>> \/ Ahead(s, doing'[c].todo)
                     /\ s.do \in {"lookup", "code", "sheet", "row", "pdf"}
  BY LookRuns
<1>2. PICK v : v = doing'[c].todo
  OBVIOUS
<1>3. v = <<>> \/ Ahead(s, v)
  BY <1>1, <1>2
<1>4. s.do \in {"lookup", "code"} =>
        s.f \in Files /\ Desk!Live(s.f) /\ onb[s.f].who = s.who
  BY <1>1 DEF Now, FiledInv, FilingOf
<1>5. FilingOf(v)
  <2>1. CASE s.do \in {"lookup", "code"} /\ v # <<>>
    BY <1>3, <1>4, <2>1 DEF Ahead, FilingOf
  <2>2. CASE s.do = "row" /\ \E p \in People : RowOf(p, s.code, v)
    <3>1. PICK p \in People : RowOf(p, s.code, v)
      BY <2>2
    <3>2. Desk!Own(p).link = p
      BY DEF Desk!Own
    <3>3. QED
      BY <3>1, <3>2 DEF RowOf, FilingOf
  <2>3. CASE v = <<>> \/ s.do \in {"sheet", "pdf"}
             \/ (s.do = "row" /\ DOMAIN v \subseteq {1} /\ (1 \in DOMAIN v => v[1].do = "row"))
    BY <1>3, <2>3 DEF Ahead, FilingOf
  <2>4. QED
    BY <1>1, <1>3, <2>1, <2>2, <2>3 DEF Ahead
<1>6. FilingOf(doing'[c].todo)
  BY <1>2, <1>5
<1>7. \A p \in People : ~Covers(c, p)
  BY <1>1 DEF Covers, Now
<1>8. \A p \in People : Desk!Employed(p)' <=> Desk!Employed(p)
  BY <1>1 DEF Desk!Employed
<1>9. QED
  BY <1>1, <1>6, <1>7, <1>8, FiledSame

LEMMA FiledEnters ==
  ASSUME DeskInv, CallsInv, Filing, FiledInv, NEW c \in Calls, Desk!EnterEmployee(c)
  PROVE  FiledInv'
<1>1. PICK t, r, s :
        /\ Now(c, t, r, s) /\ s.do = "enter" /\ s.who \in People /\ OthersWait(c)
        /\ UNCHANGED onb
        /\ \/ UNCHANGED <<login, joiner>> /\ doing'[c].todo = <<>>
           \/ /\ joiner' = [joiner EXCEPT ![s.who] = [code |-> s.code, st |-> s.st,
                                                       filled |-> FALSE]]
              /\ \/ s.f = 0 /\ doing'[c].todo = <<>>
                 \/ /\ s.f \in Files /\ DOMAIN doing'[c].todo = {1}
                    /\ doing'[c].todo[1].do = "link" /\ doing'[c].todo[1].f = s.f
                    /\ doing'[c].todo[1].who = s.who
  BY EnterRuns
<1>2. s.f \in Files /\ Desk!Live(s.f) /\ onb[s.f].who = s.who
  BY <1>1 DEF Now, FiledInv, FilingOf
<1>3. s.f # 0
  BY <1>2, DeskDuty DEF DeskInv, DeskTyped
<1>4. PICK v : v = doing'[c].todo
  OBVIOUS
<1>5. v = <<>> \/ (DOMAIN v = {1} /\ v[1].do = "link" /\ v[1].f = s.f /\ v[1].who = s.who)
  BY <1>1, <1>4
<1>6. FilingOf(v)
  BY <1>2, <1>5 DEF FilingOf
<1>7. FilingOf(doing'[c].todo)
  BY <1>4, <1>6
<1>8. \A p \in People : ~Covers(c, p)
  BY <1>1 DEF Covers, Now
<1>9. ASSUME NEW p \in People, Desk!Employed(p)'
      PROVE  Covers(c, p)' \/ Desk!Employed(p)
  <2>1. CASE UNCHANGED joiner
    BY <1>9, <2>1 DEF Desk!Employed
  <2>2. CASE ~UNCHANGED joiner /\ p # s.who
    <3>1. joiner'[p] = joiner[p]
      BY <1>1, <2>2 DEF DeskInv, DeskTyped, Desk!JoiningTypeOK
    <3>2. QED
      BY <1>9, <3>1 DEF Desk!Employed
  <2>3. CASE ~UNCHANGED joiner /\ p = s.who
    BY <1>1, <1>3, <2>3 DEF Covers
  <2>4. QED
    BY <2>1, <2>2, <2>3
<1>10. QED
  BY <1>1, <1>7, <1>8, <1>9, FiledSame

LEMMA SecondNext ==
  ASSUME NEW c, NEW t, NEW r, NEW s, Now(c, t, r, s), 2 \in DOMAIN t
  PROVE  1 \in DOMAIN r /\ r[1] = t[2]
<1>1. PICK j \in DOMAIN t : j = 2
  OBVIOUS
<1>2. j - 1 = 1 /\ j # 1
  BY <1>1
<1>3. 1 \in DOMAIN r
  <2>1. j - 1 \in DOMAIN r
    BY <1>2 DEF Now
  <2>2. QED
    BY <1>2, <2>1
<1>4. 1 + 1 = j
  BY <1>1
<1>5. QED
  BY <1>1, <1>3, <1>4 DEF Now

(* What a person is written leaves employees where they were; a row's       *)
(* request follows its employee.                                           *)
LEMMA FiledPeople ==
  ASSUME DeskInv, CallsInv, Filing, FiledInv, NEW c \in Calls, NEW t, NEW r, NEW s,
         Now(c, t, r, s), OthersWait(c), PersonWrote(c, s), doing'[c].todo \in {r, <<>>},
         Desk!Done(c) => doing'[c].todo = r
  PROVE  FiledInv'
<1>1. s.do \in OnPeople /\ t[1] = s /\ 1 \in DOMAIN t /\ t = doing[c].todo /\ UNCHANGED onb
  BY DEF PersonWrote, Now
<1>2. \A p \in People : ~Covers(c, p)
  BY <1>1 DEF Covers, OnPeople
<1>3. FilingOf(t)
  BY <1>1 DEF FiledInv
<1>4. FilingOf(r) /\ FilingOf(<<>>)
  <2>1. FilingOf(r)
    BY <1>3, FilingRest
  <2>2. FilingOf(<<>>)
    BY DEF FilingOf
  <2>3. QED
    BY <2>1, <2>2
<1>5. FilingOf(doing'[c].todo)
  BY <1>4
<1>6. ASSUME NEW p \in People, Desk!Employed(p)'
      PROVE  Covers(c, p)' \/ Desk!Employed(p)
  <2>1. CASE UNCHANGED joiner
    BY <1>6, <2>1 DEF Desk!Employed
  <2>2. CASE ~UNCHANGED joiner /\ p # s.who
    <3>1. joiner'[p] = joiner[p]
      BY <2>2 DEF PersonWrote, OnlyPerson
    <3>2. QED
      BY <1>6, <3>1 DEF Desk!Employed
  <2>3. CASE ~UNCHANGED joiner /\ p = s.who /\ s.do = "employ"
    <3>1. 2 \in DOMAIN t /\ t[2].do = "file" /\ t[2].row.link = p
      BY <1>1, <1>3, <2>3 DEF FilingOf
    <3>2. doing'[c].todo = r
      BY <2>3 DEF PersonWrote
    <3>3. 1 \in DOMAIN r /\ r[1] = t[2]
      BY <3>1, SecondNext
    <3>4. QED
      BY <3>1, <3>2, <3>3 DEF Covers
  <2>4. CASE ~UNCHANGED joiner /\ p = s.who /\ s.do = "status"
    <3>1. Employing(t)
      BY <1>1 DEF DeskInv, EmployedInv
    <3>2. QED
      BY <1>1, <2>4, <3>1 DEF Employing
  <2>5. CASE ~UNCHANGED joiner /\ p = s.who /\ s.do \notin {"status", "employ"}
    <3>1. joiner'[p].st = joiner[p].st
      BY <2>5 DEF PersonWrote, PersonWritten
    <3>2. QED
      BY <1>6, <3>1 DEF Desk!Employed
  <2>6. QED
    BY <2>1, <2>2, <2>3, <2>4, <2>5
<1>7. QED
  BY <1>1, <1>2, <1>5, <1>6, FiledSame

LEMMA FiledFiles ==
  ASSUME DeskInv, CallsInv, Filing, FiledInv, NEW c \in Calls, NEW t, NEW r, NEW s,
         Now(c, t, r, s), OthersWait(c), FileWrote(c, s), doing'[c].todo \in {r, <<>>}
  PROVE  FiledInv'
<1>1. /\ s.do \in OnFiles /\ t[1] = s /\ 1 \in DOMAIN t /\ t = doing[c].todo
      /\ UNCHANGED <<login, joiner>> /\ Busy(c)
  BY DEF FileWrote, Now
<1>2. \A p \in People : Desk!Employed(p)' <=> Desk!Employed(p)
  BY <1>1 DEF Desk!Employed
<1>3. FilingOf(t)
  BY <1>1 DEF FiledInv
<1>4. FilingOf(r) /\ FilingOf(<<>>)
  <2>1. FilingOf(r)
    BY <1>3, FilingRest
  <2>2. FilingOf(<<>>)
    BY DEF FilingOf
  <2>3. QED
    BY <2>1, <2>2
<1>5. PICK op : /\ op = doing[c].op /\ op \notin {"hire", "removeJoiner"} /\ Belongs(op, s)
                /\ \A i \in DOMAIN r : Belongs(op, r[i])
  <2>1. doing[c].op \in duty.ops
    BY <1>1 DEF CallsInv
  <2>2. QED
    BY <1>1, <2>1 DEF CallsInv, Filing, Desk!Unused, Now
<1>6. s \in Statement
  BY DEF Now
<1>7. ASSUME Desk!Fails(c), UNCHANGED onb,
             s.do = "file" => s.row.link # Nobody /\ Desk!FileOf(s.row.link) # {},
             s.do = "link" => ~Desk!Live(s.f) \/ ~(Desk!FileOf(s.who) \subseteq {s.f})
      PROVE  FiledInv'
  <2>1. s.do = "link" => Desk!FileOf(s.who) # {}
    BY <1>1, <1>3, <1>7 DEF FilingOf
  <2>2. \A p \in People : Covers(c, p) => Desk!FileOf(p) # {}
    BY <1>1, <1>7, <2>1 DEF Covers
  <2>3. FilingOf(doing'[c].todo)
    BY <1>4
  <2>4. QED
    BY <1>2, <1>7, <2>2, <2>3, FiledSame
<1>8. ASSUME NEW f \in Files, OnlyFile(f), RequestWritten(s, f, onb[f], onb'[f])
      PROVE  FiledInv'
  <2>1. PICK was, new : was = onb[f] /\ new = onb'[f]
    OBVIOUS
  <2>2. RequestWritten(s, f, was, new)
    BY <1>8, <2>1
  <2>3. s.do # "unfile"
    BY <1>5 DEF Belongs
  <2>4. /\ s.do = "file" => /\ was.st = "none" /\ new = s.row /\ s.row \in Filed
                            /\ new.st \in {"PENDING", "ACCOUNT_CREATED"}
                            /\ new.link \in {new.who, Nobody}
        /\ s.do = "readdress" =>
             f = s.f /\ new.st = was.st /\ was.link = Nobody /\ new.link = Nobody
        /\ s.do = "mark" => f = s.f /\ new.st \in Marks /\ new.link = was.link /\ new.who = was.who
        /\ s.do = "link" =>
             /\ f = s.f /\ new.st = "ACCOUNT_CREATED" /\ new.link = s.who
             /\ new.who = was.who /\ was.who = s.who
    <3>1. CASE s.do = "file"
      <4>1. was.st = "none" /\ new = s.row /\ s.row \in Filed
        BY <1>6, <2>2, <3>1, JoiningParts DEF RequestWritten
      <4>2. QED
        BY <3>1, <4>1 DEF Filed
    <3>2. CASE s.do = "readdress"
      <4>1. f = s.f /\ new.st = was.st /\ new.link = was.link
        BY <2>2, <3>2 DEF RequestWritten
      <4>2. onb[s.f].link = Nobody
        BY <1>1, <1>3, <3>2 DEF FilingOf
      <4>3. QED
        BY <2>1, <3>2, <4>1, <4>2
    <3>3. CASE s.do = "mark"
      BY <1>6, <2>2, <3>3, JoiningParts DEF RequestWritten
    <3>4. CASE s.do = "link"
      <4>1. f = s.f /\ new.st = "ACCOUNT_CREATED" /\ new.link = s.who /\ new.who = was.who
        BY <2>2, <3>4 DEF RequestWritten
      <4>2. onb[s.f].who = s.who
        BY <1>1, <1>3, <3>4 DEF FilingOf
      <4>3. QED
        BY <2>1, <3>4, <4>1, <4>2
    <3>5. QED
      BY <3>1, <3>2, <3>3, <3>4
  <2>5. s.do \in {"file", "readdress", "mark", "link"}
    BY <1>1, <2>3 DEF OnFiles
  <2>6. OwnAddress'
    <3>1. new.link # Nobody => new.link = new.who
      BY <2>1, <2>4, <2>5 DEF FiledInv, OwnAddress
    <3>2. QED
      BY <1>8, <2>1, <3>1 DEF FiledInv, OwnAddress, OnlyFile
  <2>7. Desk!Live(f) => Desk!Live(f)' /\ (s.do # "readdress" => onb'[f].who = onb[f].who)
    BY <2>1, <2>4, <2>5 DEF Desk!Live, Marks
  <2>8. \A g \in Files : Desk!Live(g) =>
          Desk!Live(g)' /\ (s.do # "readdress" => onb'[g].who = onb[g].who)
    BY <1>8, <2>7 DEF OnlyFile, Desk!Live
  <2>9. \A p \in People : Desk!FileOf(p) # {} => Desk!FileOf(p)' # {}
    <3>1. ASSUME NEW p \in People, NEW g \in Desk!FileOf(p)
          PROVE  g \in Desk!FileOf(p)'
      <4>1. p # Nobody
        BY DeskDuty DEF DeskInv, DeskTyped
      <4>2. Desk!Live(g)' /\ g \in Files /\ onb[g].link = p /\ Desk!Live(g)
        BY <2>8, <3>1 DEF Desk!FileOf
      <4>3. onb[g].who = p
        BY <4>1, <4>2 DEF FiledInv, OwnAddress
      <4>4. onb'[g].link = p
        <5>1. CASE g # f
          BY <1>8, <4>2, <5>1 DEF OnlyFile
        <5>2. CASE g = f
          BY <2>1, <2>4, <2>5, <4>1, <4>2, <4>3, <5>2 DEF Desk!Live
        <5>3. QED
          BY <5>1, <5>2
      <4>5. QED
        BY <4>2, <4>4 DEF Desk!FileOf
    <3>2. QED
      BY <3>1
  <2>10. ASSUME NEW p \in People, Covers(c, p)
         PROVE  Desk!FileOf(p)' # {}
    <3>1. new.link = p /\ Desk!Live(f)'
      BY <1>1, <2>1, <2>4, <2>10 DEF Covers, Desk!Live
    <3>2. QED
      BY <2>1, <3>1 DEF Desk!FileOf
  <2>11. ASSUME NEW k \in Calls
         PROVE  FilingOf(doing[k].todo)'
    <3>1. CASE s.do # "readdress" /\ k # c
      <4>1. ASSUME NEW i \in DOMAIN doing[k].todo, doing[k].todo[i].do = "readdress", s.do = "link"
            PROVE  FALSE
        <5>1. Busy(k)
          BY <4>1 DEF Busy, Desk!Idle
        <5>2. doing[k].op = "correctJoiner"
          BY <4>1, <5>1 DEF CallsInv, Belongs
        <5>3. QED
          BY <1>1, <3>1, <5>1, <5>2 DEF Filing, CallsInv
      <4>2. \A g \in Files : onb[g].link = Nobody =>
              \/ onb'[g].link = Nobody
              \/ \A i \in DOMAIN doing[k].todo : doing[k].todo[i].do # "readdress"
        <5>1. CASE s.do = "link"
          BY <4>1, <5>1
        <5>2. CASE s.do = "mark"
          BY <1>8, <2>1, <2>4, <5>2 DEF OnlyFile
        <5>3. CASE s.do = "file"
          <6>1. ASSUME NEW i \in DOMAIN doing[k].todo, doing[k].todo[i].do = "readdress"
                PROVE  FALSE
            <7>1. Busy(k)
              BY <6>1 DEF Busy, Desk!Idle
            <7>2. doing[k].op = "correctJoiner"
              BY <6>1, <7>1 DEF CallsInv, Belongs
            <7>3. QED
              BY <1>1, <3>1, <7>1, <7>2 DEF Filing, CallsInv
          <6>2. QED
            BY <6>1
        <5>4. QED
          BY <2>5, <3>1, <5>1, <5>2, <5>3
      <4>3. QED
        BY <2>8, <3>1, <4>2, FiledOthers
    <3>2. CASE s.do = "readdress" /\ k # c
      <4>1. op = "correctJoiner"
        BY <1>5, <3>2 DEF Belongs
      <4>2. doing[k].todo = <<>>
        BY <1>1, <1>5, <3>2, <4>1, RunsAlone DEF Filing
      <4>3. doing'[k].todo = <<>>
        BY <3>2, <4>2 DEF OthersWait
      <4>4. QED
        BY <4>3 DEF FilingOf
    <3>3. CASE k = c
      <4>1. FilingOf(r)'
        <5>1. CASE s.do = "readdress"
          <6>1. \A i \in DOMAIN r : r[i].do \notin {"lookup", "code", "enter", "link", "employ"}
            BY <1>5, <5>1 DEF Belongs
          <6>2. \A i \in DOMAIN r : r[i].do = "readdress" =>
                  r[i].f \in Files /\ onb'[r[i].f].link = Nobody
            BY <1>4, <1>8, <2>1, <2>4, <5>1 DEF FilingOf, OnlyFile
          <6>3. QED
            BY <6>1, <6>2 DEF FilingOf
        <5>2. CASE s.do # "readdress"
          <6>1. s.do \in {"file", "mark", "link"} => op # "correctJoiner"
            BY <1>5, <1>6, JoiningParts DEF Belongs, Marks
          <6>2. \A i \in DOMAIN r : r[i].do # "readdress"
            BY <1>5, <2>5, <5>2, <6>1 DEF Belongs
          <6>3. QED
            BY <1>4, <2>8, <5>2, <6>2, FilingKept
        <5>3. QED
          BY <5>1, <5>2
      <4>2. FilingOf(<<>>)'
        BY DEF FilingOf
      <4>3. CASE doing'[c].todo = r
        BY <3>3, <4>1, <4>3 DEF FilingOf
      <4>4. CASE doing'[c].todo = <<>>
        BY <3>3, <4>2, <4>4 DEF FilingOf
      <4>5. QED
        BY <4>3, <4>4
    <3>4. QED
      BY <3>1, <3>2, <3>3
  <2>12. QED
    BY <1>2, <2>6, <2>9, <2>10, <2>11, FiledNext
<1>9. QED
  BY <1>7, <1>8 DEF FileWrote

LEMMA FiledStep ==
  ASSUME DeskInv, DeskInv', CallsInv, FiledInv, [StaffNext]_staff
  PROVE  FiledInv'
<1>1. CASE UNCHANGED <<duty, office>>
  BY <1>1 DEF office, FiledInv, Filing, AllFiled, OwnAddress, FilingOf, Covers, Desk!FileOf,
       Desk!Live, Desk!Employed, Desk!Unused, Desk!NotDuring, Desk!Serial
<1>2. CASE Crash
  BY <1>2 DEF Crash, FiledInv, Filing
<1>3. ASSUME UNCHANGED <<duty, crashed>>, ~Filing
      PROVE  FiledInv'
  BY <1>3 DEF FiledInv, Filing, Desk!Unused, Desk!NotDuring, Desk!Serial
<1>4. ASSUME UNCHANGED <<duty, crashed>>, Filing, NEW c \in Calls, JoiningRuns(c)
      PROVE  FiledInv'
  BY <1>4, JoinRuns, FiledFiles, FiledPeople
<1>5. ASSUME UNCHANGED <<duty, crashed>>, Filing, NEW c \in Calls, Handles(c)
      PROVE  FiledInv'
  <2>1. PICK t, r, s : /\ Now(c, t, r, s) /\ OthersWait(c) /\ UNCHANGED <<joiner, onb>>
                       /\ doing'[c].todo \in {r, <<>>}
                       /\ s.do \in OnPaper \cup {"attach"} \cup OnLetters
    BY <1>5, HandleRuns DEF PaperWrote
  <2>2. FilingOf(t)
    BY <1>5, <2>1 DEF Now, FiledInv
  <2>3. FilingOf(r) /\ FilingOf(<<>>)
    <3>1. FilingOf(r)
      BY <2>1, <2>2, FilingRest
    <3>2. FilingOf(<<>>)
      BY DEF FilingOf
    <3>3. QED
      BY <3>1, <3>2
  <2>4. FilingOf(doing'[c].todo)
    BY <2>1, <2>3
  <2>5. \A p \in People : ~Covers(c, p)
    BY <2>1 DEF Covers, Now, OnPaper, OnLetters
  <2>6. \A p \in People : Desk!Employed(p)' <=> Desk!Employed(p)
    BY <2>1 DEF Desk!Employed
  <2>7. QED
    BY <1>5, <2>1, <2>4, <2>5, <2>6, FiledSame
<1>6. ASSUME UNCHANGED <<duty, crashed>>, Filing, NEW c \in Calls,
             Begins(c) \/ Looks(c) \/ Desk!EnterEmployee(c)
      PROVE  FiledInv'
  BY <1>6, FiledBegins, FiledLooks, FiledEnters
<1>7. QED
  BY <1>1, <1>2, <1>3, <1>4, <1>5, <1>6, DeskMoves DEF Joins

-----------------------------------------------------------------------------
(* One call at a time, each run to its end.                                *)
Turn == Desk!Serial /\ ~crashed
Unhired == Desk!Unused({"hire", "bulk", "removeJoiner"})
Stands == Desk!Unused({"finalReject"})
Decided == Desk!Unused({"status", "finalReject"})

(* Requests and the employees they are linked to: an approval still finds  *)
(* the request it read, and what HR or the joiner marks has its employee.  *)
LinksOf(t) ==
  \A i \in DOMAIN t : LET s == t[i] IN
    /\ s.do \in {"lookup", "code", "enter", "link"} =>
         s.f = 0 \/ (s.f \in Files /\ onb[s.f].st = "PENDING" /\ onb[s.f].who = s.who)
    /\ s.do = "readdress" => s.f \in Files /\ onb[s.f].link = Nobody
    /\ s.do \in {"link", "readdress"} => \A j \in DOMAIN t : j = 1
    /\ s.do = "mark" /\ (s.st = "AWAITING_APPROVAL"
                         \/ (Stands /\ s.st \in {"PROFILE_COMPLETE", "COMPLETED"})) =>
         onb[s.f].link # Nobody
LinkedRow(row) ==
  /\ row.link # Nobody => row.link = row.who
  /\ row.st = "PENDING" => row.link = Nobody
  /\ Stands /\ row.st \in {"PROFILE_COMPLETE", "AWAITING_APPROVAL", "COMPLETED"} =>
       row.link # Nobody
  /\ Stands /\ Desk!Unused({"reinitiate"}) /\ row.st = "ACCOUNT_CREATED" => row.link # Nobody
LinksInv == Turn =>
  /\ \A f \in Files : Desk!Live(f) => LinkedRow(onb[f])
  /\ \A c \in Calls : LinksOf(doing[c].todo)

(* A complete profile is filled in.                                        *)
ProfileOf(t) ==
  \A i \in DOMAIN t : LET s == t[i] IN
    /\ s.do = "mark" /\ s.st = "PROFILE_COMPLETE" =>
         \/ joiner[onb[s.f].link].filled
         \/ i = 2 /\ t[1].do = "fill" /\ t[1].to /\ t[1].who = onb[s.f].link
    /\ s.do = "fill" /\ ~s.to => \A f \in Desk!FileOf(s.who) :
         \/ onb[f].st = "ACCOUNT_CREATED"
         \/ i = 2 /\ t[1].do = "mark" /\ t[1].f = f /\ t[1].st = "ACCOUNT_CREATED"
ProfileInv == Turn /\ Stands =>
  /\ \A f \in Files : Desk!Live(f) /\ onb[f].st = "PROFILE_COMPLETE" =>
       joiner[onb[f].link].filled
  /\ \A c \in Calls : ProfileOf(doing[c].todo)

(* Who has HR's final word is on probation no more.                        *)
FinalOf(t) ==
  \A i \in DOMAIN t : LET s == t[i] IN
    s.do = "mark" /\ s.st = "COMPLETED" =>
      /\ i = 1 /\ 2 \in DOMAIN t /\ t[2].do = "status" /\ t[2].st = "ACTIVE"
      /\ t[2].who = onb[s.f].link
Activates(c, p) == 1 \in DOMAIN doing[c].todo /\
  LET s == doing[c].todo[1] IN s.do = "status" /\ s.who = p /\ s.st = "ACTIVE"
FinalInv == Turn /\ Decided =>
  /\ \A f \in Files : Desk!Live(f) /\ onb[f].st = "COMPLETED" =>
       \/ joiner[onb[f].link].st # "ON_PROBATION"
       \/ \E c \in Calls : Activates(c, onb[f].link)
  /\ \A c \in Calls : FinalOf(doing[c].todo)

(* Where every employee comes from a request, no two requests are of one   *)
(* address, and nobody with a request to be approved is employed.          *)
WaitingOf(t) ==
  \A i \in DOMAIN t : LET s == t[i] IN
    /\ s.do = "readdress" => \A g \in Files : Desk!Live(g) => onb[g].who # s.who
    /\ s.do = "file" => \A g \in Files : Desk!Live(g) => onb[g].who # s.row.who
    /\ s.do \in {"file", "readdress"} => \A j \in DOMAIN t : j = 1
Links(c, f) == 1 \in DOMAIN doing[c].todo /\
  LET s == doing[c].todo[1] IN s.do = "link" /\ s.f = f
WaitingInv == Turn /\ Unhired =>
  /\ \A f \in Files : onb[f].st = "PENDING" =>
       ~Desk!Employed(onb[f].who) \/ \E c \in Calls : Links(c, f)
  /\ \A f, g \in Files : Desk!Live(f) /\ Desk!Live(g) /\ onb[f].who = onb[g].who => f = g
  /\ \A c \in Calls : WaitingOf(doing[c].todo)

(* A sheet counts on from a code nobody has, and gives each login it makes  *)
(* its employee.                                                           *)
CodesOf(t) ==
  \A i \in DOMAIN t : LET s == t[i] IN
    /\ s.do \in {"row", "employ"} => \A n \in Desk!Codes : n < s.code
    /\ s.do = "employ" =>
         /\ \A j \in DOMAIN t : t[j].do = "row" => s.code < t[j].code
         /\ \/ i = 1 /\ login[s.who] = "bare"
            \/ i = 2 /\ t[1].do = "login" /\ t[1].who = s.who
    /\ s.do = "login" => /\ i = 1 /\ login[s.who] = "none"
                         /\ 2 \in DOMAIN t /\ t[2].do = "employ" /\ t[2].who = s.who
Employs(c, p) == 1 \in DOMAIN doing[c].todo /\
  LET s == doing[c].todo[1] IN s.do = "employ" /\ s.who = p
CodesInv == Turn =>
  /\ \A p \in People : login[p] = "bare" => \E c \in Calls : Employs(c, p)
  /\ \A c \in Calls : CodesOf(doing[c].todo)

LEMMA OthersIdle ==
  ASSUME DeskInv, Desk!Serial, NEW c \in Calls, Busy(c) \/ c \in duty.calls, OthersWait(c)
  PROVE  \A k \in Calls : k # c => DOMAIN doing[k].todo = {} /\ DOMAIN doing'[k].todo = {}
BY SoleCall DEF OthersWait

(* A statement that leaves something to do did not fail.                   *)
LEMMA AllDone ==
  ASSUME NEW c, NEW r, doing'[c].todo \in {r, <<>>}, Desk!Fails(c) => doing'[c].todo = <<>>,
         doing'[c].todo # <<>>
  PROVE  doing'[c].todo = r /\ ~Desk!Fails(c)
OBVIOUS

LEMMA LinksNext ==
  ASSUME DeskInv, LinksInv, Turn, UNCHANGED duty, NEW c \in Calls,
         Busy(c) \/ c \in duty.calls, OthersWait(c),
         \A f \in Files : Desk!Live(f)' => LinkedRow(onb'[f]), LinksOf(doing[c].todo)'
  PROVE  LinksInv'
<1>1. ASSUME NEW k \in Calls, k # c
      PROVE  LinksOf(doing[k].todo)'
  <2>1. DOMAIN doing'[k].todo = {}
    BY <1>1, OthersIdle DEF Turn
  <2>2. QED
    BY <2>1 DEF LinksOf
<1>2. \A f \in Files : Desk!Live(f)' => LinkedRow(onb[f])'
  BY DEF LinkedRow, Stands, Desk!Unused
<1>3. QED
  BY <1>1, <1>2 DEF LinksInv

LEMMA LinksRest ==
  ASSUME NEW c, NEW t, NEW r, NEW s, Now(c, t, r, s), LinksOf(t)
  PROVE  LinksOf(r) /\ \A i \in DOMAIN r : r[i].do \notin {"link", "readdress"}
<1>1. ASSUME NEW i \in DOMAIN r
      PROVE  /\ r[i].do \notin {"link", "readdress"}
             /\ r[i].do \in {"lookup", "code", "enter"} =>
                  \/ r[i].f = 0
                  \/ r[i].f \in Files /\ onb[r[i].f].st = "PENDING" /\ onb[r[i].f].who = r[i].who
             /\ r[i].do = "mark" /\ (r[i].st = "AWAITING_APPROVAL"
                         \/ (Stands /\ r[i].st \in {"PROFILE_COMPLETE", "COMPLETED"})) =>
                  onb[r[i].f].link # Nobody
  <2>1. PICK j \in DOMAIN t : j = i + 1 /\ t[j] = r[i] /\ j # 1
    BY <1>1 DEF Now
  <2>2. QED
    BY <2>1 DEF LinksOf
<1>2. QED
  BY <1>1 DEF LinksOf

(* What is left stays right where the requests it names stay as they were. *)
LEMMA LinksKept ==
  ASSUME NEW v, LinksOf(v), UNCHANGED duty,
         \A i \in DOMAIN v :
           /\ v[i].do \in {"lookup", "code", "enter", "link"} /\ v[i].f \in Files =>
                onb'[v[i].f].st = onb[v[i].f].st /\ onb'[v[i].f].who = onb[v[i].f].who
           /\ v[i].do \in {"readdress", "mark"} => onb'[v[i].f].link = onb[v[i].f].link
  PROVE  LinksOf(v)'
BY DEF LinksOf, Stands, Desk!Unused

LEMMA LinksSame ==
  ASSUME DeskInv, LinksInv, Turn, UNCHANGED <<duty, onb>>, NEW c \in Calls,
         Busy(c) \/ c \in duty.calls, OthersWait(c), LinksOf(doing'[c].todo)
  PROVE  LinksInv'
<1>1. PICK v : v = doing'[c].todo
  OBVIOUS
<1>2. LinksOf(v)'
  BY <1>1, LinksKept
<1>3. LinksOf(doing[c].todo)'
  BY <1>1, <1>2 DEF LinksOf
<1>4. \A f \in Files : Desk!Live(f)' => LinkedRow(onb'[f])
  BY DEF LinksInv, Desk!Live
<1>5. QED
  BY <1>3, <1>4, LinksNext

LEMMA LinksBegins ==
  ASSUME DeskInv, DeskInv', LinksInv, Turn, UNCHANGED duty, NEW c \in Calls, Begins(c)
  PROVE  LinksInv'
<1>1. PICK op : /\ Fresh(op, doing'[c].todo) /\ OthersWait(c) /\ c \in duty.calls
                /\ op \in duty.ops /\ UNCHANGED onb
  BY BeginRuns
<1>2. PICK v : v = doing'[c].todo
  OBVIOUS
<1>3. Paired(op, v) /\ \A i \in DOMAIN v : v[i] \in Statement /\ Found(op, v[i])
  BY <1>1, <1>2, NextTyped DEF Fresh
<1>4. ASSUME NEW i \in DOMAIN v
      PROVE  /\ v[i].do \in {"lookup", "code", "enter"} =>
                  \/ v[i].f = 0
                  \/ v[i].f \in Files /\ onb[v[i].f].st = "PENDING" /\ onb[v[i].f].who = v[i].who
             /\ v[i].do # "link"
             /\ v[i].do = "readdress" =>
                  v[i].f \in Files /\ onb[v[i].f].link = Nobody /\ op = "correctJoiner"
  <2>1. PICK s \in Statement : s = v[i] /\ Found(op, s)
    BY <1>3, <1>4
  <2>2. QED
    BY <2>1, JoiningParts DEF Found, Belongs
<1>5. ASSUME NEW i \in DOMAIN v, v[i].do = "mark",
             \/ v[i].st = "AWAITING_APPROVAL"
             \/ Stands /\ v[i].st \in {"PROFILE_COMPLETE", "COMPLETED"}
      PROVE  onb[v[i].f].link # Nobody
  <2>1. PICK s \in Statement : s = v[i] /\ Found(op, s) /\ s.f \in Files
    BY <1>3, <1>5, JoiningParts
  <2>2. CASE s.st = "AWAITING_APPROVAL"
    BY <1>5, <2>1, <2>2 DEF Found
  <2>3. CASE Stands /\ s.st = "PROFILE_COMPLETE"
    <3>1. op = "profile"
      BY <1>1, <1>5, <2>1, <2>3 DEF Found, Belongs, Stands, Desk!Unused
    <3>2. QED
      BY <1>3, <1>5, <2>1, <3>1 DEF Paired
  <2>4. CASE Stands /\ s.st = "COMPLETED"
    <3>1. onb[s.f].st \in {"AWAITING_APPROVAL", "PROFILE_COMPLETE"}
      BY <1>5, <2>1, <2>4 DEF Found
    <3>2. QED
      BY <2>1, <2>4, <3>1 DEF LinksInv, LinkedRow, Desk!Live
  <2>5. QED
    BY <1>5, <2>1, <2>2, <2>3, <2>4
<1>6. \A i \in DOMAIN v : v[i].do \in {"link", "readdress"} => \A j \in DOMAIN v : j = 1
  BY <1>3, <1>4 DEF Paired, Long
<1>7. LinksOf(v)
  BY <1>4, <1>5, <1>6 DEF LinksOf
<1>8. QED
  BY <1>1, <1>2, <1>7, LinksSame

LEMMA LinksLooks ==
  ASSUME DeskInv, LinksInv, Turn, UNCHANGED duty, NEW c \in Calls, Looks(c)
  PROVE  LinksInv'
<1>1. PICK t, r, s : /\ Now(c, t, r, s) /\ OthersWait(c) /\ UNCHANGED onb
                     /\ doing'[c].todo = <<>> \/ Ahead(s, doing'[c].todo)
                     /\ s.do \in {"lookup", "code", "sheet", "row", "pdf"}
  BY LookRuns
<1>2. PICK v : v = doing'[c].todo
  OBVIOUS
<1>3. v = <<>> \/ Ahead(s, v)
  BY <1>1, <1>2
<1>4. s.do \in {"lookup", "code"} =>
        s.f = 0 \/ (s.f \in Files /\ onb[s.f].st = "PENDING" /\ onb[s.f].who = s.who)
  BY <1>1 DEF Now, LinksInv, LinksOf
<1>5. \A i \in DOMAIN v : v[i].do \notin {"link", "readdress", "mark"}
  BY <1>3, AheadKinds
<1>6. ASSUME NEW i \in DOMAIN v, v[i].do \in {"lookup", "code", "enter"}
      PROVE  \/ v[i].f = 0
             \/ v[i].f \in Files /\ onb[v[i].f].st = "PENDING" /\ onb[v[i].f].who = v[i].who
  <2>1. v # <<>>
    BY <1>6
  <2>2. CASE s.do \in {"lookup", "code"}
    BY <1>3, <1>4, <1>6, <2>1, <2>2 DEF Ahead
  <2>3. CASE s.do \in {"sheet", "row", "pdf"}
    BY <1>3, <1>6, <2>1, <2>3 DEF Ahead, RowOf
  <2>4. QED
    BY <1>1, <2>2, <2>3
<1>7. LinksOf(v)
  BY <1>5, <1>6 DEF LinksOf
<1>8. Busy(c)
  BY <1>1 DEF Now
<1>9. QED
  BY <1>1, <1>2, <1>7, <1>8, LinksSame

(* A hire, and an approval whose link comes next.                          *)
Linking(s, v) == /\ DOMAIN v = {1} /\ s.f \in Files
                 /\ v[1].do = "link" /\ v[1].f = s.f /\ v[1].who = s.who
Entered(s, v) ==
  \/ UNCHANGED <<login, joiner>> /\ v = <<>>
  \/ /\ s.who \in People /\ login[s.who] = "none" /\ login'[s.who] = "staff"
     /\ ~joiner'[s.who].filled /\ joiner'[s.who].st # "none" /\ OnlyPerson(s.who)
     /\ (s.f = 0 /\ v = <<>>) \/ Linking(s, v)

LEMMA Entering ==
  ASSUME DeskInv, NEW c \in Calls, Desk!EnterEmployee(c)
  PROVE  /\ OthersWait(c) /\ UNCHANGED onb
         /\ \E t, r, s, v : /\ Now(c, t, r, s) /\ s.do = "enter" /\ v = doing'[c].todo
                            /\ Entered(s, v)
<1>1. PICK t, r, s :
        /\ Now(c, t, r, s) /\ s.do = "enter" /\ s.who \in People /\ s.st \in Desk!Status
        /\ \/ UNCHANGED <<login, joiner>> /\ doing'[c].todo = <<>>
           \/ /\ login[s.who] = "none" /\ login' = [login EXCEPT ![s.who] = "staff"]
              /\ joiner' = [joiner EXCEPT ![s.who] = [code |-> s.code, st |-> s.st,
                                                      filled |-> FALSE]]
              /\ \/ s.f = 0 /\ doing'[c].todo = <<>>
                 \/ /\ s.f \in Files /\ DOMAIN doing'[c].todo = {1}
                    /\ doing'[c].todo[1].do = "link" /\ doing'[c].todo[1].f = s.f
                    /\ doing'[c].todo[1].who = s.who
  BY EnterRuns
<1>2. PICK v : v = doing'[c].todo
  OBVIOUS
<1>3. CASE UNCHANGED <<login, joiner>> /\ v = <<>>
  BY <1>1, <1>2, <1>3, EnterRuns DEF Entered
<1>4. CASE /\ login[s.who] = "none" /\ login' = [login EXCEPT ![s.who] = "staff"]
           /\ joiner' = [joiner EXCEPT ![s.who] = [code |-> s.code, st |-> s.st,
                                                   filled |-> FALSE]]
           /\ \/ s.f = 0 /\ v = <<>>
              \/ /\ s.f \in Files /\ DOMAIN v = {1}
                 /\ v[1].do = "link" /\ v[1].f = s.f /\ v[1].who = s.who
  <2>1. PICK e : e = [code |-> s.code, st |-> s.st, filled |-> FALSE]
    OBVIOUS
  <2>2. e.st # "none" /\ ~e.filled
    BY <1>1, <2>1 DEF Desk!Status
  <2>3. /\ login'[s.who] = "staff" /\ joiner'[s.who] = e /\ OnlyPerson(s.who)
    BY <1>1, <1>4, <2>1 DEF DeskInv, DeskTyped, Desk!JoiningTypeOK, OnlyPerson
  <2>4. (s.f = 0 /\ v = <<>>) \/ Linking(s, v)
    BY <1>4 DEF Linking
  <2>5. Entered(s, v)
    BY <1>1, <1>4, <2>2, <2>3, <2>4 DEF Entered
  <2>6. QED
    BY <1>1, <1>2, <2>5, EnterRuns
<1>5. QED
  BY <1>1, <1>2, <1>3, <1>4

LEMMA LinksEnters ==
  ASSUME DeskInv, LinksInv, Turn, UNCHANGED duty, NEW c \in Calls, Desk!EnterEmployee(c)
  PROVE  LinksInv'
<1>1. PICK t, r, s, v : /\ Now(c, t, r, s) /\ s.do = "enter" /\ v = doing'[c].todo
                        /\ Entered(s, v)
  BY Entering
<1>2. OthersWait(c) /\ UNCHANGED onb /\ Busy(c)
  BY <1>1, Entering DEF Now
<1>3. s.f = 0 \/ (s.f \in Files /\ onb[s.f].st = "PENDING" /\ onb[s.f].who = s.who)
  BY <1>1 DEF Now, LinksInv, LinksOf
<1>4. 0 \notin Files
  BY DeskDuty DEF DeskInv, DeskTyped
<1>5. v = <<>> \/ Linking(s, v)
  BY <1>1 DEF Entered
<1>6. LinksOf(v)
  BY <1>3, <1>4, <1>5 DEF LinksOf, Linking
<1>7. QED
  BY <1>1, <1>2, <1>6, LinksSame

LEMMA LinksFiles ==
  ASSUME DeskInv, CallsInv, LinksInv, Turn, UNCHANGED duty, NEW c \in Calls,
         NEW t, NEW r, NEW s, Now(c, t, r, s), OthersWait(c), doing'[c].todo \in {r, <<>>},
         NEW f \in Files, OnlyFile(f), RequestWritten(s, f, onb[f], onb'[f]), s.do \in OnFiles
  PROVE  LinksInv'
<1>1. /\ t[1] = s /\ 1 \in DOMAIN t /\ t = doing[c].todo /\ Busy(c) /\ s \in Statement
      /\ 0 \notin Files
  BY DeskDuty DEF Now, DeskInv, DeskTyped
<1>2. LinksOf(t) /\ LinksOf(r) /\ \A i \in DOMAIN r : r[i].do \notin {"link", "readdress"}
  BY <1>1, LinksRest DEF LinksInv
<1>3. PICK op : /\ op = doing[c].op /\ op \in duty.ops /\ Belongs(op, s)
                /\ \A i \in DOMAIN r : Belongs(op, r[i])
  BY <1>1 DEF CallsInv, Now
<1>4. PICK was, new : was = onb[f] /\ new = onb'[f] /\ RequestWritten(s, f, was, new)
  OBVIOUS
<1>5. was.st \notin {"none", "removed"} => LinkedRow(was)
  BY <1>4 DEF LinksInv, Desk!Live
<1>6. /\ s.do = "file" => /\ new.link # Nobody => new.link = new.who /\ new.st = "ACCOUNT_CREATED"
                          /\ new.link = Nobody => new.st = "PENDING"
      /\ s.do = "readdress" => /\ new.link = Nobody /\ was.link = Nobody /\ new.st = was.st
                               /\ LinkedRow(was)
      /\ s.do = "unfile" => new.st = "removed"
      /\ s.do = "mark" => /\ new.link = was.link /\ new.who = was.who /\ new.st = s.st
                          /\ LinkedRow(was) /\ s.f = f /\ s.st \in Marks
      /\ s.do = "link" => /\ new.st = "ACCOUNT_CREATED" /\ new.link = s.who /\ new.who = s.who
                          /\ s.who # Nobody
  <2>1. CASE s.do = "file"
    <3>1. new = s.row /\ s.row \in Filed
      BY <1>1, <1>4, <2>1, JoiningParts DEF RequestWritten
    <3>2. QED
      BY <1>3, <2>1, <3>1 DEF Filed, Belongs
  <2>2. CASE s.do = "readdress"
    <3>1. s.f = f /\ Desk!Live(f) /\ new.st = was.st /\ new.link = was.link
      BY <1>4, <2>2 DEF RequestWritten
    <3>2. was.link = Nobody
      BY <1>1, <1>2, <1>4, <2>2, <3>1 DEF LinksOf
    <3>3. QED
      BY <1>4, <1>5, <2>2, <3>1, <3>2 DEF Desk!Live
  <2>3. CASE s.do = "unfile"
    BY <1>4, <2>3 DEF RequestWritten
  <2>4. CASE s.do = "mark"
    <3>1. s.f = f /\ Desk!Live(f) /\ new.st = s.st /\ new.link = was.link /\ new.who = was.who
      BY <1>4, <2>4 DEF RequestWritten
    <3>2. s.st \in Marks
      BY <1>1, <2>4, JoiningParts
    <3>3. QED
      BY <1>4, <1>5, <2>4, <3>1, <3>2 DEF Desk!Live
  <2>5. CASE s.do = "link"
    <3>1. s.f = f /\ new.st = "ACCOUNT_CREATED" /\ new.link = s.who /\ new.who = was.who
      BY <1>4, <2>5 DEF RequestWritten
    <3>2. was.who = s.who
      BY <1>1, <1>2, <1>4, <2>5, <3>1 DEF LinksOf
    <3>3. s.who # Nobody
      BY <1>1, <2>5, JoiningParts, DeskDuty DEF DeskInv, DeskTyped
    <3>4. QED
      BY <2>5, <3>1, <3>2, <3>3
  <2>6. QED
    BY <2>1, <2>2, <2>3, <2>4, <2>5
<1>7. Desk!Live(f)' => LinkedRow(new)
  <2>1. CASE s.do = "file"
    BY <1>6, <2>1 DEF LinkedRow
  <2>2. CASE s.do = "readdress"
    BY <1>6, <2>2 DEF LinkedRow
  <2>3. CASE s.do = "unfile"
    BY <1>4, <1>6, <2>3 DEF Desk!Live
  <2>4. CASE s.do = "mark"
    <3>1. \/ s.st = "AWAITING_APPROVAL"
          \/ Stands /\ s.st \in {"PROFILE_COMPLETE", "COMPLETED"} => was.link # Nobody
      BY <1>1, <1>2, <1>4, <1>6, <2>4 DEF LinksOf
    <3>2. s.st = "AWAITING_APPROVAL" => was.link # Nobody
      BY <1>1, <1>2, <1>4, <1>6, <2>4 DEF LinksOf
    <3>3. s.st = "ACCOUNT_CREATED" => ~Desk!Unused({"reinitiate"})
      BY <1>3, <2>4 DEF Belongs, Desk!Unused
    <3>4. QED
      BY <1>6, <2>4, <3>1, <3>2, <3>3 DEF LinkedRow, Marks
  <2>5. CASE s.do = "link"
    BY <1>6, <2>5 DEF LinkedRow
  <2>6. QED
    BY <2>1, <2>2, <2>3, <2>4, <2>5 DEF OnFiles
<1>8. \A g \in Files : Desk!Live(g)' => LinkedRow(onb'[g])
  BY <1>4, <1>7 DEF OnlyFile, LinksInv, Desk!Live
<1>9. LinksOf(r)'
  <2>1. ASSUME NEW i \in DOMAIN r, r[i].do \in {"lookup", "code", "enter"}
        PROVE  FALSE
    <3>1. op \in {"hire", "approveJoiner"} /\ s.do = "link"
      BY <1>3, <2>1, <1>1, JoiningParts DEF Belongs, OnFiles, Marks
    <3>2. \A j \in DOMAIN t : j = 1
      BY <1>1, <1>2, <3>1 DEF LinksOf
    <3>3. QED
      BY <2>1, <3>2 DEF Now
  <2>2. ASSUME NEW i \in DOMAIN r, r[i].do = "mark"
        PROVE  onb'[r[i].f].link = onb[r[i].f].link
    <3>1. r[i].f \in Files /\ r[i].st \in Marks
      <4>1. r[i] \in Statement
        BY <2>2 DEF Now
      <4>2. QED
        BY <2>2, <4>1, JoiningParts
    <3>2. s.do \notin {"file", "link"}
      BY <1>3, <2>2, <3>1 DEF Belongs, Marks
    <3>3. new.link = was.link
      BY <1>4, <1>6, <3>2 DEF OnFiles, RequestWritten
    <3>4. QED
      BY <1>4, <3>1, <3>3 DEF OnlyFile
  <2>3. QED
    BY <1>2, <2>1, <2>2, LinksKept
<1>10. LinksOf(<<>>)'
  BY DEF LinksOf
<1>11. LinksOf(doing[c].todo)'
  <2>1. CASE doing'[c].todo = r
    BY <1>9, <2>1 DEF LinksOf
  <2>2. CASE doing'[c].todo = <<>>
    BY <1>10, <2>2 DEF LinksOf
  <2>3. QED
    BY <2>1, <2>2
<1>12. QED
  BY <1>1, <1>8, <1>11, LinksNext

LEMMA LinksStep ==
  ASSUME DeskInv, DeskInv', CallsInv, LinksInv, [StaffNext]_staff
  PROVE  LinksInv'
<1>1. CASE UNCHANGED <<duty, office>>
  BY <1>1 DEF office, LinksInv, LinksOf, LinkedRow, Turn, Stands, Desk!Live, Desk!Unused,
       Desk!Serial
<1>2. CASE Crash
  BY <1>2 DEF Crash, LinksInv, Turn
<1>3. ASSUME UNCHANGED <<duty, crashed>>, ~Turn
      PROVE  LinksInv'
  BY <1>3 DEF LinksInv, Turn, Desk!Serial
<1>4. ASSUME UNCHANGED <<duty, crashed>>, Turn, NEW c \in Calls, NEW t, NEW r, NEW s,
             Now(c, t, r, s), OthersWait(c), UNCHANGED onb, doing'[c].todo \in {r, <<>>}
      PROVE  LinksInv'
  <2>1. LinksOf(t)
    BY <1>4 DEF Now, LinksInv
  <2>2. LinksOf(r) /\ LinksOf(<<>>)
    <3>1. LinksOf(r)
      BY <1>4, <2>1, LinksRest
    <3>2. LinksOf(<<>>)
      BY DEF LinksOf
    <3>3. QED
      BY <3>1, <3>2
  <2>3. LinksOf(doing'[c].todo) /\ Busy(c)
    BY <1>4, <2>2 DEF Now
  <2>4. QED
    BY <1>4, <2>3, LinksSame
<1>5. ASSUME UNCHANGED <<duty, crashed>>, Turn, NEW c \in Calls, JoiningRuns(c) \/ Handles(c)
      PROVE  LinksInv'
  <2>1. CASE JoiningRuns(c)
    <3>1. PICK t, r, s : /\ Now(c, t, r, s) /\ OthersWait(c)
                         /\ FileWrote(c, s) \/ PersonWrote(c, s)
                         /\ doing'[c].todo \in {r, <<>>}
      BY <2>1, JoinRuns
    <3>2. CASE UNCHANGED onb
      BY <1>4, <1>5, <3>1, <3>2
    <3>3. CASE /\ s.do \in OnFiles
               /\ \E f \in Files : OnlyFile(f) /\ RequestWritten(s, f, onb[f], onb'[f])
      BY <1>5, <3>1, <3>3, LinksFiles
    <3>4. QED
      BY <3>1, <3>2, <3>3 DEF FileWrote, PersonWrote
  <2>2. CASE Handles(c)
    BY <1>4, <1>5, <2>2, HandleRuns
  <2>3. QED
    BY <1>5, <2>1, <2>2
<1>6. ASSUME UNCHANGED <<duty, crashed>>, Turn, NEW c \in Calls,
             Begins(c) \/ Looks(c) \/ Desk!EnterEmployee(c)
      PROVE  LinksInv'
  BY <1>6, LinksBegins, LinksLooks, LinksEnters
<1>7. QED
  BY <1>1, <1>2, <1>3, <1>5, <1>6, DeskMoves DEF Joins

(* Who a request is linked to is employed, with a login.                   *)
LEMMA LinkedPerson ==
  ASSUME DeskInv, NEW f \in Files, onb[f].link # Nobody
  PROVE  /\ onb[f].link \in People /\ Desk!Employed(onb[f].link)
         /\ login[onb[f].link] = "staff"
<1>1. onb[f].link \in People
  BY DEF DeskInv, DeskTyped, Desk!JoiningTypeOK, Desk!OnboardingRequest
<1>2. QED
  BY <1>1 DEF DeskInv, EmployedInv

LEMMA ProfileNext ==
  ASSUME DeskInv, Turn, UNCHANGED duty, NEW c \in Calls,
         Busy(c) \/ c \in duty.calls, OthersWait(c),
         \A f \in Files : Desk!Live(f)' /\ onb'[f].st = "PROFILE_COMPLETE" =>
           joiner'[onb'[f].link].filled,
         ProfileOf(doing[c].todo)'
  PROVE  ProfileInv'
<1>1. ASSUME NEW k \in Calls, k # c
      PROVE  ProfileOf(doing[k].todo)'
  <2>1. DOMAIN doing'[k].todo = {}
    BY <1>1, OthersIdle DEF Turn
  <2>2. QED
    BY <2>1 DEF ProfileOf
<1>2. QED
  BY <1>1 DEF ProfileInv

LEMMA ProfileRest ==
  ASSUME NEW c, NEW t, NEW r, NEW s, Now(c, t, r, s), ProfileOf(t)
  PROVE  /\ \A i \in DOMAIN r : r[i].do = "mark" /\ r[i].st = "PROFILE_COMPLETE" =>
              \/ joiner[onb[r[i].f].link].filled
              \/ s.do = "fill" /\ s.to /\ s.who = onb[r[i].f].link
         /\ \A i \in DOMAIN r : r[i].do = "fill" /\ ~r[i].to =>
              \A f \in Desk!FileOf(r[i].who) :
                \/ onb[f].st = "ACCOUNT_CREATED"
                \/ s.do = "mark" /\ s.f = f /\ s.st = "ACCOUNT_CREATED"
<1>1. ASSUME NEW i \in DOMAIN r
      PROVE  /\ r[i].do = "mark" /\ r[i].st = "PROFILE_COMPLETE" =>
                  \/ joiner[onb[r[i].f].link].filled
                  \/ s.do = "fill" /\ s.to /\ s.who = onb[r[i].f].link
             /\ r[i].do = "fill" /\ ~r[i].to => \A f \in Desk!FileOf(r[i].who) :
                  \/ onb[f].st = "ACCOUNT_CREATED"
                  \/ s.do = "mark" /\ s.f = f /\ s.st = "ACCOUNT_CREATED"
  <2>1. PICK j \in DOMAIN t : j = i + 1 /\ t[j] = r[i] /\ t[1] = s
    BY <1>1 DEF Now
  <2>2. QED
    BY <2>1 DEF ProfileOf
<1>2. QED
  BY <1>1

LEMMA ProfileSame ==
  ASSUME DeskInv, ProfileInv, Turn, Stands, UNCHANGED <<duty, onb, joiner>>, NEW c \in Calls,
         Busy(c) \/ c \in duty.calls, OthersWait(c), ProfileOf(doing'[c].todo)
  PROVE  ProfileInv'
<1>1. ProfileOf(doing[c].todo)'
  BY DEF ProfileOf, Desk!FileOf, Desk!Live
<1>2. \A f \in Files : Desk!Live(f)' /\ onb'[f].st = "PROFILE_COMPLETE" =>
        joiner'[onb'[f].link].filled
  BY DEF ProfileInv, Desk!Live
<1>3. QED
  BY <1>1, <1>2, ProfileNext

LEMMA ProfileBegins ==
  ASSUME DeskInv, DeskInv', OwnFiles, ProfileInv, Turn, Stands, UNCHANGED duty,
         NEW c \in Calls, Begins(c)
  PROVE  ProfileInv'
<1>1. PICK op : /\ Fresh(op, doing'[c].todo) /\ OthersWait(c) /\ c \in duty.calls
                /\ op \in duty.ops /\ UNCHANGED <<onb, joiner>>
  BY BeginRuns
<1>2. PICK v : v = doing'[c].todo
  OBVIOUS
<1>3. Paired(op, v) /\ \A i \in DOMAIN v : v[i] \in Statement /\ Found(op, v[i])
  BY <1>1, <1>2, NextTyped DEF Fresh
<1>4. ASSUME NEW i \in DOMAIN v, v[i].do = "mark", v[i].st = "PROFILE_COMPLETE"
      PROVE  i = 2 /\ v[1].do = "fill" /\ v[1].to /\ v[1].who = onb[v[i].f].link
  <2>1. op = "profile"
    BY <1>1, <1>3, <1>4 DEF Found, Belongs, Stands, Desk!Unused
  <2>2. QED
    BY <1>3, <1>4, <2>1 DEF Paired
<1>5. ASSUME NEW i \in DOMAIN v, v[i].do = "fill", ~v[i].to, NEW f \in Desk!FileOf(v[i].who)
      PROVE  i = 2 /\ v[1].do = "mark" /\ v[1].f = f /\ v[1].st = "ACCOUNT_CREATED"
  <2>1. /\ i = 2 /\ v[1].do = "mark" /\ v[1].st = "ACCOUNT_CREATED" /\ v[1].f \in Files
        /\ Desk!Live(v[1].f) /\ onb[v[1].f].link = v[i].who /\ v[i].who # Nobody
    BY <1>3, <1>5 DEF Paired
  <2>2. QED
    BY <1>5, <2>1 DEF OwnFiles, Desk!FileOf
<1>6. ProfileOf(v)
  BY <1>4, <1>5 DEF ProfileOf
<1>7. QED
  BY <1>1, <1>2, <1>6, ProfileSame

(* Employing somebody leaves the employees there are as they were.         *)
LEMMA ProfileEnters ==
  ASSUME DeskInv, LinksInv, ProfileInv, Turn, Stands, UNCHANGED duty,
         NEW c \in Calls, Desk!EnterEmployee(c)
  PROVE  ProfileInv'
<1>1. PICK t, r, s, v : /\ Now(c, t, r, s) /\ s.do = "enter" /\ v = doing'[c].todo
                        /\ Entered(s, v)
  BY Entering
<1>2. OthersWait(c) /\ UNCHANGED onb /\ Busy(c)
  BY <1>1, Entering DEF Now
<1>3. \A i \in DOMAIN v : v[i].do = "link"
  BY <1>1 DEF Entered, Linking
<1>4. ProfileOf(doing[c].todo)'
  BY <1>1, <1>3 DEF ProfileOf
<1>5. ASSUME NEW f \in Files, Desk!Live(f)', onb'[f].st = "PROFILE_COMPLETE"
      PROVE  joiner'[onb'[f].link].filled
  <2>1. Desk!Live(f) /\ onb[f].st = "PROFILE_COMPLETE" /\ onb'[f].link = onb[f].link
    BY <1>2, <1>5 DEF Desk!Live
  <2>2. onb[f].link # Nobody /\ joiner[onb[f].link].filled
    BY <2>1 DEF LinksInv, LinkedRow, ProfileInv
  <2>3. onb[f].link \in People /\ login[onb[f].link] = "staff"
    BY <2>2, LinkedPerson
  <2>4. joiner'[onb[f].link] = joiner[onb[f].link]
    BY <1>1, <2>3 DEF Entered, OnlyPerson
  <2>5. QED
    BY <2>1, <2>2, <2>4
<1>6. QED
  BY <1>2, <1>4, <1>5, ProfileNext

LEMMA ProfilePeople ==
  ASSUME DeskInv, CallsInv, LinksInv, ProfileInv, Turn, Stands, UNCHANGED duty, NEW c \in Calls,
         NEW t, NEW r, NEW s, Now(c, t, r, s), OthersWait(c), PersonWrote(c, s),
         doing'[c].todo \in {r, <<>>}, Desk!Fails(c) => doing'[c].todo = <<>>
  PROVE  ProfileInv'
<1>1. /\ t[1] = s /\ 1 \in DOMAIN t /\ t = doing[c].todo /\ Busy(c) /\ s \in Statement
      /\ UNCHANGED onb /\ s.do \in OnPeople
  BY DEF Now, PersonWrote
<1>2. ProfileOf(t) /\ LinksOf(t)
  BY <1>1 DEF ProfileInv, LinksInv
<1>3. PICK op : /\ op = doing[c].op /\ op \in duty.ops /\ Belongs(op, s)
                /\ \A i \in DOMAIN r : Belongs(op, r[i])
  BY <1>1 DEF CallsInv, Now
<1>4. ASSUME NEW p \in People, login[p] = "staff", joiner[p].filled
      PROVE  \/ joiner'[p].filled
             \/ s.do = "fill" /\ ~s.to /\ s.who = p
  <2>1. CASE UNCHANGED joiner
    BY <1>4, <2>1
  <2>2. CASE ~UNCHANGED joiner /\ p # s.who
    <3>1. joiner'[p] = joiner[p]
      BY <2>2 DEF PersonWrote, OnlyPerson
    <3>2. QED
      BY <1>4, <3>1
  <2>3. CASE ~UNCHANGED joiner /\ p = s.who
    <3>1. PersonWritten(s, p)
      BY <2>3 DEF PersonWrote
    <3>2. s.do # "employ"
      BY <1>4, <3>1 DEF PersonWritten
    <3>3. s.do = "fill" => joiner'[p].filled = s.to
      BY <3>1 DEF PersonWritten
    <3>4. s.do \in {"unlogin", "login", "status", "recode"} =>
            joiner'[p].filled = joiner[p].filled
      BY <3>1 DEF PersonWritten
    <3>5. QED
      BY <1>1, <1>4, <2>3, <3>2, <3>3, <3>4 DEF OnPeople
  <2>4. QED
    BY <2>1, <2>2, <2>3
<1>5. ASSUME NEW f \in Files, Desk!Live(f)', onb'[f].st = "PROFILE_COMPLETE"
      PROVE  joiner'[onb'[f].link].filled
  <2>1. Desk!Live(f) /\ onb[f].st = "PROFILE_COMPLETE" /\ onb'[f].link = onb[f].link
    BY <1>1, <1>5 DEF Desk!Live
  <2>2. onb[f].link # Nobody /\ joiner[onb[f].link].filled
    BY <2>1 DEF LinksInv, LinkedRow, ProfileInv
  <2>3. PICK p \in People : p = onb[f].link /\ login[p] = "staff"
    BY <2>2, LinkedPerson
  <2>4. f \in Desk!FileOf(p)
    BY <2>1, <2>3 DEF Desk!FileOf
  <2>5. ~(s.do = "fill" /\ ~s.to /\ s.who = p)
    BY <1>1, <1>2, <2>1, <2>4 DEF ProfileOf
  <2>6. QED
    BY <1>4, <2>1, <2>2, <2>3, <2>5
<1>6. ASSUME doing'[c].todo = r, ~Desk!Fails(c)
      PROVE  ProfileOf(r)'
  <2>1. ASSUME NEW i \in DOMAIN r, r[i].do = "mark", r[i].st = "PROFILE_COMPLETE"
        PROVE  joiner'[onb'[r[i].f].link].filled
    <3>1. op = "profile"
      BY <1>3, <2>1 DEF Belongs, Stands, Desk!Unused
    <3>2. s.do = "fill" /\ s.to
      BY <1>1, <1>3, <3>1 DEF Belongs, OnPeople
    <3>3. PICK f \in Files : f = r[i].f
      <4>1. r[i] \in Statement
        BY <2>1 DEF Now
      <4>2. QED
        BY <2>1, <4>1, JoiningParts
    <3>4. onb[f].link # Nobody
      <4>1. PICK j \in DOMAIN t : t[j] = r[i]
        BY <2>1 DEF Now
      <4>2. QED
        BY <1>2, <2>1, <3>3, <4>1 DEF LinksOf
    <3>5. PICK p \in People : p = onb[f].link /\ login[p] = "staff"
      BY <3>4, LinkedPerson
    <3>6. CASE joiner[p].filled
      BY <1>1, <1>4, <3>2, <3>3, <3>5, <3>6
    <3>7. CASE s.who = p
      <4>1. PersonWritten(s, p)
        BY <1>6, <3>7 DEF PersonWrote
      <4>2. joiner'[p].filled = s.to
        BY <3>2, <4>1 DEF PersonWritten
      <4>3. QED
        BY <1>1, <3>2, <3>3, <3>5, <4>2
    <3>8. QED
      BY <1>2, <2>1, <3>3, <3>5, <3>6, <3>7, ProfileRest
  <2>2. ASSUME NEW i \in DOMAIN r, r[i].do = "fill", ~r[i].to, NEW f \in Desk!FileOf(r[i].who)'
        PROVE  onb'[f].st = "ACCOUNT_CREATED"
    <3>1. f \in Desk!FileOf(r[i].who) /\ onb'[f] = onb[f]
      BY <1>1, <2>2 DEF Desk!FileOf, Desk!Live
    <3>2. s.do # "mark"
      BY <1>1 DEF OnPeople
    <3>3. QED
      BY <1>2, <2>2, <3>1, <3>2, ProfileRest
  <2>3. QED
    BY <2>1, <2>2 DEF ProfileOf
<1>7. ProfileOf(doing[c].todo)'
  <2>1. CASE doing'[c].todo = <<>>
    BY <2>1 DEF ProfileOf
  <2>2. CASE doing'[c].todo # <<>>
    BY <1>6, <2>2, AllDone DEF ProfileOf
  <2>3. QED
    BY <2>1, <2>2
<1>8. QED
  BY <1>1, <1>5, <1>7, ProfileNext

LEMMA ProfileFiles ==
  ASSUME DeskInv, CallsInv, LinksInv, ProfileInv, Turn, Stands, UNCHANGED duty, NEW c \in Calls,
         NEW t, NEW r, NEW s, Now(c, t, r, s), OthersWait(c), doing'[c].todo \in {r, <<>>},
         UNCHANGED joiner, s.do \in OnFiles,
         NEW f \in Files, OnlyFile(f), RequestWritten(s, f, onb[f], onb'[f])
  PROVE  ProfileInv'
<1>1. /\ t[1] = s /\ 1 \in DOMAIN t /\ t = doing[c].todo /\ Busy(c) /\ s \in Statement
  BY DEF Now
<1>2. ProfileOf(t) /\ LinksOf(t)
  BY <1>1 DEF ProfileInv, LinksInv
<1>3. PICK op : /\ op = doing[c].op /\ op \in duty.ops /\ Belongs(op, s)
                /\ \A i \in DOMAIN r : Belongs(op, r[i])
  BY <1>1 DEF CallsInv, Now
<1>4. PICK was, new : was = onb[f] /\ new = onb'[f] /\ RequestWritten(s, f, was, new)
  OBVIOUS
<1>5. Desk!Live(f)' /\ new.st = "PROFILE_COMPLETE" => joiner'[new.link].filled
  <2>1. CASE s.do = "file"
    <3>1. new = s.row /\ s.row \in Filed
      BY <1>1, <1>4, <2>1, JoiningParts DEF RequestWritten
    <3>2. QED
      BY <3>1 DEF Filed
  <2>2. CASE s.do = "readdress"
    BY <1>4, <2>2 DEF RequestWritten, ProfileInv
  <2>3. CASE s.do = "unfile"
    BY <1>4, <2>3 DEF RequestWritten
  <2>4. CASE s.do = "mark"
    <3>1. s.f = f /\ new.st = s.st /\ new.link = was.link
      BY <1>4, <2>4 DEF RequestWritten
    <3>2. s.st = "PROFILE_COMPLETE" => joiner[was.link].filled
      BY <1>1, <1>2, <1>4, <2>4, <3>1 DEF ProfileOf
    <3>3. QED
      BY <3>1, <3>2
  <2>5. CASE s.do = "link"
    BY <1>4, <2>5 DEF RequestWritten
  <2>6. QED
    BY <2>1, <2>2, <2>3, <2>4, <2>5 DEF OnFiles
<1>6. \A g \in Files : Desk!Live(g)' /\ onb'[g].st = "PROFILE_COMPLETE" =>
        joiner'[onb'[g].link].filled
  BY <1>4, <1>5 DEF OnlyFile, ProfileInv, Desk!Live
<1>7. ProfileOf(r)'
  <2>1. ASSUME NEW i \in DOMAIN r, r[i].do = "mark", r[i].st = "PROFILE_COMPLETE"
        PROVE  joiner'[onb'[r[i].f].link].filled
    <3>1. op = "profile"
      BY <1>3, <2>1 DEF Belongs, Stands, Desk!Unused
    <3>2. s.do = "mark"
      BY <1>3, <3>1 DEF Belongs, OnFiles
    <3>3. PICK g \in Files : g = r[i].f
      <4>1. r[i] \in Statement
        BY <2>1 DEF Now
      <4>2. QED
        BY <2>1, <4>1, JoiningParts
    <3>4. new.link = was.link
      BY <1>4, <3>2 DEF RequestWritten
    <3>5. onb'[g].link = onb[g].link
      BY <1>4, <3>4 DEF OnlyFile
    <3>6. joiner[onb[g].link].filled
      BY <1>2, <2>1, <3>2, <3>3, ProfileRest
    <3>7. QED
      BY <3>3, <3>5, <3>6
  <2>2. ASSUME NEW i \in DOMAIN r, r[i].do = "fill", ~r[i].to, NEW g \in Desk!FileOf(r[i].who)'
        PROVE  onb'[g].st = "ACCOUNT_CREATED"
    <3>1. op = "reinitiate"
      BY <1>3, <2>2 DEF Belongs
    <3>2. s.do = "mark" /\ s.st = "ACCOUNT_CREATED"
      <4>1. s.do = "mark"
        BY <1>3, <3>1 DEF Belongs, OnFiles
      <4>2. s.st \in Marks
        BY <1>1, <4>1, JoiningParts
      <4>3. QED
        BY <1>3, <3>1, <4>1, <4>2 DEF Belongs, Marks
    <3>3. s.f = f /\ Desk!Live(f) /\ new.st = "ACCOUNT_CREATED" /\ new.link = was.link
      BY <1>4, <3>2 DEF RequestWritten
    <3>4. g \in Desk!FileOf(r[i].who)
      BY <1>4, <2>2, <3>3 DEF Desk!FileOf, Desk!Live, OnlyFile
    <3>5. CASE g = f
      BY <1>4, <3>3, <3>5
    <3>6. CASE g # f
      <4>1. onb'[g] = onb[g] /\ g \in Files
        BY <3>4, <3>6 DEF OnlyFile, Desk!FileOf
      <4>2. onb[g].st = "ACCOUNT_CREATED"
        BY <1>2, <2>2, <3>3, <3>4, <3>6, ProfileRest
      <4>3. QED
        BY <4>1, <4>2
    <3>7. QED
      BY <3>5, <3>6
  <2>3. QED
    BY <2>1, <2>2 DEF ProfileOf
<1>8. ProfileOf(doing[c].todo)'
  <2>1. CASE doing'[c].todo = <<>>
    BY <2>1 DEF ProfileOf
  <2>2. CASE doing'[c].todo = r
    BY <1>7, <2>2 DEF ProfileOf
  <2>3. QED
    BY <2>1, <2>2
<1>9. QED
  BY <1>1, <1>6, <1>8, ProfileNext

LEMMA ProfileStep ==
  ASSUME DeskInv, DeskInv', CallsInv, OwnFiles, LinksInv, ProfileInv, [StaffNext]_staff
  PROVE  ProfileInv'
<1>1. CASE UNCHANGED <<duty, office>>
  BY <1>1 DEF office, ProfileInv, ProfileOf, Turn, Stands, Desk!FileOf, Desk!Live, Desk!Unused,
       Desk!Serial
<1>2. CASE Crash
  BY <1>2 DEF Crash, ProfileInv, Turn
<1>3. ASSUME UNCHANGED <<duty, crashed>>, ~(Turn /\ Stands)
      PROVE  ProfileInv'
  BY <1>3 DEF ProfileInv, Turn, Stands, Desk!Unused, Desk!Serial
<1>4. ASSUME UNCHANGED <<duty, crashed>>, Turn, Stands, NEW c \in Calls, JoiningRuns(c)
      PROVE  ProfileInv'
  <2>1. PICK t, r, s : /\ Now(c, t, r, s) /\ OthersWait(c)
                       /\ FileWrote(c, s) \/ PersonWrote(c, s)
                       /\ doing'[c].todo \in {r, <<>>}
                       /\ Desk!Fails(c) => doing'[c].todo = <<>>
    BY <1>4, JoinRuns
  <2>2. CASE PersonWrote(c, s)
    BY <1>4, <2>1, <2>2, ProfilePeople
  <2>3. CASE FileWrote(c, s)
    <3>1. CASE Desk!Fails(c) /\ UNCHANGED onb
      <4>1. Busy(c) /\ UNCHANGED joiner
        BY <2>1, <2>3 DEF Now, FileWrote
      <4>2. ProfileOf(doing'[c].todo)
        BY <2>1, <3>1 DEF ProfileOf
      <4>3. QED
        BY <1>4, <2>1, <3>1, <4>1, <4>2, ProfileSame
    <3>2. CASE \E f \in Files : OnlyFile(f) /\ RequestWritten(s, f, onb[f], onb'[f])
      <4>1. UNCHANGED joiner /\ s.do \in OnFiles
        BY <2>3 DEF FileWrote
      <4>2. QED
        BY <1>4, <2>1, <3>2, <4>1, ProfileFiles
    <3>3. QED
      BY <2>3, <3>1, <3>2 DEF FileWrote
  <2>4. QED
    BY <2>1, <2>2, <2>3
<1>5. ASSUME UNCHANGED <<duty, crashed>>, Turn, Stands, NEW c \in Calls, Handles(c)
      PROVE  ProfileInv'
  <2>1. PICK t, r, s : /\ Now(c, t, r, s) /\ OthersWait(c) /\ UNCHANGED <<joiner, onb>>
                       /\ doing'[c].todo \in {r, <<>>}
                       /\ s.do \in OnPaper \cup {"attach"} \cup OnLetters
    BY <1>5, HandleRuns DEF PaperWrote
  <2>2. ProfileOf(t) /\ Busy(c) /\ s.do \notin {"fill", "mark"}
    BY <1>5, <2>1 DEF Now, ProfileInv, OnPaper, OnLetters
  <2>3. ProfileOf(r)
    <3>1. \A i \in DOMAIN r : r[i].do = "mark" /\ r[i].st = "PROFILE_COMPLETE" =>
            joiner[onb[r[i].f].link].filled
      BY <2>1, <2>2, ProfileRest
    <3>2. \A i \in DOMAIN r : r[i].do = "fill" /\ ~r[i].to =>
            \A f \in Desk!FileOf(r[i].who) : onb[f].st = "ACCOUNT_CREATED"
      BY <2>1, <2>2, ProfileRest
    <3>3. QED
      BY <3>1, <3>2 DEF ProfileOf
  <2>4. ProfileOf(<<>>)
    BY DEF ProfileOf
  <2>5. ProfileOf(doing'[c].todo)
    BY <2>1, <2>3, <2>4
  <2>6. QED
    BY <1>5, <2>1, <2>2, <2>5, ProfileSame
<1>6. ASSUME UNCHANGED <<duty, crashed>>, Turn, Stands, NEW c \in Calls, Looks(c)
      PROVE  ProfileInv'
  <2>1. PICK t, r, s : /\ Now(c, t, r, s) /\ OthersWait(c) /\ UNCHANGED <<joiner, onb>>
                       /\ doing'[c].todo = <<>> \/ Ahead(s, doing'[c].todo)
    BY <1>6, LookRuns
  <2>2. PICK v : v = doing'[c].todo /\ (v = <<>> \/ Ahead(s, v))
    BY <2>1
  <2>3. \A i \in DOMAIN v : v[i].do \notin {"mark", "fill"}
    BY <2>2, AheadKinds
  <2>4. ProfileOf(v) /\ Busy(c)
    BY <2>1, <2>3 DEF ProfileOf, Now
  <2>5. QED
    BY <1>6, <2>1, <2>2, <2>4, ProfileSame
<1>7. ASSUME UNCHANGED <<duty, crashed>>, Turn, Stands, NEW c \in Calls,
             Begins(c) \/ Desk!EnterEmployee(c)
      PROVE  ProfileInv'
  BY <1>7, ProfileBegins, ProfileEnters
<1>8. QED
  BY <1>1, <1>2, <1>3, <1>4, <1>5, <1>6, <1>7, DeskMoves DEF Joins

LEMMA FinalNext ==
  ASSUME DeskInv, Turn, UNCHANGED duty, NEW c \in Calls,
         Busy(c) \/ c \in duty.calls, OthersWait(c),
         \A f \in Files : Desk!Live(f)' /\ onb'[f].st = "COMPLETED" =>
           joiner'[onb'[f].link].st # "ON_PROBATION" \/ Activates(c, onb[f].link)',
         FinalOf(doing[c].todo)'
  PROVE  FinalInv'
<1>1. ASSUME NEW k \in Calls, k # c
      PROVE  FinalOf(doing[k].todo)'
  <2>1. DOMAIN doing'[k].todo = {}
    BY <1>1, OthersIdle DEF Turn
  <2>2. QED
    BY <2>1 DEF FinalOf
<1>2. QED
  BY <1>1 DEF FinalInv

(* Only the call that runs may be about to activate somebody.              *)
LEMMA FinalWas ==
  ASSUME DeskInv, FinalInv, Turn, Decided, NEW c \in Calls, Busy(c) \/ c \in duty.calls,
         NEW f \in Files, Desk!Live(f), onb[f].st = "COMPLETED"
  PROVE  joiner[onb[f].link].st # "ON_PROBATION" \/ Activates(c, onb[f].link)
<1>1. \A k \in Calls : k # c => ~Activates(k, onb[f].link)
  BY SoleCall DEF Activates, Turn
<1>2. QED
  BY <1>1 DEF FinalInv

LEMMA FinalSame ==
  ASSUME DeskInv, FinalInv, Turn, Decided, UNCHANGED <<duty, onb, joiner>>, NEW c \in Calls,
         Busy(c) \/ c \in duty.calls, OthersWait(c), FinalOf(doing'[c].todo),
         1 \in DOMAIN doing[c].todo => doing[c].todo[1].do # "status"
  PROVE  FinalInv'
<1>1. FinalOf(doing[c].todo)'
  BY DEF FinalOf
<1>2. \A f \in Files : Desk!Live(f)' /\ onb'[f].st = "COMPLETED" =>
        joiner'[onb'[f].link].st # "ON_PROBATION"
  BY FinalWas DEF Activates, Desk!Live
<1>3. QED
  BY <1>1, <1>2, FinalNext

LEMMA FinalRest ==
  ASSUME NEW c, NEW t, NEW r, NEW s, Now(c, t, r, s), FinalOf(t)
  PROVE  /\ \A i \in DOMAIN r : ~(r[i].do = "mark" /\ r[i].st = "COMPLETED")
         /\ FinalOf(r) /\ FinalOf(<<>>)
<1>1. ASSUME NEW i \in DOMAIN r
      PROVE  ~(r[i].do = "mark" /\ r[i].st = "COMPLETED")
  <2>1. PICK j \in DOMAIN t : j # 1 /\ t[j] = r[i]
    BY <1>1 DEF Now
  <2>2. QED
    BY <2>1 DEF FinalOf
<1>2. FinalOf(<<>>)
  BY DEF FinalOf
<1>3. QED
  BY <1>1, <1>2 DEF FinalOf

LEMMA FinalBegins ==
  ASSUME DeskInv, DeskInv', LinksInv, FinalInv, Turn, Decided, UNCHANGED duty,
         NEW c \in Calls, Begins(c)
  PROVE  FinalInv'
<1>1. PICK op : /\ Fresh(op, doing'[c].todo) /\ OthersWait(c) /\ c \in duty.calls
                /\ op \in duty.ops /\ UNCHANGED <<onb, joiner>> /\ doing[c] = Desk!Idle
  BY BeginRuns
<1>2. PICK v : v = doing'[c].todo
  OBVIOUS
<1>3. Paired(op, v) /\ \A i \in DOMAIN v : v[i] \in Statement /\ Found(op, v[i])
  BY <1>1, <1>2, NextTyped DEF Fresh
<1>4. ASSUME NEW i \in DOMAIN v, v[i].do = "mark", v[i].st = "COMPLETED"
      PROVE  onb[v[i].f].link # Nobody
  <2>1. PICK s \in Statement : s = v[i] /\ Found(op, s) /\ s.f \in Files
    BY <1>3, <1>4, JoiningParts
  <2>2. onb[s.f].st \in {"AWAITING_APPROVAL", "PROFILE_COMPLETE"}
    BY <1>4, <2>1 DEF Found
  <2>3. QED
    BY <2>1, <2>2 DEF LinksInv, LinkedRow, Desk!Live, Stands, Decided, Desk!Unused
<1>5. FinalOf(v)
  BY <1>3, <1>4 DEF FinalOf, Paired
<1>6. doing[c].todo = <<>> /\ DOMAIN <<>> = {}
  BY <1>1 DEF Desk!Idle
<1>7. FinalOf(doing'[c].todo) /\ 1 \notin DOMAIN doing[c].todo
  BY <1>2, <1>5, <1>6
<1>8. QED
  BY <1>1, <1>7, FinalSame

(* Who has a complete request is employed already.                         *)
LEMMA FinalPerson ==
  ASSUME DeskInv, LinksInv, Turn, Decided, NEW f \in Files, Desk!Live(f),
         onb[f].st = "COMPLETED"
  PROVE  onb[f].link \in People /\ login[onb[f].link] = "staff"
<1>1. onb[f].link # Nobody
  BY DEF LinksInv, LinkedRow, Stands, Decided, Desk!Unused
<1>2. QED
  BY <1>1, LinkedPerson

LEMMA FinalEnters ==
  ASSUME DeskInv, LinksInv, FinalInv, Turn, Decided, UNCHANGED duty,
         NEW c \in Calls, Desk!EnterEmployee(c)
  PROVE  FinalInv'
<1>1. PICK t, r, s, v : /\ Now(c, t, r, s) /\ s.do = "enter" /\ v = doing'[c].todo
                        /\ Entered(s, v)
  BY Entering
<1>2. OthersWait(c) /\ UNCHANGED onb /\ Busy(c)
  BY <1>1, Entering DEF Now
<1>3. \A i \in DOMAIN v : v[i].do = "link"
  BY <1>1 DEF Entered, Linking
<1>4. FinalOf(doing[c].todo)'
  BY <1>1, <1>3 DEF FinalOf
<1>5. ASSUME NEW f \in Files, Desk!Live(f)', onb'[f].st = "COMPLETED"
      PROVE  joiner'[onb'[f].link].st # "ON_PROBATION"
  <2>1. Desk!Live(f) /\ onb[f].st = "COMPLETED" /\ onb'[f].link = onb[f].link
    BY <1>2, <1>5 DEF Desk!Live
  <2>2. PICK p \in People : p = onb[f].link /\ login[p] = "staff"
    BY <2>1, FinalPerson
  <2>3. joiner[p].st # "ON_PROBATION"
    BY <1>1, <1>2, <2>1, <2>2, FinalWas DEF Activates, Now
  <2>4. joiner'[p] = joiner[p]
    BY <1>1, <2>2 DEF Entered, OnlyPerson
  <2>5. QED
    BY <2>1, <2>2, <2>3, <2>4
<1>6. QED
  BY <1>2, <1>4, <1>5, FinalNext

LEMMA FinalPeople ==
  ASSUME DeskInv, CallsInv, LinksInv, FinalInv, Turn, Decided, UNCHANGED duty, NEW c \in Calls,
         NEW t, NEW r, NEW s, Now(c, t, r, s), OthersWait(c), PersonWrote(c, s),
         doing'[c].todo \in {r, <<>>}
  PROVE  FinalInv'
<1>1. /\ t[1] = s /\ 1 \in DOMAIN t /\ t = doing[c].todo /\ Busy(c) /\ s \in Statement
      /\ UNCHANGED onb /\ s.do \in OnPeople
  BY DEF Now, PersonWrote
<1>2. FinalOf(r) /\ FinalOf(<<>>)
  <2>1. FinalOf(t)
    BY <1>1 DEF FinalInv
  <2>2. QED
    BY <2>1, FinalRest
<1>3. FinalOf(doing'[c].todo)
  BY <1>2
<1>4. FinalOf(doing[c].todo)'
  BY <1>1, <1>3 DEF FinalOf
<1>5. s.do = "status" => s.st # "ON_PROBATION"
  <2>1. doing[c].op \in duty.ops /\ Belongs(doing[c].op, s)
    BY <1>1 DEF CallsInv
  <2>2. QED
    BY <2>1 DEF Belongs, Decided, Desk!Unused
<1>6. ASSUME UNCHANGED joiner, s.do \notin {"fill", "status"}
      PROVE  FinalInv'
  BY <1>1, <1>3, <1>6, FinalSame
<1>7. ASSUME s.who \in People, OnlyPerson(s.who), PersonWritten(s, s.who),
             NEW f \in Files, Desk!Live(f)', onb'[f].st = "COMPLETED"
      PROVE  joiner'[onb'[f].link].st # "ON_PROBATION"
  <2>1. Desk!Live(f) /\ onb[f].st = "COMPLETED" /\ onb'[f].link = onb[f].link
    BY <1>1, <1>7 DEF Desk!Live
  <2>2. PICK p \in People : p = onb[f].link /\ login[p] = "staff"
    BY <2>1, FinalPerson
  <2>3. joiner[p].st # "ON_PROBATION" \/ (s.do = "status" /\ s.who = p)
    BY <1>1, <2>1, <2>2, FinalWas DEF Activates
  <2>4. CASE p # s.who
    <3>1. joiner'[p] = joiner[p]
      BY <1>7, <2>4 DEF OnlyPerson
    <3>2. QED
      BY <2>1, <2>2, <2>3, <2>4, <3>1
  <2>5. CASE p = s.who
    <3>1. PersonWritten(s, p)
      BY <1>7, <2>5
    <3>2. s.do # "employ"
      BY <2>2, <3>1 DEF PersonWritten
    <3>3. s.do = "status" => joiner'[p].st = s.st
      BY <3>1 DEF PersonWritten
    <3>4. s.do \in {"unlogin", "login", "fill", "recode"} => joiner'[p].st = joiner[p].st
      BY <3>1 DEF PersonWritten
    <3>5. QED
      BY <1>1, <1>5, <2>1, <2>2, <2>3, <3>2, <3>3, <3>4 DEF OnPeople
  <2>6. QED
    BY <2>4, <2>5
<1>8. CASE s.who \in People /\ OnlyPerson(s.who) /\ PersonWritten(s, s.who)
  BY <1>1, <1>4, <1>7, <1>8, FinalNext
<1>9. QED
  BY <1>6, <1>8 DEF PersonWrote

LEMMA FinalFiles ==
  ASSUME DeskInv, CallsInv, FinalInv, Turn, Decided, UNCHANGED <<duty, joiner>>, NEW c \in Calls,
         NEW t, NEW r, NEW s, Now(c, t, r, s), OthersWait(c), doing'[c].todo = r,
         s.do \in OnFiles,
         NEW f \in Files, OnlyFile(f), RequestWritten(s, f, onb[f], onb'[f])
  PROVE  FinalInv'
<1>1. /\ t[1] = s /\ 1 \in DOMAIN t /\ t = doing[c].todo /\ Busy(c) /\ s \in Statement
  BY DEF Now
<1>2. FinalOf(t)
  BY <1>1 DEF FinalInv
<1>3. \A i \in DOMAIN r : ~(r[i].do = "mark" /\ r[i].st = "COMPLETED")
  BY <1>2, FinalRest
<1>4. FinalOf(doing[c].todo)'
  BY <1>3 DEF FinalOf
<1>5. PICK was, new : was = onb[f] /\ new = onb'[f] /\ RequestWritten(s, f, was, new)
  OBVIOUS
<1>6. ASSUME NEW g \in Files, Desk!Live(g), onb[g].st = "COMPLETED"
      PROVE  joiner'[onb[g].link].st # "ON_PROBATION"
  BY <1>1, <1>6, FinalWas DEF Activates, OnFiles
<1>7. ASSUME new.st = "COMPLETED", Desk!Live(f)'
      PROVE  joiner'[new.link].st # "ON_PROBATION" \/ Activates(c, onb[f].link)'
  <2>1. CASE s.do = "file"
    <3>1. new = s.row /\ s.row \in Filed
      BY <1>1, <1>5, <2>1, JoiningParts DEF RequestWritten
    <3>2. QED
      BY <1>7, <3>1 DEF Filed
  <2>2. CASE s.do = "readdress"
    <3>1. Desk!Live(f) /\ was.st = "COMPLETED" /\ new.link = was.link
      BY <1>5, <1>7, <2>2 DEF RequestWritten
    <3>2. QED
      BY <1>5, <1>6, <3>1
  <2>3. CASE s.do \in {"unfile", "link"}
    BY <1>5, <1>7, <2>3 DEF RequestWritten
  <2>4. CASE s.do = "mark"
    <3>1. s.f = f /\ s.st = "COMPLETED" /\ new.link = was.link
      BY <1>5, <1>7, <2>4 DEF RequestWritten
    <3>2. /\ 2 \in DOMAIN t /\ t[2].do = "status" /\ t[2].st = "ACTIVE"
          /\ t[2].who = onb[f].link
      BY <1>1, <1>2, <2>4, <3>1 DEF FinalOf
    <3>3. 1 \in DOMAIN r /\ r[1] = t[2]
      BY <3>2, SecondNext
    <3>4. PICK v : v = doing'[c].todo
      OBVIOUS
    <3>5. /\ 1 \in DOMAIN v /\ v[1].do = "status" /\ v[1].st = "ACTIVE"
          /\ v[1].who = onb'[f].link
      BY <1>5, <3>1, <3>2, <3>3, <3>4
    <3>6. QED
      BY <3>4, <3>5 DEF Activates
  <2>5. QED
    BY <2>1, <2>2, <2>3, <2>4 DEF OnFiles
<1>8. ASSUME NEW g \in Files, Desk!Live(g)', onb'[g].st = "COMPLETED"
      PROVE  joiner'[onb'[g].link].st # "ON_PROBATION" \/ Activates(c, onb[g].link)'
  <2>1. CASE g = f
    BY <1>5, <1>7, <1>8, <2>1
  <2>2. CASE g # f
    <3>1. onb'[g] = onb[g] /\ Desk!Live(g)
      BY <1>8, <2>2 DEF OnlyFile, Desk!Live
    <3>2. QED
      BY <1>6, <1>8, <3>1
  <2>3. QED
    BY <2>1, <2>2
<1>9. QED
  BY <1>1, <1>4, <1>8, FinalNext

LEMMA FinalStep ==
  ASSUME DeskInv, DeskInv', CallsInv, LinksInv, FinalInv, [StaffNext]_staff
  PROVE  FinalInv'
<1>1. CASE UNCHANGED <<duty, office>>
  BY <1>1 DEF office, FinalInv, FinalOf, Turn, Decided, Activates, Desk!Live, Desk!Unused,
       Desk!Serial
<1>2. CASE Crash
  BY <1>2 DEF Crash, FinalInv, Turn
<1>3. ASSUME UNCHANGED <<duty, crashed>>, ~(Turn /\ Decided)
      PROVE  FinalInv'
  BY <1>3 DEF FinalInv, Turn, Decided, Desk!Unused, Desk!Serial
<1>4. ASSUME UNCHANGED <<duty, crashed>>, Turn, Decided, NEW c \in Calls, JoiningRuns(c)
      PROVE  FinalInv'
  <2>1. PICK t, r, s : /\ Now(c, t, r, s) /\ OthersWait(c)
                       /\ FileWrote(c, s) \/ PersonWrote(c, s)
                       /\ doing'[c].todo \in {r, <<>>}
                       /\ Desk!Done(c) => doing'[c].todo = r
    BY <1>4, JoinRuns
  <2>2. CASE PersonWrote(c, s)
    BY <1>4, <2>1, <2>2, FinalPeople
  <2>3. CASE FileWrote(c, s)
    <3>1. UNCHANGED joiner /\ s.do \in OnFiles
      BY <2>3 DEF FileWrote
    <3>2. CASE UNCHANGED onb
      <4>1. FinalOf(t) /\ Busy(c) /\ t = doing[c].todo /\ t[1] = s
        BY <1>4, <2>1 DEF Now, FinalInv
      <4>2. FinalOf(doing'[c].todo)
        BY <2>1, <4>1, FinalRest
      <4>3. QED
        BY <1>4, <2>1, <3>1, <3>2, <4>1, <4>2, FinalSame DEF OnFiles
    <3>3. CASE Desk!Done(c) /\ \E f \in Files : OnlyFile(f) /\ RequestWritten(s, f, onb[f], onb'[f])
      BY <1>4, <2>1, <3>1, <3>3, FinalFiles
    <3>4. QED
      BY <2>3, <3>2, <3>3 DEF FileWrote
  <2>4. QED
    BY <2>1, <2>2, <2>3
<1>5. ASSUME UNCHANGED <<duty, crashed>>, Turn, Decided, NEW c \in Calls, Handles(c)
      PROVE  FinalInv'
  <2>1. PICK t, r, s : /\ Now(c, t, r, s) /\ OthersWait(c) /\ UNCHANGED <<joiner, onb>>
                       /\ doing'[c].todo \in {r, <<>>}
                       /\ s.do \in OnPaper \cup {"attach"} \cup OnLetters
    BY <1>5, HandleRuns DEF PaperWrote
  <2>2. FinalOf(t) /\ Busy(c) /\ t = doing[c].todo /\ t[1] = s
    BY <1>5, <2>1 DEF Now, FinalInv
  <2>3. FinalOf(doing'[c].todo)
    BY <2>1, <2>2, FinalRest
  <2>4. QED
    BY <1>5, <2>1, <2>2, <2>3, FinalSame DEF OnPaper, OnLetters
<1>6. ASSUME UNCHANGED <<duty, crashed>>, Turn, Decided, NEW c \in Calls, Looks(c)
      PROVE  FinalInv'
  <2>1. PICK t, r, s : /\ Now(c, t, r, s) /\ OthersWait(c) /\ UNCHANGED <<joiner, onb>>
                       /\ doing'[c].todo = <<>> \/ Ahead(s, doing'[c].todo)
                       /\ s.do \in {"lookup", "code", "sheet", "row", "pdf"}
    BY <1>6, LookRuns
  <2>2. PICK v : v = doing'[c].todo /\ (v = <<>> \/ Ahead(s, v))
    BY <2>1
  <2>3. \A i \in DOMAIN v : v[i].do # "mark"
    BY <2>2, AheadKinds
  <2>4. FinalOf(v) /\ Busy(c) /\ doing[c].todo[1] = s
    BY <2>1, <2>3 DEF FinalOf, Now
  <2>5. QED
    BY <1>6, <2>1, <2>2, <2>4, FinalSame
<1>7. ASSUME UNCHANGED <<duty, crashed>>, Turn, Decided, NEW c \in Calls,
             Begins(c) \/ Desk!EnterEmployee(c)
      PROVE  FinalInv'
  BY <1>7, FinalBegins, FinalEnters
<1>8. QED
  BY <1>1, <1>2, <1>3, <1>4, <1>5, <1>6, <1>7, DeskMoves DEF Joins

LEMMA WaitingNext ==
  ASSUME DeskInv, Turn, UNCHANGED duty, NEW c \in Calls,
         Busy(c) \/ c \in duty.calls, OthersWait(c),
         \A f \in Files : onb'[f].st = "PENDING" =>
           ~Desk!Employed(onb[f].who)' \/ Links(c, f)',
         \A f, g \in Files : Desk!Live(f)' /\ Desk!Live(g)' /\ onb'[f].who = onb'[g].who => f = g,
         WaitingOf(doing[c].todo)'
  PROVE  WaitingInv'
<1>1. ASSUME NEW k \in Calls, k # c
      PROVE  WaitingOf(doing[k].todo)'
  <2>1. DOMAIN doing'[k].todo = {}
    BY <1>1, OthersIdle DEF Turn
  <2>2. QED
    BY <2>1 DEF WaitingOf
<1>2. QED
  BY <1>1 DEF WaitingInv

LEMMA WaitingWas ==
  ASSUME DeskInv, WaitingInv, Turn, Unhired, NEW c \in Calls, Busy(c) \/ c \in duty.calls,
         NEW f \in Files, onb[f].st = "PENDING"
  PROVE  ~Desk!Employed(onb[f].who) \/ Links(c, f)
<1>1. \A k \in Calls : k # c => ~Links(k, f)
  BY SoleCall DEF Links, Turn
<1>2. QED
  BY <1>1 DEF WaitingInv

(* Where nobody has a request of that address, nobody has that employee.   *)
LEMMA NotYetEmployed ==
  ASSUME DeskInv, FiledInv, Turn, Unhired, NEW c \in Calls, Busy(c) \/ c \in duty.calls,
         NEW p \in People, \A g \in Files : Desk!Live(g) => onb[g].who # p, ~Covers(c, p)
  PROVE  ~Desk!Employed(p)
<1>1. Filing
  BY DEF Filing, Turn, Unhired, Desk!Unused, Desk!NotDuring
<1>2. p # Nobody
  BY DeskDuty DEF DeskInv, DeskTyped
<1>3. Desk!FileOf(p) = {}
  BY <1>1, <1>2 DEF FiledInv, OwnAddress, Desk!FileOf
<1>4. \A k \in Calls : k # c => ~Covers(k, p)
  BY SoleCall DEF Covers, Turn
<1>5. QED
  BY <1>1, <1>3, <1>4 DEF FiledInv, AllFiled

LEMMA WaitingSame ==
  ASSUME DeskInv, WaitingInv, Turn, Unhired, UNCHANGED <<duty, onb>>, NEW c \in Calls,
         Busy(c) \/ c \in duty.calls, OthersWait(c), WaitingOf(doing'[c].todo),
         \A p \in People : Desk!Employed(p)' => Desk!Employed(p),
         1 \in DOMAIN doing[c].todo => doing[c].todo[1].do # "link"
  PROVE  WaitingInv'
<1>1. WaitingOf(doing[c].todo)'
  BY DEF WaitingOf, Desk!Live
<1>2. ASSUME NEW f \in Files, onb'[f].st = "PENDING"
      PROVE  ~Desk!Employed(onb[f].who)'
  <2>1. PICK p \in People : p = onb[f].who
    BY <1>2 DEF DeskInv, DeskTyped, Desk!Live
  <2>2. ~Desk!Employed(p)
    BY <1>2, <2>1, WaitingWas DEF Links
  <2>3. ~Desk!Employed(p)'
    BY <2>2
  <2>4. QED
    BY <2>1, <2>3 DEF Desk!Employed
<1>3. \A f, g \in Files : Desk!Live(f)' /\ Desk!Live(g)' /\ onb'[f].who = onb'[g].who => f = g
  BY DEF WaitingInv, Desk!Live
<1>4. QED
  BY <1>1, <1>2, <1>3, WaitingNext

LEMMA WaitingRest ==
  ASSUME NEW c, NEW t, NEW r, NEW s, Now(c, t, r, s), WaitingOf(t)
  PROVE  /\ \A i \in DOMAIN r : r[i].do \notin {"file", "readdress"}
         /\ WaitingOf(r) /\ WaitingOf(<<>>)
<1>1. ASSUME NEW i \in DOMAIN r
      PROVE  r[i].do \notin {"file", "readdress"}
  <2>1. PICK j \in DOMAIN t : j # 1 /\ t[j] = r[i]
    BY <1>1 DEF Now
  <2>2. QED
    BY <2>1 DEF WaitingOf
<1>2. WaitingOf(<<>>)
  BY DEF WaitingOf
<1>3. QED
  BY <1>1, <1>2 DEF WaitingOf

LEMMA WaitingBegins ==
  ASSUME DeskInv, DeskInv', FiledInv, WaitingInv, Turn, Unhired, UNCHANGED duty,
         NEW c \in Calls, Begins(c)
  PROVE  WaitingInv'
<1>1. PICK op : /\ Fresh(op, doing'[c].todo) /\ OthersWait(c) /\ c \in duty.calls
                /\ op \in duty.ops /\ UNCHANGED <<onb, joiner>> /\ doing[c] = Desk!Idle
  BY BeginRuns
<1>2. PICK v : v = doing'[c].todo
  OBVIOUS
<1>3. Paired(op, v) /\ \A i \in DOMAIN v : v[i] \in Statement /\ Found(op, v[i])
  BY <1>1, <1>2, NextTyped DEF Fresh
<1>4. doing[c].todo = <<>> /\ DOMAIN <<>> = {}
  BY <1>1 DEF Desk!Idle
<1>5. \A p \in People : ~Covers(c, p)
  BY <1>4 DEF Covers
<1>6. ASSUME NEW s \in Statement, Found(op, s), s.do = "file"
      PROVE  op \notin Long /\ \A g \in Files : Desk!Live(g) => onb[g].who # s.row.who
  <2>1. s.row \in Filed
    BY <1>6, JoiningParts
  <2>2. CASE s.row.link = Nobody
    BY <1>6, <2>2 DEF Found, Belongs, Long
  <2>3. CASE s.row.link # Nobody
    <3>1. op \in {"myStatus", "bulk"}
      BY <1>6, <2>3 DEF Found, Belongs
    <3>2. op = "myStatus"
      BY <1>1, <3>1 DEF Unhired, Desk!Unused
    <3>3. PICK p \in People : p = s.row.link
      BY <2>1, <2>3 DEF Filed, Desk!OnboardingRequest
    <3>4. Desk!Employed(p) /\ Desk!FileOf(p) = {}
      BY <1>6, <2>3, <3>3 DEF Found
    <3>5. Filing
      BY DEF Filing, Turn, Unhired, Desk!Unused, Desk!NotDuring
    <3>6. PICK k \in Calls : Covers(k, p)
      BY <3>4, <3>5 DEF FiledInv, AllFiled
    <3>7. k # c => ~Covers(k, p)
      BY <1>1, <3>6, SoleCall DEF Covers, Turn
    <3>8. QED
      BY <1>5, <3>6, <3>7
  <2>4. QED
    BY <2>2, <2>3
<1>7. ASSUME NEW s \in Statement, Found(op, s), s.do = "readdress"
      PROVE  op \notin Long /\ \A g \in Files : Desk!Live(g) => onb[g].who # s.who
  BY <1>7 DEF Found, Belongs, Long
<1>8. WaitingOf(v)
  <2>1. op \notin Long => \A j \in DOMAIN v : j = 1
    BY <1>3 DEF Paired
  <2>2. QED
    BY <1>3, <1>6, <1>7, <2>1 DEF WaitingOf
<1>9. \A p \in People : Desk!Employed(p)' => Desk!Employed(p)
  BY <1>1 DEF Desk!Employed
<1>10. WaitingOf(doing'[c].todo) /\ 1 \notin DOMAIN doing[c].todo
  BY <1>2, <1>4, <1>8
<1>11. QED
  BY <1>1, <1>9, <1>10, WaitingSame

(* The request whose joiner is employed is linked next.                    *)
LEMMA WaitingEnters ==
  ASSUME DeskInv, CallsInv, LinksInv, WaitingInv, Turn, Unhired, UNCHANGED duty,
         NEW c \in Calls, Desk!EnterEmployee(c)
  PROVE  WaitingInv'
<1>1. PICK t, r, s, v : /\ Now(c, t, r, s) /\ s.do = "enter" /\ v = doing'[c].todo
                        /\ Entered(s, v)
  BY Entering
<1>2. OthersWait(c) /\ UNCHANGED onb /\ Busy(c) /\ t = doing[c].todo /\ t[1] = s /\ 1 \in DOMAIN t
  BY <1>1, Entering DEF Now
<1>3. WaitingOf(v)
  BY <1>1 DEF Entered, Linking, WaitingOf
<1>4. CASE UNCHANGED joiner
  <2>1. \A p \in People : Desk!Employed(p)' => Desk!Employed(p)
    BY <1>4 DEF Desk!Employed
  <2>2. QED
    BY <1>1, <1>2, <1>3, <2>1, WaitingSame
<1>5. CASE ~UNCHANGED joiner
  <2>1. Belongs(doing[c].op, s) /\ doing[c].op \in duty.ops
    BY <1>2 DEF CallsInv
  <2>2. s.f # 0
    BY <1>1, <2>1 DEF Belongs, Unhired, Desk!Unused
  <2>3. Linking(s, v) /\ s.who \in People /\ OnlyPerson(s.who)
    BY <1>1, <1>5, <2>2 DEF Entered
  <2>4. onb[s.f].st = "PENDING" /\ onb[s.f].who = s.who
    BY <1>1, <1>2, <2>2 DEF LinksInv, LinksOf
  <2>5. Links(c, s.f)'
    BY <1>1, <2>3 DEF Linking, Links
  <2>6. ASSUME NEW f \in Files, onb'[f].st = "PENDING"
        PROVE  ~Desk!Employed(onb[f].who)' \/ Links(c, f)'
    <3>1. PICK p \in People : p = onb[f].who
      BY <1>2, <2>6 DEF DeskInv, DeskTyped, Desk!Live
    <3>2. CASE p = s.who
      <4>1. f = s.f
        BY <1>2, <2>3, <2>4, <2>6, <3>1, <3>2 DEF WaitingInv, Linking, Desk!Live
      <4>2. QED
        BY <2>5, <4>1
    <3>3. CASE p # s.who
      <4>1. joiner'[p] = joiner[p]
        BY <2>3, <3>3 DEF OnlyPerson
      <4>2. ~Desk!Employed(p)
        BY <1>1, <1>2, <2>6, <3>1, WaitingWas DEF Links
      <4>3. QED
        BY <1>2, <3>1, <4>1, <4>2 DEF Desk!Employed
    <3>4. QED
      BY <3>2, <3>3
  <2>7. \A f, g \in Files : Desk!Live(f)' /\ Desk!Live(g)' /\ onb'[f].who = onb'[g].who => f = g
    BY <1>2 DEF WaitingInv, Desk!Live
  <2>8. WaitingOf(doing[c].todo)'
    <3>1. \A i \in DOMAIN v : v[i].do = "link"
      BY <2>3 DEF Linking
    <3>2. QED
      BY <1>1, <3>1 DEF WaitingOf
  <2>9. QED
    BY <1>2, <2>6, <2>7, <2>8, WaitingNext
<1>6. QED
  BY <1>4, <1>5

(* A link is refused only where its request is gone or names somebody with *)
(* a request of its own.                                                   *)
LEMMA WaitingRefused ==
  ASSUME DeskInv, CallsInv, LinksInv, WaitingInv, Turn, Unhired, UNCHANGED <<duty, onb, joiner>>,
         NEW c \in Calls, NEW t, NEW r, NEW s, Now(c, t, r, s), OthersWait(c),
         doing'[c].todo \in {r, <<>>},
         s.do = "link" => ~Desk!Live(s.f) \/ ~(Desk!FileOf(s.who) \subseteq {s.f})
  PROVE  WaitingInv'
<1>1. /\ t[1] = s /\ 1 \in DOMAIN t /\ t = doing[c].todo /\ Busy(c) /\ s \in Statement
  BY DEF Now
<1>2. WaitingOf(doing'[c].todo)
  <2>1. WaitingOf(t)
    BY <1>1 DEF WaitingInv
  <2>2. QED
    BY <2>1, WaitingRest
<1>3. s.do # "link"
  <2>1. SUFFICES ASSUME s.do = "link" PROVE FALSE
    OBVIOUS
  <2>2. s.f \in Files /\ s.who \in People /\ s.f # 0
    BY <1>1, <2>1, JoiningParts, DeskDuty DEF DeskInv, DeskTyped
  <2>3. onb[s.f].st = "PENDING" /\ onb[s.f].who = s.who
    BY <1>1, <2>1, <2>2 DEF LinksInv, LinksOf
  <2>4. s.who # Nobody
    BY <2>2, DeskDuty DEF DeskInv, DeskTyped
  <2>5. ASSUME NEW g \in Desk!FileOf(s.who)
        PROVE  g = s.f
    <3>1. g \in Files /\ Desk!Live(g) /\ onb[g].link = s.who
      BY <2>5 DEF Desk!FileOf
    <3>2. onb[g].who = s.who
      BY <2>4, <3>1 DEF LinksInv, LinkedRow
    <3>3. QED
      BY <2>2, <2>3, <3>1, <3>2 DEF WaitingInv, Desk!Live
  <2>6. Desk!Live(s.f)
    BY <2>3 DEF Desk!Live
  <2>7. QED
    BY <2>1, <2>5, <2>6
<1>4. \A p \in People : Desk!Employed(p)' => Desk!Employed(p)
  BY DEF Desk!Employed
<1>5. QED
  BY <1>1, <1>2, <1>3, <1>4, WaitingSame

LEMMA WaitingFiles ==
  ASSUME DeskInv, CallsInv, FiledInv, LinksInv, WaitingInv, Turn, Unhired,
         UNCHANGED <<duty, joiner>>,
         NEW c \in Calls, NEW t, NEW r, NEW s, Now(c, t, r, s), OthersWait(c),
         doing'[c].todo \in {r, <<>>}, s.do \in OnFiles,
         NEW f \in Files, OnlyFile(f), RequestWritten(s, f, onb[f], onb'[f])
  PROVE  WaitingInv'
<1>1. /\ t[1] = s /\ 1 \in DOMAIN t /\ t = doing[c].todo /\ Busy(c) /\ s \in Statement
  BY DEF Now
<1>2. WaitingOf(t)
  BY <1>1 DEF WaitingInv
<1>3. WaitingOf(doing[c].todo)'
  <2>1. \A i \in DOMAIN r : r[i].do \notin {"file", "readdress"}
    BY <1>2, WaitingRest
  <2>2. PICK v : v = doing'[c].todo /\ v \in {r, <<>>}
    OBVIOUS
  <2>3. \A i \in DOMAIN v : v[i].do \notin {"file", "readdress"}
    BY <2>1, <2>2
  <2>4. QED
    BY <2>2, <2>3 DEF WaitingOf
<1>4. PICK was, new : was = onb[f] /\ new = onb'[f] /\ RequestWritten(s, f, was, new)
  OBVIOUS
<1>5. ASSUME Desk!Live(f)'
      PROVE  /\ \/ Desk!Live(f) /\ new.who = was.who
                \/ \A g \in Files : Desk!Live(g) => onb[g].who # new.who
             /\ new.st = "PENDING" => ~Desk!Employed(new.who)
  <2>1. CASE s.do = "file"
    <3>1. new = s.row /\ s.row \in Filed
      BY <1>1, <1>4, <2>1, JoiningParts DEF RequestWritten
    <3>2. \A g \in Files : Desk!Live(g) => onb[g].who # new.who
      BY <1>1, <1>2, <2>1, <3>1 DEF WaitingOf
    <3>3. ASSUME new.st = "PENDING"
          PROVE  ~Desk!Employed(new.who)
      <4>1. new.link = Nobody /\ new.who \in People
        <5>1. Belongs(doing[c].op, s)
          BY <1>1 DEF CallsInv
        <5>2. QED
          BY <2>1, <3>1, <3>3, <5>1 DEF Filed, Belongs
      <4>2. ~Covers(c, new.who)
        <5>1. new.who # Nobody
          BY <4>1, DeskDuty DEF DeskInv, DeskTyped
        <5>2. s.row.link = Nobody
          BY <3>1, <4>1
        <5>3. QED
          BY <1>1, <2>1, <5>1, <5>2 DEF Covers
      <4>3. QED
        BY <1>1, <3>2, <4>1, <4>2, NotYetEmployed
    <3>4. QED
      BY <3>2, <3>3
  <2>2. CASE s.do = "readdress"
    <3>1. new.who = s.who /\ s.who \in People
      BY <1>1, <1>4, <2>2, JoiningParts DEF RequestWritten
    <3>2. \A g \in Files : Desk!Live(g) => onb[g].who # new.who
      BY <1>1, <1>2, <2>2, <3>1 DEF WaitingOf
    <3>3. ~Covers(c, new.who)
      BY <1>1, <2>2 DEF Covers
    <3>4. QED
      BY <1>1, <3>1, <3>2, <3>3, NotYetEmployed
  <2>3. CASE s.do = "unfile"
    BY <1>4, <1>5, <2>3 DEF RequestWritten, Desk!Live
  <2>4. CASE s.do = "mark"
    <3>1. Desk!Live(f) /\ new.st = s.st /\ new.who = was.who
      BY <1>4, <2>4 DEF RequestWritten
    <3>2. s.st \in Marks
      BY <1>1, <2>4, JoiningParts
    <3>3. QED
      BY <3>1, <3>2 DEF Marks
  <2>5. CASE s.do = "link"
    BY <1>4, <2>5 DEF RequestWritten
  <2>6. QED
    BY <2>1, <2>2, <2>3, <2>4, <2>5 DEF OnFiles
<1>6. ASSUME NEW g \in Files, g # f
      PROVE  onb'[g] = onb[g] /\ (Desk!Live(g)' <=> Desk!Live(g))
  BY <1>6 DEF OnlyFile, Desk!Live
<1>7. ASSUME NEW g \in Files, onb'[g].st = "PENDING"
      PROVE  ~Desk!Employed(onb[g].who)'
  <2>1. CASE g = f
    <3>1. ~Desk!Employed(new.who)
      BY <1>4, <1>5, <1>7, <2>1 DEF Desk!Live
    <3>2. QED
      BY <1>4, <2>1, <3>1 DEF Desk!Employed
  <2>2. CASE g # f
    <3>1. onb[g].st = "PENDING" /\ onb'[g] = onb[g]
      BY <1>6, <1>7, <2>2
    <3>2. ~Links(c, g)
      BY <1>1, <1>4, <2>2 DEF Links, RequestWritten
    <3>3. ~Desk!Employed(onb[g].who)
      BY <1>1, <3>1, <3>2, WaitingWas
    <3>4. QED
      BY <3>1, <3>3 DEF Desk!Employed
  <2>3. QED
    BY <2>1, <2>2
<1>8. ASSUME NEW g \in Files, NEW h \in Files, Desk!Live(g)', Desk!Live(h)',
             onb'[g].who = onb'[h].who, g # h
      PROVE  FALSE
  <2>1. CASE g # f /\ h # f
    BY <1>6, <1>8, <2>1 DEF WaitingInv
  <2>2. CASE g = f
    BY <1>4, <1>5, <1>6, <1>8, <2>2 DEF WaitingInv
  <2>3. CASE h = f
    BY <1>4, <1>5, <1>6, <1>8, <2>3 DEF WaitingInv
  <2>4. QED
    BY <2>1, <2>2, <2>3
<1>9. QED
  BY <1>1, <1>3, <1>7, <1>8, WaitingNext

LEMMA WaitingPeople ==
  ASSUME DeskInv, CallsInv, WaitingInv, Turn, Unhired, UNCHANGED duty, NEW c \in Calls,
         NEW t, NEW r, NEW s, Now(c, t, r, s), OthersWait(c), PersonWrote(c, s),
         doing'[c].todo \in {r, <<>>}
  PROVE  WaitingInv'
<1>1. /\ t[1] = s /\ 1 \in DOMAIN t /\ t = doing[c].todo /\ Busy(c) /\ s \in Statement
      /\ UNCHANGED onb /\ s.do \in OnPeople
  BY DEF Now, PersonWrote
<1>2. WaitingOf(doing'[c].todo)
  <2>1. WaitingOf(t)
    BY <1>1 DEF WaitingInv
  <2>2. QED
    BY <2>1, WaitingRest
<1>3. s.do # "employ"
  <2>1. doing[c].op \in duty.ops /\ Belongs(doing[c].op, s)
    BY <1>1 DEF CallsInv
  <2>2. QED
    BY <2>1 DEF Belongs, Unhired, Desk!Unused
<1>4. ASSUME NEW p \in People, Desk!Employed(p)'
      PROVE  Desk!Employed(p)
  <2>1. CASE UNCHANGED joiner
    BY <1>4, <2>1 DEF Desk!Employed
  <2>2. CASE ~UNCHANGED joiner /\ p # s.who
    <3>1. joiner'[p] = joiner[p]
      BY <2>2 DEF PersonWrote, OnlyPerson
    <3>2. QED
      BY <1>4, <3>1 DEF Desk!Employed
  <2>3. CASE ~UNCHANGED joiner /\ p = s.who /\ s.do = "status"
    <3>1. Employing(t)
      BY <1>1 DEF DeskInv, EmployedInv
    <3>2. QED
      BY <1>1, <2>3, <3>1 DEF Employing
  <2>4. CASE ~UNCHANGED joiner /\ p = s.who /\ s.do # "status"
    <3>1. joiner'[p].st = joiner[p].st
      BY <1>1, <1>3, <2>4 DEF PersonWrote, PersonWritten, OnPeople
    <3>2. QED
      BY <1>4, <3>1 DEF Desk!Employed
  <2>5. QED
    BY <2>1, <2>2, <2>3, <2>4
<1>5. QED
  BY <1>1, <1>2, <1>4, WaitingSame DEF OnPeople

LEMMA WaitingStep ==
  ASSUME DeskInv, DeskInv', CallsInv, FiledInv, LinksInv, WaitingInv, [StaffNext]_staff
  PROVE  WaitingInv'
<1>1. CASE UNCHANGED <<duty, office>>
  BY <1>1 DEF office, WaitingInv, WaitingOf, Turn, Unhired, Links, Desk!Live, Desk!Employed,
       Desk!Unused, Desk!Serial
<1>2. CASE Crash
  BY <1>2 DEF Crash, WaitingInv, Turn
<1>3. ASSUME UNCHANGED <<duty, crashed>>, ~(Turn /\ Unhired)
      PROVE  WaitingInv'
  BY <1>3 DEF WaitingInv, Turn, Unhired, Desk!Unused, Desk!Serial
<1>4. ASSUME UNCHANGED <<duty, crashed>>, Turn, Unhired, NEW c \in Calls, JoiningRuns(c)
      PROVE  WaitingInv'
  <2>1. PICK t, r, s : /\ Now(c, t, r, s) /\ OthersWait(c)
                       /\ FileWrote(c, s) \/ PersonWrote(c, s)
                       /\ doing'[c].todo \in {r, <<>>}
    BY <1>4, JoinRuns
  <2>2. CASE PersonWrote(c, s)
    BY <1>4, <2>1, <2>2, WaitingPeople
  <2>3. CASE FileWrote(c, s)
    <3>1. UNCHANGED joiner /\ s.do \in OnFiles
      BY <2>3 DEF FileWrote
    <3>2. CASE /\ UNCHANGED onb
               /\ s.do = "link" => ~Desk!Live(s.f) \/ ~(Desk!FileOf(s.who) \subseteq {s.f})
      BY <1>4, <2>1, <3>1, <3>2, WaitingRefused
    <3>3. CASE \E f \in Files : OnlyFile(f) /\ RequestWritten(s, f, onb[f], onb'[f])
      BY <1>4, <2>1, <3>1, <3>3, WaitingFiles
    <3>4. QED
      BY <2>3, <3>2, <3>3 DEF FileWrote
  <2>4. QED
    BY <2>1, <2>2, <2>3
<1>5. ASSUME UNCHANGED <<duty, crashed>>, Turn, Unhired, NEW c \in Calls, Handles(c)
      PROVE  WaitingInv'
  <2>1. PICK t, r, s : /\ Now(c, t, r, s) /\ OthersWait(c) /\ UNCHANGED <<joiner, onb>>
                       /\ doing'[c].todo \in {r, <<>>}
                       /\ s.do \in OnPaper \cup {"attach"} \cup OnLetters
    BY <1>5, HandleRuns DEF PaperWrote
  <2>2. s.do # "link"
    BY <2>1 DEF OnPaper, OnLetters
  <2>3. QED
    BY <1>5, <2>1, <2>2, WaitingRefused
<1>6. ASSUME UNCHANGED <<duty, crashed>>, Turn, Unhired, NEW c \in Calls, Looks(c)
      PROVE  WaitingInv'
  <2>1. PICK t, r, s : /\ Now(c, t, r, s) /\ OthersWait(c) /\ UNCHANGED <<joiner, onb>>
                       /\ doing'[c].todo = <<>> \/ Ahead(s, doing'[c].todo)
                       /\ s.do \in {"lookup", "code", "sheet", "row", "pdf"}
    BY <1>6, LookRuns
  <2>2. PICK v : v = doing'[c].todo /\ (v = <<>> \/ Ahead(s, v))
    BY <2>1
  <2>3. Busy(c) /\ doing[c].todo[1] = s /\ 1 \in DOMAIN doing[c].todo
    BY <2>1 DEF Now
  <2>4. s.do \notin {"sheet", "row"}
    <3>1. doing[c].op \in duty.ops /\ Belongs(doing[c].op, s)
      BY <2>3 DEF CallsInv
    <3>2. QED
      BY <1>6, <3>1 DEF Belongs, Unhired, Desk!Unused
  <2>5. \A i \in DOMAIN v : v[i].do \notin {"file", "readdress"}
    BY <2>1, <2>2, <2>4 DEF Ahead
  <2>6. WaitingOf(v)
    BY <2>5 DEF WaitingOf
  <2>7. \A p \in People : Desk!Employed(p)' => Desk!Employed(p)
    BY <2>1 DEF Desk!Employed
  <2>8. QED
    BY <1>6, <2>1, <2>2, <2>3, <2>6, <2>7, WaitingSame
<1>7. ASSUME UNCHANGED <<duty, crashed>>, Turn, Unhired, NEW c \in Calls,
             Begins(c) \/ Desk!EnterEmployee(c)
      PROVE  WaitingInv'
  BY <1>7, WaitingBegins, WaitingEnters
<1>8. QED
  BY <1>1, <1>2, <1>3, <1>4, <1>5, <1>6, <1>7, DeskMoves DEF Joins

LEMMA CodesNext ==
  ASSUME DeskInv, Turn, UNCHANGED duty, NEW c \in Calls,
         Busy(c) \/ c \in duty.calls, OthersWait(c),
         \A p \in People : login'[p] = "bare" => Employs(c, p)',
         CodesOf(doing[c].todo)'
  PROVE  CodesInv'
<1>1. ASSUME NEW k \in Calls, k # c
      PROVE  CodesOf(doing[k].todo)'
  <2>1. DOMAIN doing'[k].todo = {}
    BY <1>1, OthersIdle DEF Turn
  <2>2. QED
    BY <2>1 DEF CodesOf
<1>2. QED
  BY <1>1 DEF CodesInv

LEMMA CodesWas ==
  ASSUME DeskInv, CodesInv, Turn, NEW c \in Calls, Busy(c) \/ c \in duty.calls,
         NEW p \in People, login[p] = "bare"
  PROVE  Employs(c, p)
<1>1. \A k \in Calls : k # c => ~Employs(k, p)
  BY SoleCall DEF Employs, Turn
<1>2. QED
  BY <1>1 DEF CodesInv

LEMMA NextIsHigher ==
  ASSUME DeskInv
  PROVE  /\ Desk!Codes \subseteq Nat /\ \A n \in Desk!Codes : n < Desk!NextCode
<1>1. MaxCode \in Nat /\ joiner \in [People -> Desk!Employee]
  BY DeskDuty DEF DeskInv, DeskTyped, Desk!JoiningTypeOK
<1>2. Desk!Codes \cup {0} \in SUBSET (0 .. MaxCode) /\ Desk!Codes \cup {0} # {}
  BY <1>1 DEF Desk!Codes, Desk!Employee
<1>3. \E n \in Desk!Codes \cup {0} : \A m \in Desk!Codes \cup {0} : n >= m
  BY <1>1, <1>2, LargestOf
<1>4. \E n \in Desk!Codes \cup {0} : \A m \in Desk!Codes : m <= n
  BY <1>2, <1>3
<1>5. PICK n : n = CHOOSE k \in Desk!Codes \cup {0} : \A m \in Desk!Codes : m <= k
  OBVIOUS
<1>6. n \in 0 .. MaxCode /\ \A m \in Desk!Codes : m <= n
  BY <1>2, <1>4, <1>5
<1>7. Desk!NextCode = 1 + n
  BY <1>5 DEF Desk!NextCode
<1>8. QED
  BY <1>1, <1>2, <1>6, <1>7

LEMMA CodesSame ==
  ASSUME DeskInv, CodesInv, Turn, UNCHANGED <<duty, login, joiner>>, NEW c \in Calls,
         Busy(c) \/ c \in duty.calls, OthersWait(c), CodesOf(doing'[c].todo),
         1 \in DOMAIN doing[c].todo => doing[c].todo[1].do # "employ"
  PROVE  CodesInv'
<1>1. PICK v : v = doing'[c].todo
  OBVIOUS
<1>2. Desk!Codes' = Desk!Codes
  BY DEF Desk!Codes, Desk!Employed
<1>3. CodesOf(v)'
  BY <1>1, <1>2 DEF CodesOf
<1>4. CodesOf(doing[c].todo)'
  BY <1>1, <1>3 DEF CodesOf
<1>5. \A p \in People : login'[p] # "bare"
  BY CodesWas DEF Employs
<1>6. QED
  BY <1>4, <1>5, CodesNext

(* An employee's statement comes after its login's, and a row's last.      *)
LEMMA CodesRest ==
  ASSUME NEW c, NEW t, NEW r, NEW s, Now(c, t, r, s), CodesOf(t)
  PROVE  /\ \A i \in DOMAIN r :
              /\ r[i].do # "login"
              /\ r[i].do \in {"row", "employ"} => \A n \in Desk!Codes : n < r[i].code
              /\ r[i].do = "employ" =>
                   /\ i = 1 /\ s.do = "login" /\ s.who = r[i].who
                   /\ \A j \in DOMAIN r : r[j].do = "row" => r[i].code < r[j].code
              /\ s.do = "employ" /\ r[i].do = "row" => s.code < r[i].code
         /\ s.do # "login" => CodesOf(r)
         /\ CodesOf(<<>>)
<1>1. ASSUME NEW i \in DOMAIN r
      PROVE  /\ r[i].do # "login"
             /\ r[i].do \in {"row", "employ"} => \A n \in Desk!Codes : n < r[i].code
             /\ r[i].do = "employ" =>
                  /\ i = 1 /\ s.do = "login" /\ s.who = r[i].who
                  /\ \A j \in DOMAIN r : r[j].do = "row" => r[i].code < r[j].code
             /\ s.do = "employ" /\ r[i].do = "row" => s.code < r[i].code
  <2>1. PICK j \in DOMAIN t : j = i + 1 /\ t[j] = r[i] /\ j # 1 /\ t[1] = s /\ i \in Nat
    BY <1>1 DEF Now
  <2>2. 1 \in DOMAIN t
    BY DEF Now
  <2>3. r[i].do # "login"
    BY <2>1 DEF CodesOf
  <2>4. r[i].do \in {"row", "employ"} => \A n \in Desk!Codes : n < r[i].code
    BY <2>1 DEF CodesOf
  <2>5. r[i].do = "employ" => i = 1 /\ s.do = "login" /\ s.who = r[i].who
    BY <2>1 DEF CodesOf
  <2>6. ASSUME r[i].do = "employ", NEW m \in DOMAIN r, r[m].do = "row"
        PROVE  r[i].code < r[m].code
    <3>1. PICK k \in DOMAIN t : t[k] = r[m]
      BY <2>6 DEF Now
    <3>2. QED
      BY <2>1, <2>6, <3>1 DEF CodesOf
  <2>7. s.do = "employ" /\ r[i].do = "row" => s.code < r[i].code
    BY <2>1, <2>2 DEF CodesOf
  <2>8. QED
    BY <2>3, <2>4, <2>5, <2>6, <2>7
<1>2. s.do # "login" => CodesOf(r)
  BY <1>1 DEF CodesOf
<1>3. CodesOf(<<>>)
  BY DEF CodesOf
<1>4. QED
  BY <1>1, <1>2, <1>3

LEMMA CodesBegins ==
  ASSUME DeskInv, DeskInv', CodesInv, Turn, UNCHANGED duty, NEW c \in Calls, Begins(c)
  PROVE  CodesInv'
<1>1. PICK op : /\ Fresh(op, doing'[c].todo) /\ OthersWait(c) /\ c \in duty.calls
                /\ UNCHANGED <<login, joiner>> /\ doing[c] = Desk!Idle
  BY BeginRuns
<1>2. PICK v : v = doing'[c].todo
  OBVIOUS
<1>3. \A i \in DOMAIN v : Found(op, v[i])
  BY <1>1, <1>2 DEF Fresh
<1>4. \A i \in DOMAIN v : v[i].do \notin {"row", "login", "employ"}
  BY <1>3 DEF Found
<1>5. CodesOf(v)
  BY <1>4 DEF CodesOf
<1>6. doing[c].todo = <<>> /\ DOMAIN <<>> = {}
  BY <1>1 DEF Desk!Idle
<1>7. CodesOf(doing'[c].todo) /\ 1 \notin DOMAIN doing[c].todo
  BY <1>2, <1>5, <1>6
<1>8. QED
  BY <1>1, <1>7, CodesSame

LEMMA CodesLooks ==
  ASSUME DeskInv, CodesInv, Turn, UNCHANGED duty, NEW c \in Calls, Looks(c)
  PROVE  CodesInv'
<1>1. PICK t, r, s : /\ Now(c, t, r, s) /\ OthersWait(c) /\ UNCHANGED <<login, joiner>>
                     /\ doing'[c].todo = <<>> \/ Ahead(s, doing'[c].todo)
                     /\ s.do \in {"lookup", "code", "sheet", "row", "pdf"}
  BY LookRuns
<1>2. PICK v : v = doing'[c].todo /\ (v = <<>> \/ Ahead(s, v))
  BY <1>1
<1>3. /\ Busy(c) /\ doing[c].todo[1] = s /\ 1 \in DOMAIN doing[c].todo /\ CodesOf(doing[c].todo)
      /\ s \in Statement
  BY <1>1 DEF Now, CodesInv
<1>4. s.do = "row" => s.code \in Nat /\ \A n \in Desk!Codes : n < s.code
  BY <1>3, JoiningParts DEF CodesOf
<1>5. CodesOf(v)
  <2>1. CASE v = <<>>
    BY <2>1 DEF CodesOf
  <2>2. CASE s.do \in {"lookup", "code", "pdf"} /\ v # <<>>
    <3>1. \A i \in DOMAIN v : v[i].do \notin {"row", "login", "employ"}
      BY <1>2, <2>2 DEF Ahead
    <3>2. QED
      BY <3>1 DEF CodesOf
  <2>3. CASE s.do = "sheet" /\ v # <<>>
    <3>1. DOMAIN v = {1} /\ v[1].do = "row" /\ v[1].code = Desk!NextCode
      BY <1>2, <2>3 DEF Ahead
    <3>2. QED
      BY <3>1, NextIsHigher DEF CodesOf
  <2>4. CASE /\ s.do = "row" /\ DOMAIN v \subseteq {1}
             /\ (1 \in DOMAIN v => v[1].do = "row" /\ v[1].code = s.code)
    BY <1>4, <2>4 DEF CodesOf
  <2>5. ASSUME s.do = "row", NEW p \in People, login[p] = "none", RowOf(p, s.code, v)
        PROVE  CodesOf(v)
    <3>1. /\ 1 \in DOMAIN v /\ v[1].do = "login" /\ v[1].who = p
          /\ 2 \in DOMAIN v /\ v[2].do = "employ" /\ v[2].who = p /\ v[2].code = s.code
          /\ v[3].do = "file"
          /\ \A i \in DOMAIN v : i \in {1, 2, 3} \/ (v[i].do = "row" /\ v[i].code = s.code + 1)
      BY <2>5 DEF RowOf
    <3>2. ASSUME NEW i \in DOMAIN v
          PROVE  /\ v[i].do \in {"row", "employ"} => \A n \in Desk!Codes : n < v[i].code
                 /\ v[i].do = "employ" => i = 2 /\ v[i].code = s.code /\ v[i].who = p
                 /\ v[i].do = "login" => i = 1
                 /\ v[i].do = "row" => s.code < v[i].code
      <4>1. CASE i \in {1, 2, 3}
        BY <1>4, <2>5, <3>1, <4>1
      <4>2. CASE v[i].do = "row" /\ v[i].code = s.code + 1
        BY <1>4, <2>5, <4>2, NextIsHigher
      <4>3. QED
        BY <3>1, <4>1, <4>2
    <3>3. QED
      BY <2>5, <3>1, <3>2 DEF CodesOf
  <2>6. QED
    BY <1>1, <1>2, <2>1, <2>2, <2>3, <2>4, <2>5 DEF Ahead
<1>6. CodesOf(doing'[c].todo)
  BY <1>2, <1>5
<1>7. QED
  BY <1>1, <1>3, <1>6, CodesSame

LEMMA CodesEnters ==
  ASSUME DeskInv, CodesInv, Turn, UNCHANGED duty, NEW c \in Calls, Desk!EnterEmployee(c)
  PROVE  CodesInv'
<1>1. PICK t, r, s, v : /\ Now(c, t, r, s) /\ s.do = "enter" /\ v = doing'[c].todo
                        /\ Entered(s, v)
  BY Entering
<1>2. OthersWait(c) /\ Busy(c) /\ doing[c].todo[1] = s
  BY <1>1, Entering DEF Now
<1>3. CodesOf(doing[c].todo)'
  <2>1. \A i \in DOMAIN v : v[i].do = "link"
    BY <1>1 DEF Entered, Linking
  <2>2. QED
    BY <1>1, <2>1 DEF CodesOf
<1>4. ASSUME NEW p \in People, login'[p] = "bare"
      PROVE  FALSE
  <2>1. login[p] = "bare"
    BY <1>1, <1>4 DEF Entered, OnlyPerson
  <2>2. Employs(c, p)
    BY <1>2, <2>1, CodesWas
  <2>3. QED
    BY <1>1, <1>2, <2>2 DEF Employs
<1>5. QED
  BY <1>2, <1>3, <1>4, CodesNext

LEMMA CodesAside ==
  ASSUME DeskInv, CodesInv, Turn, UNCHANGED <<duty, login, joiner>>, NEW c \in Calls,
         NEW t, NEW r, NEW s, Now(c, t, r, s), OthersWait(c), doing'[c].todo \in {r, <<>>},
         s.do \notin {"login", "employ"}
  PROVE  CodesInv'
<1>1. CodesOf(t) /\ Busy(c) /\ t = doing[c].todo /\ t[1] = s
  BY DEF Now, CodesInv
<1>2. CodesOf(doing'[c].todo)
  BY <1>1, CodesRest
<1>3. QED
  BY <1>1, <1>2, CodesSame

LEMMA CodesPeople ==
  ASSUME DeskInv, CallsInv, CodesInv, Turn, UNCHANGED duty, NEW c \in Calls,
         NEW t, NEW r, NEW s, Now(c, t, r, s), OthersWait(c), PersonWrote(c, s),
         doing'[c].todo \in {r, <<>>}, Desk!Done(c) => doing'[c].todo = r
  PROVE  CodesInv'
<1>1. /\ t[1] = s /\ 1 \in DOMAIN t /\ t = doing[c].todo /\ Busy(c) /\ s \in Statement
      /\ s.do \in OnPeople
  BY DEF Now, PersonWrote
<1>2. CodesOf(t)
  BY <1>1 DEF CodesInv
<1>3. /\ s.do = "login" => login[s.who] = "none"
      /\ s.do = "employ" => login[s.who] = "bare" /\ s.code \notin Desk!Codes /\ s.code \in Nat
  <2>1. s.do = "login" => login[s.who] = "none"
    BY <1>1, <1>2 DEF CodesOf
  <2>2. ASSUME s.do = "employ"
        PROVE  login[s.who] = "bare" /\ s.code \notin Desk!Codes /\ s.code \in Nat
    <3>1. s.code \in Nat
      BY <1>1, <2>2, JoiningParts, DeskDuty DEF Code, DeskInv, DeskTyped
    <3>2. \A n \in Desk!Codes : n < s.code
      BY <1>1, <1>2, <2>2 DEF CodesOf
    <3>3. login[s.who] = "bare"
      BY <1>1, <1>2, <2>2 DEF CodesOf
    <3>4. s.code \notin Desk!Codes
      <4>1. ASSUME s.code \in Desk!Codes PROVE FALSE
        <5>1. s.code < s.code
          BY <3>2, <4>1
        <5>2. QED
          BY <3>1, <5>1
      <4>2. QED
        BY <4>1
    <3>5. QED
      BY <3>1, <3>3, <3>4
  <2>3. QED
    BY <2>1, <2>2
<1>4. CASE /\ UNCHANGED <<login, joiner>>
           /\ s.do = "login" => login[s.who] # "none"
           /\ s.do = "employ" => login[s.who] # "bare" \/ s.code \in Desk!Codes
  <2>1. s.do \notin {"login", "employ"}
    BY <1>3, <1>4
  <2>2. QED
    BY <1>4, <2>1, CodesAside
<1>5. ASSUME s.who \in People, OnlyPerson(s.who), PersonWritten(s, s.who),
             doing'[c].todo = r
      PROVE  CodesInv'
  <2>1. PICK p \in People : p = s.who /\ PersonWritten(s, p) /\ OnlyPerson(p)
    BY <1>5
  <2>2. ASSUME NEW q \in People, q # p, login'[q] = "bare"
        PROVE  FALSE
    <3>1. login[q] = "bare"
      BY <2>1, <2>2 DEF OnlyPerson
    <3>2. Employs(c, q)
      BY <1>1, <3>1, CodesWas
    <3>3. s.do = "employ" /\ s.who = q
      BY <1>1, <3>2 DEF Employs
    <3>4. QED
      BY <2>1, <2>2, <3>3
  <2>3. CASE s.do = "login"
    <3>1. login'[p] = "bare" /\ joiner'[p] = joiner[p]
      BY <2>1, <2>3 DEF PersonWritten
    <3>2. Desk!Codes' = Desk!Codes
      <4>1. \A q \in People : joiner'[q] = joiner[q]
        BY <2>1, <3>1 DEF OnlyPerson
      <4>2. QED
        BY <4>1 DEF Desk!Codes, Desk!Employed
    <3>3. /\ 2 \in DOMAIN t /\ t[2].do = "employ" /\ t[2].who = p
      BY <1>1, <1>2, <2>1, <2>3 DEF CodesOf
    <3>4. 1 \in DOMAIN r /\ r[1] = t[2]
      BY <3>3, SecondNext
    <3>5. Employs(c, p)'
      BY <1>5, <3>3, <3>4 DEF Employs
    <3>6. CodesOf(r)'
      BY <1>2, <2>1, <3>1, <3>2, CodesRest DEF CodesOf
    <3>7. CodesOf(doing[c].todo)'
      BY <1>5, <3>6 DEF CodesOf
    <3>8. QED
      BY <1>1, <2>2, <3>5, <3>7, CodesNext
  <2>4. CASE s.do = "employ"
    <3>1. login'[p] = "staff" /\ joiner'[p].code = s.code
      BY <2>1, <2>4 DEF PersonWritten
    <3>2. ASSUME NEW n \in Desk!Codes'
          PROVE  n \in Desk!Codes \/ n = s.code
      <4>1. PICK q \in People : n = joiner'[q].code /\ joiner'[q].st # "none"
        BY <3>2 DEF Desk!Codes, Desk!Employed
      <4>2. CASE q = p
        BY <3>1, <4>1, <4>2
      <4>3. CASE q # p
        <5>1. joiner'[q] = joiner[q]
          BY <2>1, <4>3 DEF OnlyPerson
        <5>2. QED
          BY <4>1, <5>1 DEF Desk!Codes, Desk!Employed
      <4>4. QED
        BY <4>2, <4>3
    <3>3. \A i \in DOMAIN r : r[i].do \notin {"login", "employ"}
      BY <1>2, <2>4, CodesRest
    <3>4. \A i \in DOMAIN r : r[i].do = "row" => \A n \in Desk!Codes' : n < r[i].code
      BY <1>2, <2>4, <3>2, CodesRest
    <3>5. CodesOf(doing[c].todo)'
      BY <1>5, <3>3, <3>4 DEF CodesOf
    <3>6. QED
      BY <1>1, <2>2, <3>1, <3>5, CodesNext
  <2>5. CASE s.do \notin {"login", "employ"}
    <3>1. \A i \in DOMAIN r : r[i].do \notin {"row", "login", "employ"}
      <4>1. /\ Belongs(doing[c].op, s)
            /\ \A i \in DOMAIN r : Belongs(doing[c].op, r[i])
        BY <1>1 DEF CallsInv, Now
      <4>2. doing[c].op # "bulk"
        BY <1>1, <2>5, <4>1, JoiningParts DEF Belongs, OnPeople, Desk!Status
      <4>3. QED
        BY <4>1, <4>2 DEF Belongs
    <3>2. CodesOf(doing[c].todo)'
      BY <1>5, <3>1 DEF CodesOf
    <3>3. login'[p] # "bare"
      <4>1. login[p] # "bare"
        BY <1>1, <2>5, CodesWas DEF Employs
      <4>2. QED
        BY <1>1, <2>1, <2>5, <4>1 DEF PersonWritten, OnPeople
    <3>4. QED
      BY <1>1, <2>2, <3>2, <3>3, CodesNext
  <2>6. QED
    BY <2>3, <2>4, <2>5
<1>6. CASE Desk!Done(c) /\ s.who \in People /\ OnlyPerson(s.who) /\ PersonWritten(s, s.who)
  BY <1>5, <1>6
<1>7. QED
  BY <1>4, <1>6 DEF PersonWrote

LEMMA CodesStep ==
  ASSUME DeskInv, DeskInv', CallsInv, CodesInv, [StaffNext]_staff
  PROVE  CodesInv'
<1>1. CASE UNCHANGED <<duty, office>>
  <2>1. Desk!Codes' = Desk!Codes
    BY <1>1 DEF office, Desk!Codes, Desk!Employed
  <2>2. QED
    BY <1>1, <2>1 DEF office, CodesInv, CodesOf, Turn, Employs, Desk!Serial
<1>2. CASE Crash
  BY <1>2 DEF Crash, CodesInv, Turn
<1>3. ASSUME UNCHANGED <<duty, crashed>>, ~Turn
      PROVE  CodesInv'
  BY <1>3 DEF CodesInv, Turn, Desk!Serial
<1>4. ASSUME UNCHANGED <<duty, crashed>>, Turn, NEW c \in Calls, JoiningRuns(c)
      PROVE  CodesInv'
  <2>1. PICK t, r, s : /\ Now(c, t, r, s) /\ OthersWait(c)
                       /\ FileWrote(c, s) \/ PersonWrote(c, s)
                       /\ doing'[c].todo \in {r, <<>>}
                       /\ Desk!Done(c) => doing'[c].todo = r
    BY <1>4, JoinRuns
  <2>2. CASE PersonWrote(c, s)
    BY <1>4, <2>1, <2>2, CodesPeople
  <2>3. CASE FileWrote(c, s)
    <3>1. UNCHANGED <<login, joiner>> /\ s.do \notin {"login", "employ"}
      BY <2>3 DEF FileWrote, OnFiles
    <3>2. QED
      BY <1>4, <2>1, <3>1, CodesAside
  <2>4. QED
    BY <2>1, <2>2, <2>3
<1>5. ASSUME UNCHANGED <<duty, crashed>>, Turn, NEW c \in Calls, Handles(c)
      PROVE  CodesInv'
  <2>1. PICK t, r, s : /\ Now(c, t, r, s) /\ OthersWait(c) /\ UNCHANGED <<login, joiner>>
                       /\ doing'[c].todo \in {r, <<>>}
                       /\ s.do \in OnPaper \cup {"attach"} \cup OnLetters
    BY <1>5, HandleRuns DEF PaperWrote, Handles
  <2>2. s.do \notin {"login", "employ"}
    BY <2>1 DEF OnPaper, OnLetters
  <2>3. QED
    BY <1>5, <2>1, <2>2, CodesAside
<1>6. ASSUME UNCHANGED <<duty, crashed>>, Turn, NEW c \in Calls,
             Begins(c) \/ Looks(c) \/ Desk!EnterEmployee(c)
      PROVE  CodesInv'
  BY <1>6, CodesBegins, CodesLooks, CodesEnters
<1>7. QED
  BY <1>1, <1>2, <1>3, <1>4, <1>5, <1>6, DeskMoves DEF Joins

-----------------------------------------------------------------------------
(* All together they are kept, and say what was promised between calls.    *)
AgreeInv ==
  /\ CallsInv /\ OwnFiles /\ SeenInv /\ MailInv /\ KeptInv /\ FiledInv
  /\ LinksInv /\ ProfileInv /\ FinalInv /\ WaitingInv /\ CodesInv

LEMMA AgreeStarts ==
  ASSUME StaffInit
  PROVE  AgreeInv
<1>1. /\ doing = [c \in Calls |-> Desk!Idle]
      /\ login = [p \in People |-> IF p \in duty.students THEN "student" ELSE "none"]
      /\ joiner = [p \in People |-> Desk!NoEmployee]
      /\ onb = [f \in Files |-> Desk!NoFile]
      /\ paper = [p \in People |-> [d \in Slots |-> Desk!NoDocument]]
      /\ letter = [p \in People |-> [st |-> "none", text |-> 0, mailed |-> 0, mails |-> 0]]
  BY DEF StaffInit, Desk!CallsInit, Desk!JoiningInit, Desk!PapersInit
<1>2. \A c \in Calls : ~Busy(c) /\ DOMAIN doing[c].todo = {}
  <2>1. Desk!Idle.todo = <<>> /\ DOMAIN <<>> = {}
    BY DEF Desk!Idle
  <2>2. QED
    BY <1>1, <2>1 DEF Busy
<1>3. \A f \in Files : ~Desk!Live(f) /\ onb[f].link = Nobody /\ onb[f].st # "PENDING"
  BY <1>1 DEF Desk!Live, Desk!NoFile
<1>4. \A p \in People : ~Desk!Employed(p) /\ login[p] # "bare"
  BY <1>1 DEF Desk!Employed, Desk!NoEmployee
<1>5. \A p \in People : letter[p].mails = 0 /\ letter[p].st = "none"
  BY <1>1
<1>6. \A p \in People : \A d \in Slots : paper[p][d].st = "none" /\ ~paper[p][d].verified
  BY <1>1 DEF Desk!NoDocument
<1>7. CallsInv /\ OwnFiles
  BY <1>2, <1>3 DEF CallsInv, OwnFiles
<1>8. SeenInv /\ MailInv
  BY <1>2, <1>5, <1>6 DEF SeenInv, SeenOf, MailInv, MailOf
<1>9. KeptInv
  <2>1. \A p \in People : Desk!There(p) = {}
    BY <1>6 DEF Desk!There
  <2>2. OneDocument /\ AllStored /\ HandedIn
    BY <1>3, <2>1 DEF OneDocument, AllStored, HandedIn
  <2>3. OneMail
    BY <1>5 DEF OneMail
  <2>4. QED
    BY <1>2, <2>2, <2>3 DEF KeptInv, KeptOf
<1>10. FiledInv
  BY <1>2, <1>3, <1>4 DEF FiledInv, AllFiled, OwnAddress, FilingOf
<1>11. LinksInv /\ ProfileInv /\ FinalInv
  BY <1>2, <1>3 DEF LinksInv, LinksOf, ProfileInv, ProfileOf, FinalInv, FinalOf
<1>12. WaitingInv /\ CodesInv
  BY <1>2, <1>3, <1>4 DEF WaitingInv, WaitingOf, CodesInv, CodesOf
<1>13. QED
  BY <1>7, <1>8, <1>9, <1>10, <1>11, <1>12 DEF AgreeInv

LEMMA AgreeStep ==
  ASSUME DeskInv, DeskInv', AgreeInv, [StaffNext]_staff
  PROVE  AgreeInv'
<1>1. CallsInv' /\ OwnFiles' /\ SeenInv' /\ MailInv' /\ KeptInv' /\ FiledInv'
  BY CallsStep, OwnStep, SeenStep, MailStep, KeptStep, FiledStep DEF AgreeInv
<1>2. LinksInv' /\ ProfileInv' /\ FinalInv' /\ WaitingInv' /\ CodesInv'
  BY LinksStep, ProfileStep, FinalStep, WaitingStep, CodesStep DEF AgreeInv
<1>3. QED
  BY <1>1, <1>2 DEF AgreeInv

(* Between calls no call has a statement to come.                          *)
LEMMA NothingToCome ==
  ASSUME Desk!AllIdle
  PROVE  \A c \in Calls : DOMAIN doing[c].todo = {}
<1>1. Desk!Idle.todo = <<>> /\ DOMAIN <<>> = {}
  BY DEF Desk!Idle
<1>2. QED
  BY <1>1 DEF Desk!AllIdle

LEMMA InTurnNow ==
  ASSUME DeskInv, AgreeInv, Desk!AllIdle, ~crashed, Desk!Serial
  PROVE  Desk!InTurn
<1>1. /\ \A c \in Calls, p \in People : ~Employs(c, p)
      /\ \A c \in Calls, f \in Files : ~Links(c, f) /\ ~Activates(c, onb[f].link)
  BY NothingToCome DEF Employs, Links, Activates
<1>2. Turn
  BY DEF Turn
<1>3. \A p \in People : login[p] # "bare"
  BY <1>1, <1>2 DEF AgreeInv, CodesInv
<1>4. ASSUME NEW f \in Files, Desk!Live(f)
      PROVE  /\ onb[f].link # Nobody => onb[f].link = onb[f].who
             /\ onb[f].st \notin {"PENDING", "REJECTED"}
                  /\ Desk!Unused({"reinitiate", "finalReject"}) => onb[f].link # Nobody
             /\ onb[f].st = "PROFILE_COMPLETE" /\ Desk!Unused({"finalReject"})
                  => joiner[onb[f].link].filled
             /\ onb[f].st = "COMPLETED" /\ Desk!Unused({"status", "finalReject"})
                  => joiner[onb[f].link].st # "ON_PROBATION"
             /\ onb[f].st = "PENDING" /\ Desk!Unused({"hire", "bulk", "removeJoiner"})
                  => ~Desk!Employed(onb[f].who)
  <2>1. LinkedRow(onb[f])
    BY <1>2, <1>4 DEF AgreeInv, LinksInv
  <2>2. onb[f].st \in {"PENDING", "REJECTED", "ACCOUNT_CREATED", "PROFILE_COMPLETE",
                       "AWAITING_APPROVAL", "COMPLETED"}
    BY <1>4 DEF DeskInv, DeskTyped, Desk!JoiningTypeOK, Desk!OnboardingRequest, Desk!Live
  <2>3. onb[f].link # Nobody => onb[f].link = onb[f].who
    BY <2>1 DEF LinkedRow
  <2>4. onb[f].st \notin {"PENDING", "REJECTED"}
          /\ Desk!Unused({"reinitiate", "finalReject"}) => onb[f].link # Nobody
    BY <2>1, <2>2 DEF LinkedRow, Stands, Desk!Unused
  <2>5. onb[f].st = "PROFILE_COMPLETE" /\ Desk!Unused({"finalReject"})
          => joiner[onb[f].link].filled
    BY <1>2, <1>4 DEF AgreeInv, ProfileInv, Stands
  <2>6. onb[f].st = "COMPLETED" /\ Desk!Unused({"status", "finalReject"})
          => joiner[onb[f].link].st # "ON_PROBATION"
    BY <1>1, <1>2, <1>4 DEF AgreeInv, FinalInv, Decided
  <2>7. onb[f].st = "PENDING" /\ Desk!Unused({"hire", "bulk", "removeJoiner"})
          => ~Desk!Employed(onb[f].who)
    BY <1>1, <1>2 DEF AgreeInv, WaitingInv, Unhired
  <2>8. QED
    BY <2>3, <2>4, <2>5, <2>6, <2>7
<1>5. QED
  BY <1>3, <1>4 DEF Desk!InTurn

LEMMA JoinersFiledNow ==
  ASSUME AgreeInv, Desk!AllIdle, ~crashed
  PROVE  Desk!JoinersFiled
<1>1. \A c \in Calls, p \in People : ~Covers(c, p)
  BY NothingToCome DEF Covers
<1>2. QED
  BY <1>1 DEF AgreeInv, FiledInv, Filing, AllFiled, Desk!JoinersFiled

LEMMA PapersNow ==
  ASSUME DeskInv, AgreeInv, Desk!AllIdle, NEW p \in People
  PROVE  /\ Desk!NotDuring("verify") => \A d \in Desk!There(p) :
              paper[p][d].verified => paper[p][d].seen = paper[p][d].file
         /\ Desk!NotDuring("redraft") =>
              (letter[p].st = "SENT" => letter[p].mails > 0 /\ letter[p].mailed = letter[p].text)
         /\ Desk!Serial =>
              /\ Desk!Cardinality(Desk!There(p)) <= 1
              /\ \A d \in Desk!There(p) : paper[p][d].file # 0 /\ ~crashed => paper[p][d].stored
              /\ Desk!Unused({"deletePaper"}) =>
                   \A f \in Desk!FileOf(p) :
                     onb[f].st = "AWAITING_APPROVAL" => Desk!There(p) # {}
              /\ letter[p].mails <= 1
              /\ letter[p].mails = 1 => letter[p].st \in {"APPROVED", "SENT", "removed"}
<1>1. Desk!NotDuring("verify") => \A d \in Desk!There(p) :
        paper[p][d].verified => paper[p][d].seen = paper[p][d].file
  BY DEF AgreeInv, SeenInv, Desk!There
<1>2. Desk!NotDuring("redraft") =>
        (letter[p].st = "SENT" => letter[p].mails > 0 /\ letter[p].mailed = letter[p].text)
  BY DEF AgreeInv, MailInv, Mailed
<1>3. ASSUME Desk!Serial
      PROVE  KeptInv /\ OneDocument /\ AllStored /\ HandedIn /\ OneMail
  BY <1>3 DEF AgreeInv, KeptInv
<1>4. ASSUME Desk!Serial
      PROVE  Desk!Cardinality(Desk!There(p)) <= 1
  <2>1. \A S : Desk!Cardinality(S) = Cardinality(S)
    BY Zenon DEF Desk!Cardinality, Cardinality
  <2>2. CASE Desk!There(p) = {}
    BY <2>1, <2>2, FS_EmptySet
  <2>3. CASE Desk!There(p) # {}
    <3>1. PICK d : Desk!There(p) = {d}
      BY <1>3, <1>4, <2>3 DEF OneDocument
    <3>2. Cardinality({d}) = 1
      BY FS_Singleton
    <3>3. QED
      BY <2>1, <3>1, <3>2
  <2>4. QED
    BY <2>2, <2>3
<1>5. ASSUME Desk!Serial, NEW d \in Desk!There(p), paper[p][d].file # 0, ~crashed
      PROVE  paper[p][d].stored
  <2>1. \A c \in Calls : doing[c].todo = <<>>
    BY DEF Desk!AllIdle, Desk!Idle
  <2>2. QED
    BY <1>3, <1>5, <2>1 DEF AllStored, Stored
<1>6. ASSUME Desk!Serial, Desk!Unused({"deletePaper"}), NEW f \in Desk!FileOf(p),
             onb[f].st = "AWAITING_APPROVAL"
      PROVE  Desk!There(p) # {}
  <2>1. p # Nobody
    BY DeskDuty DEF DeskInv, DeskTyped
  <2>2. QED
    BY <1>3, <1>6, <2>1 DEF HandedIn, Desk!FileOf
<1>7. ASSUME Desk!Serial
      PROVE  /\ letter[p].mails <= 1
             /\ letter[p].mails = 1 => letter[p].st \in {"APPROVED", "SENT", "removed"}
  BY <1>3, <1>7 DEF OneMail
<1>8. QED
  BY <1>1, <1>2, <1>4, <1>5, <1>6, <1>7

(* Between calls, logins, employees and onboarding requests agree, and so  *)
(* do the documents and letters: what JoiningAgrees says of the endpoints  *)
(* of the joining and the papers, whatever was done before them.           *)
THEOREM JoinersAgree == StaffSpec => []JoiningAgrees
<1>1. StaffInit => AgreeInv
  BY AgreeStarts
<1>2. DeskInv /\ DeskInv' /\ AgreeInv /\ [StaffNext]_staff => AgreeInv'
  BY AgreeStep
<1>3. DeskInv /\ AgreeInv => JoiningAgrees
  <2>1. SUFFICES ASSUME DeskInv, AgreeInv PROVE JoiningAgrees
    OBVIOUS
  <2>2. Desk!JoiningAgrees(crashed)
    BY <2>1, InTurnNow, JoinersFiledNow DEF Desk!JoiningAgrees
  <2>3. Desk!PapersAgree(crashed)
    BY <2>1, PapersNow DEF Desk!PapersAgree
  <2>4. QED
    BY <2>2, <2>3 DEF JoiningAgrees
<1>4. QED
  BY <1>1, <1>2, <1>3, DeskInvariant, PTL DEF StaffSpec

=============================================================================
