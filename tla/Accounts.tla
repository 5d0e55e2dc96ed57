------------------------------ MODULE Accounts ------------------------------
(***************************************************************************)
(* The accounts of the game server: the table USERS (install.php) as the     *)
(* pages that make an account and log in change it (CreateUserAccount.php,   *)
(* Login.php), and an admin (admin/userSettings.php).  Requests run at once, *)
(* statement by statement; the table is MyISAM, so that each statement is    *)
(* whole and there are no transactions.  UpdatePlayerInfo.php updates no row *)
(* (the address it gives is 0), and is left out.                             *)
(*                                                                         *)
(* Names are as the table compares them, and htmlspecialchars leaves them    *)
(* alone; it is applied to a password by one page and not by another.       *)
(***************************************************************************)
EXTENDS Naturals, FiniteSets

CONSTANTS
    Requests,     \* requests that run at once
    Usernames, Mails,
    Passwords,
    Html,        \* Html[p]: htmlspecialchars(p)
    Players,     \* those that have a session and an address of their own
    MaxUsers,    \* bound: rows that were ever made
    MaxEdits     \* bound: what admins do

VARIABLES
    users,       \* UserID -> [name, pass, mail, banned, access, addr]
    nextUser,    \* auto_increment
    at, sent,    \* of each request: where it is, and what it read or was sent
    session,     \* player -> [name, pass], or NoSession
    edits,
    told,        \* history: <<name, password>> that were told "User created"
    touched      \* history: names that an admin had to do with since

accountVars == <<users, nextUser, at, sent, session, edits, told, touched>>

NoSession == [name |-> "", pass |-> ""]
NoneRuns == at = [w \in Requests |-> "idle"]
\* SELECT ... WHERE UserName = name and Password = pass
Matching(name, pass) == {id \in DOMAIN users : users[id].name = name /\ users[id].pass = pass}
\* The unique keys, of rows other than that of id
Clash(id, name, mail) ==
  \E i \in DOMAIN users \ {id} : users[i].name = name \/ users[i].mail = mail

-----------------------------------------------------------------------------
ASSUME AccountsConstants ==
  /\ MaxUsers \in Nat \ {0} /\ MaxEdits \in Nat
  /\ DOMAIN Html = Passwords

Row == [name : Usernames, pass : Passwords \cup {Html[p] : p \in Passwords}, mail : Mails,
        banned : BOOLEAN, access : BOOLEAN, addr : Players \cup {""}]

\* install.php made the first row.
AccountsInit ==
  /\ \E name \in Usernames, mail \in Mails, pass \in Passwords :
       users = [id \in {1} |-> [name |-> name, pass |-> pass, mail |-> mail,
                                banned |-> FALSE, access |-> TRUE, addr |-> ""]]
  /\ nextUser = 2 /\ edits = 0 /\ told = {} /\ touched = {}
  /\ NoneRuns /\ sent = [w \in Requests |-> NoSession] /\ session = [p \in Players |-> NoSession]

GoesTo(w, to) == at' = [at EXCEPT ![w] = to]
Ends(w) == GoesTo(w, "idle") /\ sent' = [sent EXCEPT ![w] = NoSession]

\* AddUser: does the name exist already?
CreateSelect(w, name, pass, mail) ==
  /\ at[w] = "idle" /\ \A id \in DOMAIN users : users[id].name # name
  /\ GoesTo(w, "insert")
  /\ sent' = [sent EXCEPT ![w] = [name |-> name, pass |-> pass, mail |-> mail]]
  /\ UNCHANGED <<users, nextUser, session, edits, told, touched>>

Entered(w) ==
  LET a == sent[w]
      row == [name |-> a.name, pass |-> Html[a.pass], mail |-> a.mail, banned |-> FALSE,
              access |-> FALSE, addr |-> ""]
  IN  /\ users' = [id \in DOMAIN users \cup {nextUser} |->
                     IF id = nextUser THEN row ELSE users[id]]
      /\ nextUser' = nextUser + 1
      /\ told' = {t \in told : t[1] # a.name} \cup {<<a.name, a.pass>>}
      /\ touched' = touched \ {a.name}
\* Faulty variant: what was selected is relied on.
InsertAnyway(w) ==
  /\ at[w] = "insert" /\ nextUser <= MaxUsers /\ Entered(w)
  /\ Ends(w) /\ UNCHANGED <<session, edits>>
\* and the INSERT, which the keys refuse if another request was first
CreateInsert(w) ==
  /\ at[w] = "insert"
  /\ IF Clash(0, sent[w].name, sent[w].mail) THEN UNCHANGED <<users, nextUser, told, touched>>
     ELSE nextUser <= MaxUsers /\ Entered(w)
  /\ Ends(w) /\ UNCHANGED <<session, edits>>

\* setUserInfo of Login.php: the row, with Banned as it is then
LoginSelect(w, p, name, pass) ==
  /\ at[w] = "idle" /\ Cardinality(Matching(name, pass)) = 1
  /\ \E id \in Matching(name, pass) :
       sent' = [sent EXCEPT ![w] = [name |-> name, pass |-> pass, player |-> p,
                                  banned |-> users[id].banned]]
  /\ GoesTo(w, "address")
  /\ UNCHANGED <<users, nextUser, session, edits, told, touched>>
\* the UPDATE of whoever has the name now, and then the look at Banned
LoginUpdate(w) ==
  /\ at[w] = "address"
  /\ LET a == sent[w]
     IN  /\ users' = [id \in DOMAIN users |->
                        IF users[id].name = a.name THEN [users[id] EXCEPT !.addr = a.player]
                        ELSE users[id]]
         /\ session' = IF a.banned THEN session
                       ELSE [session EXCEPT ![a.player] = [name |-> a.name, pass |-> a.pass]]
  /\ Ends(w) /\ UNCHANGED <<nextUser, edits, told, touched>>

AdminEdit == edits < MaxEdits /\ edits' = edits + 1 /\ UNCHANGED <<nextUser, at, sent, session, told>>
\* Faulty variant: the main admin is like the others.
UpdateAny(id, name, pass, mail, banned, access) ==
  /\ AdminEdit /\ id \in DOMAIN users /\ ~Clash(id, name, mail)
  /\ users' = [users EXCEPT ![id].name = name, ![id].pass = pass, ![id].mail = mail,
                            ![id].banned = banned, ![id].access = access]
  /\ touched' = touched \cup {name, users[id].name}
\* updateUser; no password leaves it as it is.
UpdateUser(id, name, pass, mail, banned, access) ==
  /\ AdminEdit /\ id \in DOMAIN users /\ ~Clash(id, name, mail)
  /\ users' = [users EXCEPT ![id].name = name, ![id].mail = mail,
                            ![id].pass = IF pass = "" THEN @ ELSE pass,
                            ![id].banned = banned /\ id # 1, ![id].access = access \/ id = 1]
  /\ touched' = touched \cup {name, users[id].name}
\* deleteUser
DeleteUser(id) ==
  /\ AdminEdit /\ id \in DOMAIN users \ {1}
  /\ users' = [i \in DOMAIN users \ {id} |-> users[i]]
  /\ touched' = touched \cup {users[id].name}

AccountsNext ==
  \/ \E w \in Requests : CreateInsert(w) \/ LoginUpdate(w)
  \/ \E w \in Requests, name \in Usernames, pass \in Passwords :
       \/ \E mail \in Mails : CreateSelect(w, name, pass, mail)
       \/ \E p \in Players : LoginSelect(w, p, name, pass)
  \/ \E id \in 1..MaxUsers : DeleteUser(id)
  \/ \E id \in 1..MaxUsers, name \in Usernames, pass \in Passwords \cup {""}, mail \in Mails,
        banned, access \in BOOLEAN : UpdateUser(id, name, pass, mail, banned, access)

AccountsSpec == AccountsInit /\ [][AccountsNext]_accountVars
-----------------------------------------------------------------------------
AccountsTypeOK ==
  /\ DOMAIN users \subseteq 1..(nextUser - 1) /\ nextUser \in 2..(MaxUsers + 1)
  /\ users \in [DOMAIN users -> Row]
  /\ DOMAIN at = Requests /\ DOMAIN sent = Requests
  /\ \A w \in Requests :
       \/ at[w] = "idle"
       \/ at[w] = "insert" /\ sent[w] \in [name : Usernames, pass : Passwords, mail : Mails]
       \/ at[w] = "address" /\ sent[w] \in [name : Usernames, pass : Passwords,
                                            player : Players, banned : BOOLEAN]
  /\ told \subseteq Usernames \X Passwords /\ edits \in 0..MaxEdits

\* No two accounts have a name or a mail in common, however requests that found neither
\* interleave: each page counts on finding one row.
Unique == \A i, j \in DOMAIN users :
            i # j => users[i].name # users[j].name /\ users[i].mail # users[j].mail

\* Whoever was told "User created" can log in with what it gave, until an admin changes
\* that; but for a password that htmlspecialchars changes, which is stored changed and
\* compared as it is (CreateUserAccount.php 52, Login.php 47).
CanLogIn ==
  \A t \in told : t[1] \notin touched /\ Html[t[2]] = t[2] => Cardinality(Matching(t[1], t[2])) = 1

\* The main admin is there for good, with access and not banned ("cant delete main Admin",
\* userSettings.php 274).
MainAdmin == 1 \in DOMAIN users /\ users[1].access /\ ~users[1].banned

\* The accounts are right: names and addresses are unique, who was told so can log in, and
\* the first one stays the admin it is (CreateUserAccount.php, Login.php, userSettings.php).
AccountsRight == Unique /\ CanLogIn /\ MainAdmin
=============================================================================
