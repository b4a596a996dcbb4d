---------------------------- MODULE TableCookies ----------------------------
(***************************************************************************)
(* The cookies in which DataTables keep their state: one for each table of *)
(* each page, as many as the browser sends along.  When another would be   *)
(* too much, the oldest ones that the page sees are given up for it.       *)
(*                                                                         *)
(* A page is [path |-> .., file |-> ..], a path a sequence of names.  The  *)
(* browser shows a page the cookies of its path and of those above.  A     *)
(* cookie is named after the table and the file of its page, and a size is *)
(* that of its name and value.  A state is known by the time it was made.  *)
(* fnCookieCallback is left out, and a state is always one that is read.   *)
(***************************************************************************)
EXTENDS Integers, Sequences, SequencesExt, FiniteSets, FiniteSetsExt, Functions, TLC

CONSTANTS
  CookiePages,   \* the pages with tables
  CookieTables,  \* the tables' instances
  Sizes,         \* the sizes a state's cookie may have
  Foreign,       \* cookies of other scripts
  CookieLimit,   \* 4096
  Padding,       \* 10
  MaxSaves       \* bound: states saved

VARIABLES
  jar,      \* the browser's cookies
  clock,    \* history: the states made so far
  newest,   \* history: for a name and a path, the time of the state made last
  save      \* history: the page of the last save, whether it was kept, and what was given up

cookiesVars == <<jar, clock, newest, save>>

NoSave == [path |-> << >>, kept |-> FALSE, gone |-> {}]

NameOf(page, instance) == <<instance, page.file>>

\* Other scripts leave the names to DataTables that begin with its prefix.
ASSUME CookiesAssumption ==
  /\ \A page \in CookiePages : page.path \in Seq(ToSet(page.path))
  /\ IsFiniteSet(Foreign)
  /\ \A c \in Foreign :
       /\ c.time = 0 /\ c.size \in Nat
       /\ \A page \in CookiePages, instance \in CookieTables : c.name # NameOf(page, instance)
  /\ Sizes \in SUBSET Nat /\ CookieLimit \in Nat /\ Padding \in Nat

\* document.cookie, for a page of this path
Sent(cookies, path) == {c \in cookies : IsPrefix(c.path, path)}

Length(cookies) == FoldSet(LAMBDA c, sum : c.size + sum, 0, cookies)

Fits(cookies, path, size) == size + Length(Sent(cookies, path)) + Padding <= CookieLimit

Older(c, d) == c.time < d.time

\* The states the page sees, of whatever page.
SentStates(cookies, path) == {c \in Sent(cookies, path) : c.time > 0}

\* Mutant: the newest ones are given up first.
OldCookiesNewest(cookies, path) ==
  LET states == SentStates(cookies, path)
  IN [k \in 1 .. Cardinality(states) |->
        CHOOSE c \in states : Cardinality({d \in states : Older(c, d)}) = k - 1]

\* They are sorted, the oldest first.
OldCookies(cookies, path) ==
  LET states == SentStates(cookies, path)
  IN [k \in 1 .. Cardinality(states) |->
        CHOOSE c \in states : Cardinality({d \in states : Older(d, c)}) = k - 1]

\* Deleting names a cookie and the path of the page, not that of the cookie.
Delete(cookies, name, path) == {c \in cookies : ~(c.name = name /\ c.path = path)}

GivenUp(cookies, path, size) ==
  FoldLeft(LAMBDA left, old : IF Fits(left, path, size) THEN left ELSE Delete(left, old.name, path),
           cookies, OldCookies(cookies, path))

\* _fnCreateCookie
CreateCookie(cookies, path, cookie) ==
  LET left == GivenUp(cookies, path, cookie.size)
  IN IF Fits(left, path, cookie.size) THEN Delete(left, cookie.name, path) \cup {cookie} ELSE left

\* _fnReadCookie: the browser puts cookies of longer paths first.
ReadCookie(cookies, page, instance) ==
  LET found == {c \in Sent(cookies, page.path) : c.name = NameOf(page, instance)}
  IN IF found = {} THEN 0
     ELSE (CHOOSE c \in found : \A d \in found : Len(d.path) <= Len(c.path)).time

-----------------------------------------------------------------------------
CookiesInit ==
  /\ jar \in SUBSET Foreign
  /\ clock = 0 /\ save = NoSave
  /\ newest = [key \in {<<NameOf(page, instance), page.path>> :
                          page \in CookiePages, instance \in CookieTables} |-> 0]

SaveTable ==
  /\ clock < MaxSaves
  /\ \E page \in CookiePages, instance \in CookieTables, size \in Sizes :
       LET cookie == [name |-> NameOf(page, instance), path |-> page.path,
                      time |-> clock + 1, size |-> size]
           left == GivenUp(jar, page.path, size)
       IN /\ jar' = CreateCookie(jar, page.path, cookie)
          /\ newest' = [newest EXCEPT ![<<cookie.name, cookie.path>>] = cookie.time]
          /\ save' = [path |-> page.path, kept |-> cookie \in jar', gone |-> jar \ left]
  /\ clock' = clock + 1

\* A state's cookie ends after iCookieDuration, which all tables have alike.
ExpireCookie ==
  /\ \E c \in jar :
       /\ c.time > 0 /\ \A d \in jar : d.time > 0 => c.time <= d.time
       /\ jar' = jar \ {c}
  /\ save' = NoSave
  /\ UNCHANGED <<clock, newest>>

\* Other scripts set cookies, without a look at the states.
SetForeign ==
  /\ \E c \in Foreign : jar' = jar \cup {c}
  /\ save' = NoSave
  /\ UNCHANGED <<clock, newest>>

CookiesNext == SaveTable \/ ExpireCookie \/ SetForeign

CookiesSpec == CookiesInit /\ [][CookiesNext]_cookiesVars

-----------------------------------------------------------------------------
States == {c \in jar : c.time > 0}

\* The page above that has a file of this name, whose state the page sees.
Shadowed(c) ==
  \E page \in CookiePages :
    page.path # c.path /\ IsPrefix(page.path, c.path) /\ page.file = c.name[2]

(* A table finds the state it made last, or none, but never one before it, *)
(* even when the last did not fit; a page without a state may find the one *)
(* of the same file above it.  A save keeps below the limit what the page  *)
(* sends, touches no cookie of another script, and gives up no state while *)
(* there are older ones of its path.                                       *)
StatesKept ==
  /\ \A page \in CookiePages, instance \in CookieTables :
       LET name == NameOf(page, instance)
           read == ReadCookie(jar, page, instance)
           paths == {path \in {p.path : p \in CookiePages} :
                       IsPrefix(path, page.path) /\ <<name, path>> \in DOMAIN newest}
       IN read # 0 => \E path \in paths : read = newest[<<name, path>>]
  /\ save.kept => Length(Sent(jar, save.path)) + Padding <= CookieLimit
  /\ \A c \in save.gone :
       /\ c \notin Foreign
       /\ Shadowed(c) \/ \A d \in States : d.path = c.path => Older(c, d)
=============================================================================
