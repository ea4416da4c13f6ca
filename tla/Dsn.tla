--------------------------------- MODULE Dsn ---------------------------------
(***************************************************************************)
(* The configuration and its connection string (dsn.go).  A configuration  *)
(* is its texts, numbers and switches by the parameter they are written    *)
(* as; Port and LOB_PREFETCH are fields no parameter carries.  A string is *)
(* the parts of its URL and the parameters present.  The timeout is in     *)
(* milliseconds in a configuration and in whole seconds in a string.       *)
(* Texts hold no character that a URL escapes: ToDSN escapes nothing.      *)
(***************************************************************************)
EXTENDS Integers, Functions

Parts == {"HOST", "DATABASE", "USER", "PASSWORD"}
Modes == [TMODE |-> {"DEFAULT", "TERA", "ANSI"},
          SSLMODE |-> {"DISABLE", "ALLOW", "PREFER", "REQUIRE", "VERIFY-CA",
                       "VERIFY-FULL"},
          SSLPROTOCOL |-> {"TLSv1.3", "TLSv1.2"}]

FreeTexts == {"SSLCIPHER", "SSLCA", "SSLCAPATH", "SSLBASE64", "SSLSERVERNAME",
              "PARTITION"}

Defaults == [TMODE |-> "DEFAULT", SSLMODE |-> "PREFER",
             SSLPROTOCOL |-> "TLSv1.3", PARTITION |-> "DBC/SQL"]

TextDefault(f) == IF f \in DOMAIN Defaults THEN Defaults[f] ELSE ""

NewConfig ==
    [texts |-> [f \in Parts \cup DOMAIN Modes \cup FreeTexts |-> TextDefault(f)],
     nums |-> [PORT |-> 1025, TIMEOUT |-> 60000, HTTPS_PORT |-> 443,
               MAX_MESSAGE_BODY |-> 2097152, SLOB_RECEIVE_THRESHOLD |-> 1000,
               CONNECT_FUNCTION |-> 0, MAX_FASTLOAD_SESSIONS |-> 8],
     flags |-> [COP |-> TRUE, COPLAST |-> TRUE, ENCRYPTDATA |-> FALSE,
                LOB_SUPPORT |-> TRUE, LOB_PREFETCH |-> FALSE]]

(* normalize: the zero values stand for the defaults.                      *)
Normalize(c) ==
    [c EXCEPT
       !.texts = [f \in DOMAIN @ |-> IF @[f] = "" THEN TextDefault(f) ELSE @[f]],
       !.nums = [f \in DOMAIN @ |->
                   IF \/ @[f] = 0
                      \/ f = "MAX_FASTLOAD_SESSIONS" /\ @[f] < 1
                   THEN NewConfig.nums[f] ELSE @[f]]]

-----------------------------------------------------------------------------
(* Writing.                                                                *)

(* FormatFloat(seconds, 'f', 0): to the nearest, a half to the even one.   *)
RoundSeconds(ms) ==
    LET s == ms \div 1000
        r == ms % 1000
    IN  IF r > 500 \/ (r = 500 /\ s % 2 = 1) THEN s + 1 ELSE s

Unwritten == {"PORT", "LOB_PREFETCH"}

\* Mutant: a switch is written when it is on, whatever its default.
WrittenIfTrue(c) ==
    [texts |-> {f \in DOMAIN Modes \cup FreeTexts : c.texts[f] # TextDefault(f)}
                 \cup {"PARTITION"},
     nums |-> {f \in DOMAIN c.nums \ Unwritten : c.nums[f] # NewConfig.nums[f]},
     flags |-> {f \in DOMAIN c.flags \ Unwritten : c.flags[f]}]

(* generateDsnParamString writes what differs from the default, and the    *)
(* partition whenever there is one.                                        *)
Written(c) ==
    [texts |-> {f \in DOMAIN Modes \cup FreeTexts :
                  IF f = "PARTITION" THEN c.texts[f] # ""
                                     ELSE c.texts[f] # TextDefault(f)},
     nums |-> {f \in DOMAIN c.nums \ Unwritten : c.nums[f] # NewConfig.nums[f]},
     flags |-> {f \in DOMAIN c.flags \ Unwritten :
                  c.flags[f] # NewConfig.flags[f]}]

(* ToDSN.  The password goes with the user.                                *)
ToDSN(config) ==
    LET c == Normalize(config)
        w == Written(c)
    IN  [parts |-> [f \in Parts |-> IF f = "PASSWORD" /\ c.texts["USER"] = ""
                                    THEN "" ELSE c.texts[f]],
         texts |-> Restrict(c.texts, w.texts),
         nums |-> [f \in w.nums |-> IF f = "TIMEOUT" THEN RoundSeconds(c.nums[f])
                                                     ELSE c.nums[f]],
         flags |-> Restrict(c.flags, w.flags)]

-----------------------------------------------------------------------------
(* Reading.                                                                *)

Given(params, f, def) == IF f \in DOMAIN params THEN params[f] ELSE def

ReadText(dsn, f) ==
    LET v == Given(dsn.texts, f, "")
    IN  IF f \in Parts THEN dsn.parts[f]
        ELSE IF f \in DOMAIN Modes /\ v \notin Modes[f] THEN TextDefault(f)
        ELSE v

(* A missing number is 0, but the port's and the timeout's defaults.       *)
ReadNum(dsn, f) ==
    LET v == Given(dsn.nums, f, 0)
    IN  CASE f = "TIMEOUT" -> 1000 * (IF v = 0 THEN 60 ELSE v)
          [] f = "PORT" -> 1025
          [] f = "HTTPS_PORT" -> Given(dsn.nums, f, 443)
          [] OTHER -> v

ReadFlag(dsn, f) ==
    f # "LOB_PREFETCH" /\ Given(dsn.flags, f, NewConfig.flags[f])

(* ParseDSN on a string of ToDSN, which names no port.                     *)
ParseDSN(dsn) ==
    Normalize([texts |-> [f \in DOMAIN NewConfig.texts |-> ReadText(dsn, f)],
               nums |-> [f \in DOMAIN NewConfig.nums |-> ReadNum(dsn, f)],
               flags |-> [f \in DOMAIN NewConfig.flags |-> ReadFlag(dsn, f)]])
=============================================================================
