----------------------------- MODULE CodecProofs ------------------------------
(***************************************************************************)
(* What the driver writes is read back as it was meant, for inputs of any  *)
(* size.  Three parts: connection strings of configurations of any values, *)
(* whose fields a fold sets one after the other; the rows of FastLoad      *)
(* tables of any number of columns, whose sizes are sums; and the nested   *)
(* records of the security layer, from a length of one to four bytes up to *)
(* the options a server sends and the messages wrapped under them.  Sums   *)
(* and folds are reasoned about with SetInduction, and like them the reader *)
(* of a group of records, which goes through it from its end.              *)
(***************************************************************************)
EXTENDS Codecs, SetInduction

-----------------------------------------------------------------------------
(* Connection strings.                                                     *)

\* The fields of a configuration.
TextFields == Parts \cup {"TMODE", "SSLMODE", "SSLPROTOCOL"} \cup FreeTexts
NumFields == {"PORT", "TIMEOUT", "HTTPS_PORT", "MAX_MESSAGE_BODY", "SLOB_RECEIVE_THRESHOLD",
              "CONNECT_FUNCTION", "MAX_FASTLOAD_SESSIONS"}
FlagFields == {"COP", "COPLAST", "ENCRYPTDATA", "LOB_SUPPORT", "LOB_PREFETCH"}

\* No text.
NoText == ""

\* Any text (the provers do not know that a literal is a STRING).
AnyText == STRING \cup UNION {FieldValues("texts", f) \cup {TextDefault(f)} : f \in TextFields}

\* Any configuration: modes are among those the driver knows, the timeout is in whole
\* seconds.
Configs ==
    [texts : {t \in [TextFields -> AnyText] : \A f \in DOMAIN Modes : t[f] \in Modes[f] \cup {NoText}},
     nums : {n \in [NumFields -> Int] : n["TIMEOUT"] % 1000 = 0},
     flags : [FlagFields -> BOOLEAN]]

\* The parameters with a few allowed values, and the texts' defaults.
LEMMA TextsAre ==
    /\ DOMAIN Modes = {"TMODE", "SSLMODE", "SSLPROTOCOL"}
    /\ \A f \in DOMAIN Modes : TextDefault(f) \in Modes[f] /\ NoText \notin Modes[f]
    /\ TextDefault("PARTITION") = "DBC/SQL"
    /\ \A f \in Parts \cup (FreeTexts \ {"PARTITION"}) : TextDefault(f) = NoText
<1>1. DOMAIN Modes = {"TMODE", "SSLMODE", "SSLPROTOCOL"}
  BY DEF Modes
<1>2. DOMAIN Defaults = {"TMODE", "SSLMODE", "SSLPROTOCOL", "PARTITION"}
  BY DEF Defaults
<1>3. /\ Defaults["TMODE"] = "DEFAULT" /\ Defaults["SSLMODE"] = "PREFER"
      /\ Defaults["SSLPROTOCOL"] = "TLSv1.3" /\ Defaults["PARTITION"] = "DBC/SQL"
  BY DEF Defaults
<1>4. /\ Modes["TMODE"] = {"DEFAULT", "TERA", "ANSI"}
      /\ Modes["SSLMODE"] = {"DISABLE", "ALLOW", "PREFER", "REQUIRE", "VERIFY-CA", "VERIFY-FULL"}
      /\ Modes["SSLPROTOCOL"] = {"TLSv1.3", "TLSv1.2"}
  BY DEF Modes
<1>5. \A f \in DOMAIN Modes : TextDefault(f) \in Modes[f] /\ NoText \notin Modes[f]
  <2>1. /\ TextDefault("TMODE") = "DEFAULT" /\ TextDefault("SSLMODE") = "PREFER"
        /\ TextDefault("SSLPROTOCOL") = "TLSv1.3"
    BY <1>2, <1>3 DEF TextDefault
  <2>2. TextDefault("TMODE") \in Modes["TMODE"] /\ NoText \notin Modes["TMODE"]
    BY <1>4, <2>1 DEF NoText
  <2>3. TextDefault("SSLMODE") \in Modes["SSLMODE"] /\ NoText \notin Modes["SSLMODE"]
    BY <1>4, <2>1 DEF NoText
  <2>4. TextDefault("SSLPROTOCOL") \in Modes["SSLPROTOCOL"] /\ NoText \notin Modes["SSLPROTOCOL"]
    BY <1>4, <2>1 DEF NoText
  <2> QED BY <1>1, <2>2, <2>3, <2>4, Zenon
<1>6. TextDefault("PARTITION") = "DBC/SQL"
  BY <1>2, <1>3 DEF TextDefault
<1>7. \A f \in Parts \cup (FreeTexts \ {"PARTITION"}) : TextDefault(f) = NoText
  BY <1>2 DEF TextDefault, Parts, FreeTexts, NoText
<1> QED BY <1>1, <1>5, <1>6, <1>7

\* The fields and defaults of a new configuration.
LEMMA NewConfigIs ==
    /\ DOMAIN NewConfig.texts = TextFields /\ DOMAIN NewConfig.nums = NumFields
    /\ DOMAIN NewConfig.flags = FlagFields
    /\ NewConfig.nums \in [NumFields -> Int] /\ NewConfig.flags \in [FlagFields -> BOOLEAN]
    /\ NewConfig.nums["PORT"] = 1025 /\ NewConfig.nums["TIMEOUT"] = 60000 /\ NewConfig.nums["HTTPS_PORT"] = 443
    /\ NewConfig.nums["MAX_FASTLOAD_SESSIONS"] = 8 /\ NewConfig.nums["CONNECT_FUNCTION"] = 0
    /\ ~NewConfig.flags["LOB_PREFETCH"]
<1>1. NewConfig.texts = [f \in Parts \cup DOMAIN Modes \cup FreeTexts |-> TextDefault(f)]
  BY DEF NewConfig
<1>2. NewConfig.nums = [PORT |-> 1025, TIMEOUT |-> 60000, HTTPS_PORT |-> 443,
                        MAX_MESSAGE_BODY |-> 2097152, SLOB_RECEIVE_THRESHOLD |-> 1000,
                        CONNECT_FUNCTION |-> 0, MAX_FASTLOAD_SESSIONS |-> 8]
  BY DEF NewConfig
<1>3. NewConfig.flags = [COP |-> TRUE, COPLAST |-> TRUE, ENCRYPTDATA |-> FALSE,
                         LOB_SUPPORT |-> TRUE, LOB_PREFETCH |-> FALSE]
  BY DEF NewConfig
<1>4. DOMAIN NewConfig.texts = TextFields
  BY <1>1, TextsAre DEF TextFields
<1>5. NewConfig.nums \in [NumFields -> Int]
  BY <1>2 DEF NumFields
<1>6. NewConfig.flags \in [FlagFields -> BOOLEAN]
  <2>1. DOMAIN NewConfig.flags = FlagFields /\ NewConfig.flags = [f \in DOMAIN NewConfig.flags |-> NewConfig.flags[f]]
    BY <1>3 DEF FlagFields
  <2> DEFINE g == NewConfig.flags
  <2>3. g["COP"] = TRUE /\ g["COPLAST"] = TRUE /\ g["ENCRYPTDATA"] = FALSE /\ g["LOB_SUPPORT"] = TRUE
        /\ g["LOB_PREFETCH"] = FALSE
    BY <1>3
  <2>2. \A f \in FlagFields : g[f] \in BOOLEAN
    <3> HIDE DEF g
    <3> QED BY <2>3, Zenon DEF FlagFields
  <2> QED BY <2>1, <2>2, Zenon
<1>7. DOMAIN NewConfig.nums = NumFields /\ DOMAIN NewConfig.flags = FlagFields
  BY <1>5, <1>6, Zenon
<1>8. /\ NewConfig.nums["PORT"] = 1025 /\ NewConfig.nums["TIMEOUT"] = 60000 /\ NewConfig.nums["HTTPS_PORT"] = 443
      /\ NewConfig.nums["MAX_FASTLOAD_SESSIONS"] = 8 /\ NewConfig.nums["CONNECT_FUNCTION"] = 0
  BY <1>2
<1>9. ~NewConfig.flags["LOB_PREFETCH"]
  BY <1>3
<1> QED BY <1>4, <1>5, <1>6, <1>7, <1>8, <1>9

\* What normalize makes of a configuration: no zero value is left that has a default.
LEMMA NormalizeIs ==
    ASSUME NEW c \in Configs
    PROVE  /\ Normalize(c) \in Configs
           /\ \A f \in DOMAIN Modes : Normalize(c).texts[f] \in Modes[f]
           /\ Normalize(c).texts["PARTITION"] # NoText
           /\ \A f \in NumFields : Normalize(c).nums[f] = 0 => NewConfig.nums[f] = 0
           /\ Normalize(c).nums["MAX_FASTLOAD_SESSIONS"] >= 1
<1> DEFINE t == [f \in DOMAIN c.texts |-> IF c.texts[f] = NoText THEN TextDefault(f) ELSE c.texts[f]]
           n == [f \in DOMAIN c.nums |->
                   IF \/ c.nums[f] = 0
                      \/ f = "MAX_FASTLOAD_SESSIONS" /\ c.nums[f] < 1
                   THEN NewConfig.nums[f] ELSE c.nums[f]]
<1>1. Normalize(c) = [c EXCEPT !.texts = t, !.nums = n]
  BY Zenon DEF Normalize, NoText
<1>2. /\ c.texts \in [TextFields -> AnyText] /\ c.nums \in [NumFields -> Int]
      /\ c.flags \in [FlagFields -> BOOLEAN] /\ c.nums["TIMEOUT"] % 1000 = 0
      /\ \A f \in DOMAIN Modes : c.texts[f] \in Modes[f] \cup {NoText}
  BY Zenon DEF Configs
<1>3. DOMAIN t = TextFields /\ \A f \in TextFields : t[f] = IF c.texts[f] = NoText THEN TextDefault(f) ELSE c.texts[f]
  BY <1>2
<1>4. DOMAIN n = NumFields
      /\ \A f \in NumFields : n[f] = IF \/ c.nums[f] = 0
                                        \/ f = "MAX_FASTLOAD_SESSIONS" /\ c.nums[f] < 1
                                     THEN NewConfig.nums[f] ELSE c.nums[f]
  BY <1>2
<1>n. NewConfig.nums \in [NumFields -> Int]
  BY NewConfigIs
<1>t. t = [f \in DOMAIN t |-> t[f]] /\ n = [f \in DOMAIN n |-> n[f]]
  BY Zenon
<1>r. DOMAIN c = {"texts", "nums", "flags"}
  BY DEF Configs
<1> HIDE DEF t, n
<1>5. /\ Normalize(c) = [texts |-> t, nums |-> n, flags |-> c.flags]
      /\ Normalize(c).texts = t /\ Normalize(c).nums = n /\ Normalize(c).flags = c.flags
  BY <1>1 DEF Configs
<1>6. \A f \in DOMAIN Modes : f \in TextFields /\ t[f] \in Modes[f]
  <2>1. \A f \in DOMAIN Modes : f \in TextFields
    BY TextsAre, Zenon DEF TextFields
  <2> QED BY <1>2, <1>3, <2>1, TextsAre, Zenon
<1>7. t \in [TextFields -> AnyText]
  <2>1. \A f \in TextFields : TextDefault(f) \in AnyText
    BY Zenon DEF AnyText
  <2>2. \A f \in TextFields : t[f] \in AnyText
    BY <1>2, <1>3, <2>1, Zenon
  <2> QED BY <1>3, <1>t, <2>2, Zenon
<1>8. n \in [NumFields -> Int]
  <2>1. \A f \in NumFields : n[f] \in Int
    BY <1>2, <1>4, <1>n
  <2> QED BY <1>4, <1>t, <2>1, Zenon
<1>9. n["TIMEOUT"] % 1000 = 0
  <2>1. "TIMEOUT" \in NumFields /\ "TIMEOUT" # "MAX_FASTLOAD_SESSIONS"
    BY DEF NumFields
  <2>2. n["TIMEOUT"] = 60000 \/ n["TIMEOUT"] = c.nums["TIMEOUT"]
    BY <1>4, <2>1, NewConfigIs
  <2>3. 60000 % 1000 = 0
    OBVIOUS
  <2> QED BY <1>2, <2>2, <2>3
<1>10. t["PARTITION"] # NoText
  <2>1. "PARTITION" \in TextFields /\ "DBC/SQL" # NoText
    BY DEF TextFields, FreeTexts, NoText
  <2> QED BY <1>3, <2>1, TextsAre, Zenon
<1>11. \A f \in NumFields : n[f] = 0 => NewConfig.nums[f] = 0
  <2>1. ASSUME NEW f \in NumFields, n[f] = 0, c.nums[f] # 0
        PROVE  NewConfig.nums[f] = 0
    BY <1>4, <2>1, Zenon
  <2>2. ASSUME NEW f \in NumFields, n[f] = 0, c.nums[f] = 0
        PROVE  NewConfig.nums[f] = 0
    BY <1>4, <2>2, Zenon
  <2> QED BY <2>1, <2>2, Zenon
<1>12. n["MAX_FASTLOAD_SESSIONS"] >= 1
  <2>1. "MAX_FASTLOAD_SESSIONS" \in NumFields
    BY DEF NumFields
  <2> DEFINE f == "MAX_FASTLOAD_SESSIONS"
             m == c.nums[f]
             d == NewConfig.nums[f]
  <2>2. m \in Int /\ d = 8
    BY <1>2, <2>1, NewConfigIs
  <2>3. n[f] = IF m = 0 \/ m < 1 THEN d ELSE m
    BY <1>4, <2>1 DEF NoText
  <2> HIDE DEF m, d
  <2> QED BY <2>2, <2>3
<1>13. Normalize(c) \in Configs
  BY <1>2, <1>5, <1>6, <1>7, <1>8, <1>9, Zenon DEF Configs
<1> QED BY <1>5, <1>6, <1>10, <1>11, <1>12, <1>13

\* A configuration as normalize leaves it.
Normal(c) ==
    /\ c \in Configs
    /\ \A f \in DOMAIN Modes : c.texts[f] \in Modes[f]
    /\ c.texts["PARTITION"] # NoText
    /\ \A f \in NumFields : c.nums[f] = 0 => NewConfig.nums[f] = 0
    /\ c.nums["MAX_FASTLOAD_SESSIONS"] >= 1

\* A text that is empty in a normal configuration has no default.
LEMMA EmptyTexts ==
    ASSUME NEW c, Normal(c)
    PROVE  \A f \in TextFields : c.texts[f] = NoText => TextDefault(f) = NoText
<1>1. SUFFICES ASSUME NEW f \in TextFields, c.texts[f] = NoText PROVE TextDefault(f) = NoText
  BY Zenon
<1>2. f \notin DOMAIN Modes
  BY <1>1, TextsAre, Zenon DEF Normal
<1>3. f # "PARTITION"
  BY <1>1, Zenon DEF Normal
<1> QED BY <1>2, <1>3, TextsAre, Zenon DEF TextFields

\* Normalizing once is enough.
LEMMA NormalIsFixed ==
    ASSUME NEW c, Normal(c)
    PROVE  Normalize(c) = c
<1> DEFINE t == [f \in DOMAIN c.texts |-> IF c.texts[f] = NoText THEN TextDefault(f) ELSE c.texts[f]]
           n == [f \in DOMAIN c.nums |->
                   IF \/ c.nums[f] = 0
                      \/ f = "MAX_FASTLOAD_SESSIONS" /\ c.nums[f] < 1
                   THEN NewConfig.nums[f] ELSE c.nums[f]]
<1>1. Normalize(c) = [c EXCEPT !.texts = t, !.nums = n]
  BY Zenon DEF Normalize, NoText
<1>2. c.texts \in [TextFields -> AnyText] /\ c.nums \in [NumFields -> Int]
  BY Zenon DEF Normal, Configs
<1>3. t = c.texts
  <2>1. \A f \in TextFields : t[f] = c.texts[f]
    <3>1. TAKE f \in TextFields
    <3>2. t[f] = IF c.texts[f] = NoText THEN TextDefault(f) ELSE c.texts[f]
      BY <1>2
    <3> QED BY <3>2, EmptyTexts, Zenon
  <2>2. DOMAIN t = TextFields /\ t = [f \in DOMAIN t |-> t[f]]
    BY <1>2, Zenon
  <2> HIDE DEF t
  <2> QED BY <1>2, <2>1, <2>2
<1>4. n = c.nums
  <2>1. \A f \in NumFields : n[f] = c.nums[f]
    <3>1. TAKE f \in NumFields
    <3>2. n[f] = IF c.nums[f] = 0 \/ (f = "MAX_FASTLOAD_SESSIONS" /\ c.nums[f] < 1)
                 THEN NewConfig.nums[f] ELSE c.nums[f]
      BY <1>2
    <3>3. ~(f = "MAX_FASTLOAD_SESSIONS" /\ c.nums[f] < 1)
      BY <1>2 DEF Normal
    <3>4. c.nums[f] = 0 => NewConfig.nums[f] = 0
      BY Zenon DEF Normal
    <3> QED BY <3>2, <3>3, <3>4, Zenon
  <2>2. DOMAIN n = NumFields /\ n = [f \in DOMAIN n |-> n[f]]
    BY <1>2, Zenon
  <2> HIDE DEF n
  <2> QED BY <1>2, <2>1, <2>2
<1>5. [c EXCEPT !.texts = t, !.nums = n] = c
  <2> HIDE DEF t, n
  <2>1. c = [texts |-> c.texts, nums |-> c.nums, flags |-> c.flags]
    BY DEF Normal, Configs
  <2>2. \A u, v : u = c.texts /\ v = c.nums => [c EXCEPT !.texts = u, !.nums = v] = c
    BY <2>1
  <2> QED BY <1>3, <1>4, <2>2, Zenon
<1> QED BY <1>1, <1>5, Zenon

\* normalize leaves a normal configuration.
LEMMA NormalizeIsNormal ==
    ASSUME NEW c \in Configs
    PROVE  Normal(Normalize(c))
BY NormalizeIs, Zenon DEF Normal

\* What ToDSN writes of a normal configuration.
LEMMA ToDSNIs ==
    ASSUME NEW c, Normal(c)
    PROVE  /\ \A f \in Parts : ToDSN(c).parts[f] = IF f = "PASSWORD" /\ c.texts["USER"] = NoText
                                                   THEN NoText ELSE c.texts[f]
           /\ DOMAIN ToDSN(c).texts = {f \in DOMAIN Modes \cup FreeTexts :
                 IF f = "PARTITION" THEN c.texts[f] # NoText ELSE c.texts[f] # TextDefault(f)}
           /\ \A f \in DOMAIN ToDSN(c).texts : ToDSN(c).texts[f] = c.texts[f]
           /\ DOMAIN ToDSN(c).nums = {f \in NumFields \ Unwritten : c.nums[f] # NewConfig.nums[f]}
           /\ \A f \in DOMAIN ToDSN(c).nums :
                 ToDSN(c).nums[f] = IF f = "TIMEOUT" THEN RoundSeconds(c.nums[f]) ELSE c.nums[f]
           /\ DOMAIN ToDSN(c).flags = {f \in FlagFields \ Unwritten : c.flags[f] # NewConfig.flags[f]}
           /\ \A f \in DOMAIN ToDSN(c).flags : ToDSN(c).flags[f] = c.flags[f]
<1> DEFINE wt == {f \in DOMAIN Modes \cup FreeTexts :
                    IF f = "PARTITION" THEN c.texts[f] # NoText ELSE c.texts[f] # TextDefault(f)}
           wn == {f \in DOMAIN c.nums \ Unwritten : c.nums[f] # NewConfig.nums[f]}
           wf == {f \in DOMAIN c.flags \ Unwritten : c.flags[f] # NewConfig.flags[f]}
           p == [f \in Parts |-> IF f = "PASSWORD" /\ c.texts["USER"] = NoText THEN NoText ELSE c.texts[f]]
           n == [f \in wn |-> IF f = "TIMEOUT" THEN RoundSeconds(c.nums[f]) ELSE c.nums[f]]
<1>1. Written(c) = [texts |-> wt, nums |-> wn, flags |-> wf]
  BY Zenon DEF Written, NoText
<1>2. Written(c).texts = wt /\ Written(c).nums = wn /\ Written(c).flags = wf
  <2> HIDE DEF wt, wn, wf
  <2> QED BY <1>1
<1>3. ToDSN(c) = [parts |-> p, texts |-> Restrict(c.texts, wt), nums |-> n, flags |-> Restrict(c.flags, wf)]
  <2> HIDE DEF wt, wn, wf
  <2> QED BY <1>2, NormalIsFixed, Zenon DEF ToDSN, NoText
<1>4. ToDSN(c).parts = p /\ ToDSN(c).texts = Restrict(c.texts, wt) /\ ToDSN(c).nums = n
      /\ ToDSN(c).flags = Restrict(c.flags, wf)
  <2> HIDE DEF wt, wf, p, n
  <2> QED BY <1>3
<1>5. DOMAIN c.nums = NumFields /\ DOMAIN c.flags = FlagFields
  BY Zenon DEF Normal, Configs
<1>6. DOMAIN Restrict(c.texts, wt) = wt /\ \A f \in wt : Restrict(c.texts, wt)[f] = c.texts[f]
  <2> HIDE DEF wt
  <2> QED BY DEF Restrict
<1>7. DOMAIN Restrict(c.flags, wf) = wf /\ \A f \in wf : Restrict(c.flags, wf)[f] = c.flags[f]
  <2> HIDE DEF wf
  <2> QED BY Zenon DEF Restrict
<1>8. /\ DOMAIN n = wn /\ \A f \in wn : n[f] = IF f = "TIMEOUT" THEN RoundSeconds(c.nums[f]) ELSE c.nums[f]
      /\ \A f \in Parts : p[f] = IF f = "PASSWORD" /\ c.texts["USER"] = NoText THEN NoText ELSE c.texts[f]
  <2> HIDE DEF wn
  <2> QED BY Zenon
<1>a. wn = {f \in NumFields \ Unwritten : c.nums[f] # NewConfig.nums[f]}
      /\ wf = {f \in FlagFields \ Unwritten : c.flags[f] # NewConfig.flags[f]}
  BY <1>5, Zenon
<1>b. DOMAIN ToDSN(c).texts = {f \in DOMAIN Modes \cup FreeTexts :
                 IF f = "PARTITION" THEN c.texts[f] # NoText ELSE c.texts[f] # TextDefault(f)}
  BY <1>4, <1>6, Zenon
<1> HIDE DEF wt, wn, wf, p, n
<1> QED BY <1>4, <1>6, <1>7, <1>8, <1>a, <1>b, Zenon

\* Whole seconds are written as they are.
LEMMA WholeSeconds ==
    ASSUME NEW ms \in Int, ms % 1000 = 0
    PROVE  RoundSeconds(ms) \in Int /\ 1000 * RoundSeconds(ms) = ms
<1>1. ms = 1000 * (ms \div 1000) + (ms % 1000)
  OBVIOUS
<1>2. RoundSeconds(ms) = ms \div 1000
  BY DEF RoundSeconds
<1>3. ms \div 1000 \in Int
  OBVIOUS
<1> QED BY <1>1, <1>2, <1>3

\* What the reader makes of what was written, before it is normalized.
LEMMA ReadTextIs ==
    ASSUME NEW c, Normal(c), NEW f \in TextFields
    PROVE  ReadText(ToDSN(c), f) = IF f = "PASSWORD" /\ c.texts["USER"] = NoText
                                   THEN NoText ELSE c.texts[f]
<1> DEFINE dsn == ToDSN(c)
           v == Given(dsn.texts, f, NoText)
           wt == {g \in DOMAIN Modes \cup FreeTexts :
                    IF g = "PARTITION" THEN c.texts[g] # NoText ELSE c.texts[g] # TextDefault(g)}
<1>1. ReadText(dsn, f) = IF f \in Parts THEN dsn.parts[f]
                         ELSE IF f \in DOMAIN Modes /\ v \notin Modes[f] THEN TextDefault(f) ELSE v
  BY Zenon DEF ReadText, NoText
<1>2. /\ \A g \in Parts : dsn.parts[g] = IF g = "PASSWORD" /\ c.texts["USER"] = NoText THEN NoText ELSE c.texts[g]
      /\ DOMAIN dsn.texts = wt
      /\ \A g \in wt : dsn.texts[g] = c.texts[g]
  <2>1. \A g \in Parts : dsn.parts[g] = IF g = "PASSWORD" /\ c.texts["USER"] = NoText THEN NoText ELSE c.texts[g]
    BY ToDSNIs, Zenon
  <2>2. DOMAIN dsn.texts = wt
    BY ToDSNIs, Zenon
  <2>3. \A g \in DOMAIN dsn.texts : dsn.texts[g] = c.texts[g]
    BY ToDSNIs, Zenon
  <2> HIDE DEF dsn, wt
  <2> QED BY <2>1, <2>2, <2>3, Zenon
<1>3. v = IF f \in wt THEN c.texts[f] ELSE NoText
  BY <1>2, Zenon DEF Given
<1>4. f \in wt <=> f \in DOMAIN Modes \cup FreeTexts /\ IF f = "PARTITION" THEN c.texts[f] # NoText ELSE c.texts[f] # TextDefault(f)
  BY Zenon
<1> HIDE DEF dsn, v, wt
<1>5. CASE f \in Parts
  BY <1>1, <1>2, <1>5, Zenon DEF dsn
<1>6. CASE f \in DOMAIN Modes
  <2>1. f \notin Parts /\ f # "PASSWORD" /\ f # "PARTITION"
    BY <1>6, TextsAre DEF Parts
  <2>2. c.texts[f] \in Modes[f] /\ NoText \notin Modes[f]
    BY <1>6, TextsAre, Zenon DEF Normal
  <2> QED BY <1>1, <1>3, <1>4, <1>6, <2>1, <2>2, Zenon DEF dsn
<1>7. CASE f \in FreeTexts
  <2>1. f \notin Parts /\ f # "PASSWORD" /\ f \notin DOMAIN Modes
    BY <1>7, TextsAre DEF Parts, FreeTexts
  <2>2. f = "PARTITION" => c.texts[f] # NoText
    BY Zenon DEF Normal
  <2>3. f # "PARTITION" => TextDefault(f) = NoText
    BY <1>7, TextsAre, Zenon
  <2> QED BY <1>1, <1>3, <1>4, <1>7, <2>1, <2>2, <2>3, Zenon DEF dsn
<1>8. f \in Parts \/ f \in DOMAIN Modes \/ f \in FreeTexts
  BY TextsAre, Zenon DEF TextFields
<1> QED BY <1>5, <1>6, <1>7, <1>8, Zenon

\* A number read is the one configured, or 0 for the default.
LEMMA ReadNumIs ==
    ASSUME NEW c, Normal(c), NEW f \in NumFields
    PROVE  IF f = "PORT" THEN ReadNum(ToDSN(c), f) = 1025
           ELSE \/ ReadNum(ToDSN(c), f) = c.nums[f]
                \/ ReadNum(ToDSN(c), f) = 0 /\ c.nums[f] = NewConfig.nums[f]
<1> DEFINE dsn == ToDSN(c)
           x == c.nums[f]
           wn == {g \in NumFields \ Unwritten : c.nums[g] # NewConfig.nums[g]}
<1>1. /\ DOMAIN dsn.nums = wn
      /\ \A g \in wn : dsn.nums[g] = IF g = "TIMEOUT" THEN RoundSeconds(c.nums[g]) ELSE c.nums[g]
  <2>1. DOMAIN dsn.nums = wn
    BY ToDSNIs, Zenon
  <2>2. \A g \in DOMAIN dsn.nums :
           dsn.nums[g] = IF g = "TIMEOUT" THEN RoundSeconds(c.nums[g]) ELSE c.nums[g]
    BY ToDSNIs, Zenon
  <2> HIDE DEF wn, dsn
  <2> QED BY <2>1, <2>2, Zenon
<1>2. f \in wn <=> f \notin Unwritten /\ x # NewConfig.nums[f]
  BY Zenon
<1>3. x \in Int /\ (x = 0 => NewConfig.nums[f] = 0)
  <2>1. c.nums \in [NumFields -> Int]
    BY Zenon DEF Normal, Configs
  <2>2. \A g \in NumFields : c.nums[g] = 0 => NewConfig.nums[g] = 0
    BY Zenon DEF Normal
  <2> QED BY <2>1, <2>2, Zenon
<1>4. \A d : Given(dsn.nums, f, d) = IF f \in wn THEN dsn.nums[f] ELSE d
  BY <1>1, Zenon DEF Given
<1> HIDE DEF wn, dsn
<1>5. CASE f = "PORT"
  BY <1>5 DEF ReadNum, dsn
<1>6. CASE f = "TIMEOUT"
  <2> DEFINE v == Given(dsn.nums, f, 0)
  <2>0. ReadNum(dsn, f) = 1000 * (IF v = 0 THEN 60 ELSE v)
    BY <1>6 DEF ReadNum
  <2>1. x % 1000 = 0 /\ NewConfig.nums[f] = 60000 /\ f \notin Unwritten /\ f # "PORT"
    BY <1>6, NewConfigIs DEF Normal, Configs, Unwritten
  <2> HIDE DEF x
  <2>2. RoundSeconds(x) \in Int /\ 1000 * RoundSeconds(x) = x
    BY <1>3, <2>1, WholeSeconds
  <2>3. v = IF x # 60000 THEN RoundSeconds(x) ELSE 0
    <3>1. f \in wn <=> x # 60000
      BY <1>2, <2>1
    <3>2. f \in wn => dsn.nums[f] = RoundSeconds(x)
      BY <1>1, <1>6, Zenon DEF x
    <3> QED BY <1>4, <3>1, <3>2 DEF v
  <2> DEFINE s == RoundSeconds(x)
  <2> HIDE DEF v, s
  <2>4. x # 0 /\ s \in Int /\ 1000 * s = x /\ v = IF x # 60000 THEN s ELSE 0
    BY <1>3, <2>1, <2>2, <2>3 DEF s
  <2>5. 1000 * (IF v = 0 THEN 60 ELSE v) = x
    <3>1. CASE x = 60000
      BY <2>4, <3>1
    <3>2. CASE x # 60000
      <4>1. v = s /\ v # 0
        BY <2>4, <3>2
      <4> QED BY <2>4, <4>1
    <3> QED BY <3>1, <3>2
  <2> QED BY <2>0, <2>1, <2>5 DEF x, dsn
<1>7. CASE f = "HTTPS_PORT"
  <2>1. ReadNum(dsn, f) = Given(dsn.nums, f, 443)
    BY <1>7 DEF ReadNum
  <2>2. NewConfig.nums[f] = 443 /\ f \notin Unwritten /\ f # "PORT" /\ f # "TIMEOUT"
    BY <1>7, NewConfigIs DEF Unwritten
  <2>3. f \in wn => dsn.nums[f] = x
    BY <1>1, <2>2, Zenon
  <2>4. f \notin wn => x = 443
    BY <1>2, <2>2, Zenon
  <2>5. ReadNum(dsn, f) = x
    BY <1>4, <2>1, <2>3, <2>4, Zenon
  <2> QED BY <2>2, <2>5, Zenon DEF dsn
<1>8. CASE f \notin {"PORT", "TIMEOUT", "HTTPS_PORT"}
  <2>1. ReadNum(dsn, f) = Given(dsn.nums, f, 0)
    BY <1>8 DEF ReadNum
  <2>2. f # "PORT" /\ f # "TIMEOUT" /\ f \notin Unwritten
    BY <1>8 DEF Unwritten, NumFields
  <2> QED BY <1>1, <1>2, <1>4, <2>1, <2>2, Zenon DEF dsn
<1> QED BY <1>5, <1>6, <1>7, <1>8, Zenon

\* A switch read is the one configured, but for LOB_PREFETCH, which is off.
LEMMA ReadFlagIs ==
    ASSUME NEW c, Normal(c), NEW f \in FlagFields
    PROVE  ReadFlag(ToDSN(c), f) = IF f = "LOB_PREFETCH" THEN FALSE ELSE c.flags[f]
<1> DEFINE dsn == ToDSN(c)
           wf == {g \in FlagFields \ Unwritten : c.flags[g] # NewConfig.flags[g]}
           v == Given(dsn.flags, f, NewConfig.flags[f])
<1>1. DOMAIN dsn.flags = wf /\ \A g \in DOMAIN dsn.flags : dsn.flags[g] = c.flags[g]
  BY ToDSNIs, Zenon
<1>2. f \in wf <=> f \notin Unwritten /\ c.flags[f] # NewConfig.flags[f]
  BY Zenon
<1>3. c.flags[f] \in BOOLEAN
  <2>1. c.flags \in [FlagFields -> BOOLEAN]
    BY Zenon DEF Normal, Configs
  <2> QED BY <2>1, Zenon
<1>4. ReadFlag(dsn, f) = (f # "LOB_PREFETCH" /\ v)
  BY Zenon DEF ReadFlag
<1>5. v = IF f \in DOMAIN dsn.flags THEN dsn.flags[f] ELSE NewConfig.flags[f]
  BY DEF Given
<1> HIDE DEF dsn, wf, v
<1>6. CASE f = "LOB_PREFETCH"
  BY <1>4, <1>6, Zenon DEF dsn
<1>7. CASE f # "LOB_PREFETCH"
  <2>1. f \notin Unwritten
    BY <1>7 DEF Unwritten, FlagFields
  <2>2. f \in wf => v = c.flags[f]
    BY <1>1, <1>5, Zenon
  <2>3. f \notin wf => v = c.flags[f]
    BY <1>1, <1>2, <1>5, <2>1, Zenon
  <2>4. v = c.flags[f]
    BY <2>2, <2>3, Zenon
  <2>5. ReadFlag(dsn, f) = v
    BY <1>3, <1>4, <1>7, <2>4, Zenon
  <2> QED BY <1>7, <2>4, <2>5, Zenon DEF dsn
<1> QED BY <1>6, <1>7, Zenon

\* The configuration a connection string gives back.
Reread(c) == [c EXCEPT !.nums["PORT"] = 1025,
                       !.flags["LOB_PREFETCH"] = FALSE,
                       !.texts["PASSWORD"] = IF c.texts["USER"] = NoText THEN NoText ELSE @]

\* Any normal configuration written as a connection string and read again is the same but
\* for the port, LOB_PREFETCH and a password without a user (ParseDSN after ToDSN).
THEOREM DsnIsUndone ==
    ASSUME NEW c, Normal(c)
    PROVE  ParseDSN(ToDSN(c)) = Reread(c)
<1> DEFINE d == ToDSN(c)
           rt == [f \in TextFields |-> ReadText(d, f)]
           rn == [f \in NumFields |-> ReadNum(d, f)]
           rf == [f \in FlagFields |-> ReadFlag(d, f)]
           r == [texts |-> rt, nums |-> rn, flags |-> rf]
           t == [f \in DOMAIN rt |-> IF rt[f] = NoText THEN TextDefault(f) ELSE rt[f]]
           n == [f \in DOMAIN rn |->
                   IF \/ rn[f] = 0
                      \/ f = "MAX_FASTLOAD_SESSIONS" /\ rn[f] < 1
                   THEN NewConfig.nums[f] ELSE rn[f]]
           pw == IF c.texts["USER"] = NoText THEN NoText ELSE c.texts["PASSWORD"]
           tx == [c.texts EXCEPT !["PASSWORD"] = pw]
           nx == [c.nums EXCEPT !["PORT"] = 1025]
           fx == [c.flags EXCEPT !["LOB_PREFETCH"] = FALSE]
<1>1. ParseDSN(d) = Normalize(r)
  <2>1. DOMAIN NewConfig.texts = TextFields /\ DOMAIN NewConfig.nums = NumFields
        /\ DOMAIN NewConfig.flags = FlagFields
    BY NewConfigIs
  <2> HIDE DEF d
  <2> QED BY <2>1 DEF ParseDSN
<1>2. Normalize(r) = [r EXCEPT !.texts = t, !.nums = n]
  <2> HIDE DEF rt, rn, rf
  <2>1. r.texts = rt /\ r.nums = rn
    OBVIOUS
  <2> HIDE DEF r
  <2> QED BY <2>1, Zenon DEF Normalize, NoText
<1>3. [r EXCEPT !.texts = t, !.nums = n] = [texts |-> t, nums |-> n, flags |-> rf]
  <2> DEFINE y == [r EXCEPT !.texts = t, !.nums = n]
             z == [texts |-> t, nums |-> n, flags |-> rf]
             K == {"texts", "nums", "flags"}
  <2> HIDE DEF rt, rn, rf, t, n
  <2>1. DOMAIN y = K /\ y.texts = t /\ y.nums = n /\ y.flags = rf
    OBVIOUS
  <2>2. DOMAIN z = K /\ z.texts = t /\ z.nums = n /\ z.flags = rf
    OBVIOUS
  <2>3. y = [k \in DOMAIN y |-> y[k]] /\ z = [k \in DOMAIN z |-> z[k]]
    BY Zenon
  <2> HIDE DEF y, z
  <2>4. y = z
    BY <2>1, <2>2, <2>3
  <2> QED BY <2>4 DEF y, z
<1>4. /\ c.texts \in [TextFields -> AnyText] /\ c.nums \in [NumFields -> Int]
      /\ c.flags \in [FlagFields -> BOOLEAN]
      /\ c = [texts |-> c.texts, nums |-> c.nums, flags |-> c.flags]
  <2>1. c.texts \in [TextFields -> AnyText] /\ c.nums \in [NumFields -> Int]
        /\ c.flags \in [FlagFields -> BOOLEAN]
    BY Zenon DEF Normal, Configs
  <2>2. c = [texts |-> c.texts, nums |-> c.nums, flags |-> c.flags]
    BY DEF Normal, Configs
  <2> QED BY <2>1, <2>2, Zenon
<1>5. t = tx
  <2>1. DOMAIN t = TextFields /\ t = [f \in DOMAIN t |-> t[f]]
    BY Zenon
  <2>2. DOMAIN tx = TextFields /\ tx = [f \in DOMAIN tx |-> tx[f]]
    BY <1>4, Zenon
  <2>3. \A f \in TextFields : t[f] = tx[f]
    <3>1. TAKE f \in TextFields
    <3>2. t[f] = IF rt[f] = NoText THEN TextDefault(f) ELSE rt[f]
      BY Zenon
    <3>3. rt[f] = IF f = "PASSWORD" /\ c.texts["USER"] = NoText THEN NoText ELSE c.texts[f]
      BY ReadTextIs, Zenon
    <3>4. tx[f] = IF f = "PASSWORD" THEN pw ELSE c.texts[f]
      BY <1>4, Zenon
    <3>5. c.texts[f] = NoText => TextDefault(f) = NoText
      BY EmptyTexts, Zenon
    <3>6. f = "PASSWORD" => TextDefault(f) = NoText
      BY TextsAre DEF Parts
    <3> HIDE DEF rt, t, tx
    <3> QED BY <3>2, <3>3, <3>4, <3>5, <3>6, Zenon
  <2> HIDE DEF t, tx
  <2> QED BY <2>1, <2>2, <2>3, Zenon
<1>6. n = nx
  <2>1. DOMAIN n = NumFields /\ n = [f \in DOMAIN n |-> n[f]]
    BY Zenon
  <2>2. DOMAIN nx = NumFields /\ nx = [f \in DOMAIN nx |-> nx[f]]
    BY <1>4
  <2>3. \A f \in NumFields : n[f] = nx[f]
    <3>1. TAKE f \in NumFields
    <3>2. n[f] = IF rn[f] = 0 \/ (f = "MAX_FASTLOAD_SESSIONS" /\ rn[f] < 1)
                 THEN NewConfig.nums[f] ELSE rn[f]
      BY Zenon
    <3>3. IF f = "PORT" THEN rn[f] = 1025
          ELSE rn[f] = c.nums[f] \/ (rn[f] = 0 /\ c.nums[f] = NewConfig.nums[f])
      <4>1. rn[f] = ReadNum(d, f)
        BY Zenon
      <4> HIDE DEF rn
      <4> QED BY <4>1, ReadNumIs
    <3>4. nx[f] = IF f = "PORT" THEN 1025 ELSE c.nums[f]
      BY <1>4, Zenon
    <3>5. c.nums[f] = 0 => NewConfig.nums[f] = 0
      BY Zenon DEF Normal
    <3>6. f = "MAX_FASTLOAD_SESSIONS" => c.nums[f] \in Int /\ ~(c.nums[f] < 1)
      BY <1>4 DEF Normal
    <3> HIDE DEF rn, n, nx
    <3>7. CASE f = "PORT"
      BY <3>2, <3>3, <3>4, <3>7
    <3>8. CASE f # "PORT" /\ rn[f] = 0
      BY <3>2, <3>3, <3>4, <3>5, <3>8
    <3>9. CASE f # "PORT" /\ rn[f] # 0
      BY <3>2, <3>3, <3>4, <3>6, <3>9, Zenon
    <3> QED BY <3>7, <3>8, <3>9, Zenon
  <2> HIDE DEF n, nx
  <2> QED BY <2>1, <2>2, <2>3, Zenon
<1>7. rf = fx
  <2>1. DOMAIN rf = FlagFields /\ rf = [f \in DOMAIN rf |-> rf[f]]
    BY Zenon
  <2>2. DOMAIN fx = FlagFields /\ fx = [f \in DOMAIN fx |-> fx[f]]
    BY <1>4, Zenon
  <2>3. \A f \in FlagFields : rf[f] = fx[f]
    <3>1. TAKE f \in FlagFields
    <3>2. rf[f] = IF f = "LOB_PREFETCH" THEN FALSE ELSE c.flags[f]
      BY ReadFlagIs, Zenon
    <3>3. fx[f] = IF f = "LOB_PREFETCH" THEN FALSE ELSE c.flags[f]
      BY <1>4, Zenon
    <3> QED BY <3>2, <3>3, Zenon
  <2> HIDE DEF rf, fx
  <2> QED BY <2>1, <2>2, <2>3, Zenon
<1>8. [c EXCEPT !.nums["PORT"] = 1025, !.flags["LOB_PREFETCH"] = FALSE,
                !.texts["PASSWORD"] = IF c.texts["USER"] = NoText THEN NoText ELSE @]
        = [texts |-> tx, nums |-> nx, flags |-> fx]
  <2>1. [c EXCEPT !.nums["PORT"] = 1025, !.flags["LOB_PREFETCH"] = FALSE,
                  !.texts["PASSWORD"] = IF c.texts["USER"] = NoText THEN NoText ELSE @]
          = [c EXCEPT !.nums = nx, !.flags = fx, !.texts = tx]
    OBVIOUS
  <2> HIDE DEF tx, nx, fx
  <2> DEFINE y == [c EXCEPT !.nums = nx, !.flags = fx, !.texts = tx]
             z == [texts |-> tx, nums |-> nx, flags |-> fx]
             K == {"texts", "nums", "flags"}
  <2>2. DOMAIN y = K /\ y.texts = tx /\ y.nums = nx /\ y.flags = fx
    BY <1>4
  <2>3. DOMAIN z = K /\ z.texts = tx /\ z.nums = nx /\ z.flags = fx
    OBVIOUS
  <2>4. y = [k \in DOMAIN y |-> y[k]] /\ z = [k \in DOMAIN z |-> z[k]]
    BY Zenon
  <2> HIDE DEF y, z
  <2>5. y = z
    BY <2>2, <2>3, <2>4
  <2> QED BY <2>1, <2>5 DEF y, z
<1> HIDE DEF d, r, rf, t, n, tx, nx, fx
<1>9. ParseDSN(d) = [texts |-> tx, nums |-> nx, flags |-> fx]
  BY <1>1, <1>2, <1>3, <1>5, <1>6, <1>7, Zenon
<1> QED BY <1>8, <1>9, Zenon DEF d, Reread

\* A new configuration is a configuration, and stays one when a field is set.
LEMMA NewConfigIsOne == NewConfig \in Configs
<1>1. NewConfig.texts = [f \in TextFields |-> TextDefault(f)]
  <2>1. Parts \cup DOMAIN Modes \cup FreeTexts = TextFields
    BY TextsAre, Zenon DEF TextFields
  <2>2. NewConfig.texts = [f \in Parts \cup DOMAIN Modes \cup FreeTexts |-> TextDefault(f)]
    BY DEF NewConfig
  <2> QED BY <2>1, <2>2
<1>2. \A f \in TextFields : TextDefault(f) \in AnyText
  BY Zenon DEF AnyText
<1>3. NewConfig.texts \in [TextFields -> AnyText]
  BY <1>1, <1>2
<1>4. \A f \in DOMAIN Modes : NewConfig.texts[f] \in Modes[f] \cup {NoText}
  <2>1. \A f \in DOMAIN Modes : f \in TextFields
    BY TextsAre, Zenon DEF TextFields
  <2>2. \A f \in TextFields : NewConfig.texts[f] = TextDefault(f)
    BY <1>1, Zenon
  <2> QED BY <2>1, <2>2, TextsAre, Zenon
<1>5. NewConfig.nums["TIMEOUT"] % 1000 = 0
  BY NewConfigIs
<1>6. NewConfig = [texts |-> NewConfig.texts, nums |-> NewConfig.nums, flags |-> NewConfig.flags]
  BY DEF NewConfig
<1>7. NewConfig.texts \in {t \in [TextFields -> AnyText] : \A f \in DOMAIN Modes : t[f] \in Modes[f] \cup {NoText}}
  BY <1>3, <1>4, Zenon
<1>8. NewConfig.nums \in {n \in [NumFields -> Int] : n["TIMEOUT"] % 1000 = 0}
  BY <1>5, NewConfigIs
<1>9. NewConfig.flags \in [FlagFields -> BOOLEAN]
  BY NewConfigIs
<1> DEFINE t == NewConfig.texts
           n == NewConfig.nums
           b == NewConfig.flags
<1>10. [texts |-> t, nums |-> n, flags |-> b] \in Configs
  <2> HIDE DEF t, n, b
  <2> QED BY <1>7, <1>8, <1>9, Zenon DEF Configs, t, n, b
<1> QED BY <1>6, <1>10, Zenon

\* Setting one field of a configuration to a value of that field leaves a configuration.
LEMMA SetIsConfig ==
    ASSUME NEW c \in Configs, NEW field \in Fields, NEW v \in FieldValues(field[1], field[2])
    PROVE  Set(c, field, v) \in Configs
<1>0. PICK g \in {"texts", "nums", "flags"} : field \in {<<g, f>> : f \in DOMAIN NewConfig[g]}
  BY Zenon DEF Fields
<1>1. PICK f \in DOMAIN NewConfig[g] : field = <<g, f>>
  BY <1>0, Zenon
<1>2. v \in FieldValues(g, f) /\ Set(c, field, v) = [c EXCEPT ![g][f] = v]
  BY <1>1 DEF Set
<1> DEFINE y == [c EXCEPT ![g][f] = v]
           K == {"texts", "nums", "flags"}
           z == [texts |-> y.texts, nums |-> y.nums, flags |-> y.flags]
<1>3. DOMAIN c = K
  BY DEF Configs
<1>4. /\ c.texts \in [TextFields -> AnyText] /\ c.nums \in [NumFields -> Int]
      /\ c.flags \in [FlagFields -> BOOLEAN] /\ c.nums["TIMEOUT"] % 1000 = 0
      /\ \A h \in DOMAIN Modes : c.texts[h] \in Modes[h] \cup {NoText}
  BY Zenon DEF Configs
<1>5. DOMAIN y = K /\ y[g] = [c[g] EXCEPT ![f] = v] /\ \A h \in K \ {g} : y[h] = c[h]
  BY <1>3
<1>6. y = z
  <2>1. y = [k \in DOMAIN y |-> y[k]]
    BY Zenon
  <2>2. z = [k \in DOMAIN z |-> z[k]]
    <3> HIDE DEF y
    <3> QED BY Zenon
  <2>3. DOMAIN z = K
    OBVIOUS
  <2>5. z.texts = y.texts /\ z.nums = y.nums /\ z.flags = y.flags
    BY Zenon
  <2>4. DOMAIN y = K
    BY <1>5
  <2> HIDE DEF y, z
  <2> QED BY <2>1, <2>2, <2>3, <2>4, <2>5
<1> HIDE DEF y
<1> DEFINE OkTexts(t) == t \in [TextFields -> AnyText] /\ \A h \in DOMAIN Modes : t[h] \in Modes[h] \cup {NoText}
           OkNums(n) == n \in [NumFields -> Int] /\ n["TIMEOUT"] % 1000 = 0
           OkFlags(b) == b \in [FlagFields -> BOOLEAN]
<1>9. OkTexts(c.texts) /\ OkNums(c.nums) /\ OkFlags(c.flags)
  BY <1>4, Zenon
<1>7. OkTexts(y.texts) /\ OkNums(y.nums) /\ OkFlags(y.flags)
  <2> HIDE DEF OkTexts, OkNums, OkFlags
  <2>1. CASE g = "texts"
    <3>1. y.texts = [c.texts EXCEPT ![f] = v] /\ y.nums = c.nums /\ y.flags = c.flags
      BY <1>5, <2>1
    <3>2. f \in TextFields
      BY <1>1, <2>1, NewConfigIs
    <3>3. v \in FieldValues("texts", f)
      BY <1>2, <2>1
    <3>4. v \in AnyText
      <4>1. v \in FieldValues("texts", f) \cup {TextDefault(f)}
        BY <3>3, Zenon
      <4> HIDE DEF AnyText
      <4>2. FieldValues("texts", f) \cup {TextDefault(f)}
              \in {FieldValues("texts", h) \cup {TextDefault(h)} : h \in TextFields}
        BY <3>2, Zenon
      <4> QED BY <4>1, <4>2, Zenon DEF AnyText
    <3>5. f \in DOMAIN Modes => v \in Modes[f] \cup {NoText}
      <4>1. v \in TextValues(f)
        BY <3>3 DEF FieldValues
      <4>2. TextValues(f) = IF f \in DOMAIN Modes THEN Modes[f] \cup {NoText} ELSE {NoText, "x"}
        BY Zenon DEF TextValues, NoText
      <4> QED BY <4>1, <4>2, Zenon
    <3>6. [c.texts EXCEPT ![f] = v] \in [TextFields -> AnyText]
      BY <1>4, <3>4, Zenon
    <3>7. \A h \in DOMAIN Modes : h \in TextFields
      BY TextsAre, Zenon DEF TextFields
    <3>8. \A h \in TextFields : [c.texts EXCEPT ![f] = v][h] = IF h = f THEN v ELSE c.texts[h]
      BY <1>4, Zenon
    <3>9. \A h \in DOMAIN Modes : [c.texts EXCEPT ![f] = v][h] \in Modes[h] \cup {NoText}
      BY <1>4, <3>5, <3>7, <3>8, Zenon
    <3>10. OkTexts([c.texts EXCEPT ![f] = v])
      BY <3>6, <3>9, Zenon DEF OkTexts
    <3> QED BY <1>9, <3>1, <3>10, Zenon
  <2>2. CASE g = "nums"
    <3>1. y.nums = [c.nums EXCEPT ![f] = v] /\ y.texts = c.texts /\ y.flags = c.flags
      BY <1>5, <2>2
    <3>2. v \in FieldValues("nums", f)
      BY <1>2, <2>2
    <3>3. v \in NumValues(f)
      BY <3>2 DEF FieldValues
    <3>4. v \in Int
      BY <3>3 DEF NumValues
    <3>5. f = "TIMEOUT" => v % 1000 = 0
      BY <3>3 DEF NumValues
    <3>6. [c.nums EXCEPT ![f] = v] \in [NumFields -> Int]
      <4>1. c.nums \in [NumFields -> Int]
        BY Zenon DEF Configs
      <4> QED BY <3>4, <4>1, Zenon
    <3>7. [c.nums EXCEPT ![f] = v]["TIMEOUT"] = IF f = "TIMEOUT" THEN v ELSE c.nums["TIMEOUT"]
      BY <1>4 DEF NumFields
    <3>8. [c.nums EXCEPT ![f] = v]["TIMEOUT"] % 1000 = 0
      BY <1>4, <3>5, <3>7, Zenon
    <3>9. OkNums([c.nums EXCEPT ![f] = v])
      BY <3>6, <3>8, Zenon DEF OkNums
    <3> QED BY <1>9, <3>1, <3>9, Zenon
  <2>3. CASE g = "flags"
    <3>1. y.flags = [c.flags EXCEPT ![f] = v] /\ y.texts = c.texts /\ y.nums = c.nums
      BY <1>5, <2>3
    <3>2. v \in FieldValues("flags", f)
      BY <1>2, <2>3
    <3>3. FieldValues("flags", f) = BOOLEAN
      BY DEF FieldValues
    <3>4. [c.flags EXCEPT ![f] = v] \in [FlagFields -> BOOLEAN]
      BY <1>4, <3>2, <3>3, Zenon
    <3>5. OkFlags([c.flags EXCEPT ![f] = v])
      BY <3>4, Zenon DEF OkFlags
    <3> QED BY <1>9, <3>1, <3>5, Zenon
  <2> QED BY <2>1, <2>2, <2>3, Zenon
<1>8. z \in Configs
  BY <1>7, Zenon DEF Configs, OkTexts, OkNums, OkFlags
<1> QED BY <1>2, <1>6, <1>8, Zenon DEF y

\* A step gives an input to the codec of its action, or takes the last one away.
LEMMA StepsTake ==
    ASSUME Next
    PROVE  \/ \E codec \in {"message", "options", "features", "mechanism", "status", "items",
                            "wrap", "number", "decimal", "params"} : \E x : Take(codec, x)
           \/ LayOut \/ AddRow \/ Configured \/ input' = NoInput
<1> DEFINE Taken(codec) == \E x : Take(codec, x)
<1>1. Send => Taken("message")
  BY Zenon DEF Send
<1>2. Negotiate => Taken("options")
  BY DEF Negotiate
<1>3. Configure => Taken("features")
  BY Zenon DEF Configure
<1>4. Describe => Taken("mechanism") \/ Taken("status")
  BY Zenon DEF Describe
<1>5. Inform => Taken("items")
  BY Zenon DEF Inform
<1>6. Secure => Taken("wrap")
  BY Zenon DEF Secure
<1>7. EncodeNum => Taken("number")
  BY Zenon DEF EncodeNum
<1>8. Decimal => Taken("decimal")
  BY Zenon DEF Decimal
<1>9. Bind => Taken("params")
  BY Zenon DEF Bind
<1>10. Finish => input' = NoInput
  BY Zenon DEF Finish
<1> HIDE DEF Taken
<1> QED BY <1>1, <1>2, <1>3, <1>4, <1>5, <1>6, <1>7, <1>8, <1>9, <1>10, Zenon DEF Next, Taken

\* A step whose input is a codec's: only that codec's own action leads there.
LEMMA OwnAction ==
    ASSUME Next
    PROVE  /\ Is("dsn")' => Configured
           /\ Is("layout")' => LayOut
           /\ Is("loadrow")' => AddRow
<1> DEFINE others == {"message", "options", "features", "mechanism", "status", "items",
                      "wrap", "number", "decimal", "params"}
<1>1. ASSUME NEW codec \in others, NEW x, Take(codec, x)
      PROVE  ~Is("dsn")' /\ ~Is("layout")' /\ ~Is("loadrow")'
  BY <1>1 DEF Take, Is
<1>2. input' = NoInput => ~Is("dsn")' /\ ~Is("layout")' /\ ~Is("loadrow")'
  BY DEF NoInput, Is
<1>3. LayOut => ~Is("dsn")' /\ ~Is("loadrow")'
  <2>1. LayOut => \E x : Take("layout", x)
    BY Zenon DEF LayOut
  <2> QED BY <2>1 DEF Take, Is
<1>4. AddRow => ~Is("dsn")' /\ ~Is("layout")'
  <2>1. AddRow => \E x : Take("loadrow", x)
    BY Zenon DEF AddRow
  <2> QED BY <2>1 DEF Take, Is
<1>5. Configured => ~Is("layout")' /\ ~Is("loadrow")'
  <2>1. Configured => \E x : Take("dsn", x)
    BY Zenon DEF Configured
  <2> QED BY <2>1 DEF Take, Is
<1> QED BY StepsTake, <1>1, <1>2, <1>3, <1>4, <1>5, Zenon

\* The configurations written are of the types above.
DsnInputs == Is("dsn") => input.x.config \in Configs

\* The connection string of every configuration the codecs take reads back as that
\* configuration, its zero values taken for the defaults (ParseDSN, ToDSN, normalize).
THEOREM DsnsRoundTrip == Spec => []DsnRoundTrips
<1>1. Init => DsnInputs
  BY DEF Init, NoInput, DsnInputs, Is
<1>2. DsnInputs /\ [Next]_input => DsnInputs'
  <2>1. SUFFICES ASSUME DsnInputs, Next, Is("dsn")' PROVE input'.x.config \in Configs
    BY Zenon DEF DsnInputs, Is
  <2>2. Configured
    BY <2>1, OwnAction, Zenon
  <2>3. PICK f1 \in Fields, f2 \in Fields :
          \E v1 \in FieldValues(f1[1], f1[2]), v2 \in FieldValues(f2[1], f2[2]) :
             Take("dsn", [config |-> Set(Set(NewConfig, f1, v1), f2, v2)])
    BY <2>2, Zenon DEF Configured
  <2>4. PICK v1 \in FieldValues(f1[1], f1[2]), v2 \in FieldValues(f2[1], f2[2]) :
             Take("dsn", [config |-> Set(Set(NewConfig, f1, v1), f2, v2)])
    BY <2>3, Zenon
  <2>5. Set(NewConfig, f1, v1) \in Configs
    BY NewConfigIsOne, SetIsConfig, Zenon
  <2>6. Set(Set(NewConfig, f1, v1), f2, v2) \in Configs
    BY <2>5, SetIsConfig, Zenon
  <2> QED BY <2>4, <2>6 DEF Take
<1>3. DsnInputs => DsnRoundTrips
  <2>1. SUFFICES ASSUME DsnInputs, Is("dsn") PROVE DsnRoundTrips
    BY Zenon DEF DsnRoundTrips
  <2> DEFINE c == Normalize(input.x.config)
  <2>2. Normal(c)
    BY <2>1, NormalizeIsNormal, Zenon DEF DsnInputs
  <2> HIDE DEF c
  <2>3. ParseDSN(ToDSN(c)) = Reread(c)
    BY <2>2, DsnIsUndone, Zenon
  <2> QED BY <2>3, Zenon DEF DsnRoundTrips, Reread, NoText, c
<1> QED BY <1>1, <1>2, <1>3, PTL DEF Spec

-----------------------------------------------------------------------------
(* FastLoad rows.                                                          *)

\* p is the sequence of the sums of the first numbers of s.
SumsTo(p, s, n) ==
    /\ p \in [0..n -> Int] /\ p[0] = 0 /\ SumSeq(s) = p[n]
    /\ \A i \in 1..n : p[i] = p[i - 1] + s[i]

\* SumSeq adds the numbers of a sequence up one after the other.
LEMMA SumIs ==
    ASSUME NEW n \in Nat, NEW s, DOMAIN s = 1..n, \A i \in 1..n : s[i] \in Int
    PROVE  \E p : SumsTo(p, s, n)
<1> DEFINE step == [q \in (1..n) \X Int |-> q[2] + s[q[1]]]
           Is2(f) == f = [U \in SUBSET DOMAIN s |-> IF U = {} THEN 0 ELSE f[U \ {Max(U)}] + s[Max(U)]]
           iter == CHOOSE f : Is2(f)
<1>1. step \in [(1..n) \X Int -> Int]
  <2>1. \A q \in (1..n) \X Int : q[2] + s[q[1]] \in Int
    OBVIOUS
  <2> QED BY <2>1
<1>2. \A i \in 1..n, v \in Int : step[<<i, v>>] = v + s[i]
  <2>1. \A i \in 1..n, v \in Int : <<i, v>> \in (1..n) \X Int
    OBVIOUS
  <2> QED BY <2>1
<1> HIDE DEF step
<1>m. ASSUME NEW U \in SUBSET (1..n), U # {}
      PROVE  Max(U) \in 1..n /\ U \ {Max(U)} \in SUBSET (1..n)
  <2>1. Max(U) \in U
    BY <1>m, LargestIsOne, Zenon
  <2> QED BY <2>1
<1>3. \E f : Is2(f)
  <2>1. PICK f : IsFold(f, Int, 0, n, step)
    <3>1. n \in 0..n /\ 0 \in Int
      OBVIOUS
    <3> QED BY <1>1, <3>1, FoldExists, Zenon
  <2>2. \A U \in SUBSET (1..n) : f[U] = IF U = {} THEN 0 ELSE f[U \ {Max(U)}] + s[Max(U)]
    <3>1. TAKE U \in SUBSET (1..n)
    <3>2. CASE U = {}
      BY <2>1, <3>2, Zenon DEF IsFold
    <3>3. CASE U # {}
      <4>1. Max(U) \in 1..n /\ f[U \ {Max(U)}] \in Int
        BY <1>m, <2>1, <3>3, Zenon DEF IsFold
      <4> QED BY <1>2, <2>1, <3>3, <4>1, Zenon DEF IsFold
    <3> QED BY <3>2, <3>3, Zenon
  <2>3. f = [U \in SUBSET DOMAIN s |-> f[U]]
    BY <2>1 DEF IsFold
  <2> DEFINE g == [U \in SUBSET DOMAIN s |-> IF U = {} THEN 0 ELSE f[U \ {Max(U)}] + s[Max(U)]]
  <2>4. f = g
    BY <2>2, <2>3, Zenon
  <2> QED BY <2>4, Zenon
<1>4. Is2(iter)
  BY <1>3, Zenon
<1>5. SumSeq(s) = iter[1..n]
  BY Zenon DEF SumSeq, FoldLeft, MapThenFoldSet
<1> HIDE DEF iter
<1>6. \A U \in SUBSET (1..n) : iter[U] = IF U = {} THEN 0 ELSE iter[U \ {Max(U)}] + s[Max(U)]
  BY <1>4
<1>7. iter[{}] = 0
  BY <1>6
<1>8. ASSUME NEW k \in 0..(n - 1), iter[1..k] \in Int
      PROVE  iter[1..(k + 1)] = step[<<k + 1, iter[1..k]>>]
  <2>1. k + 1 \in 1..n /\ k \in Nat /\ 1..(k + 1) \in SUBSET (1..n)
    OBVIOUS
  <2>2. iter[1..(k + 1)] = iter[1..k] + s[k + 1]
    <3>1. 1..(k + 1) # {} /\ Max(1..(k + 1)) = k + 1 /\ (1..(k + 1)) \ {k + 1} = 1..k
      BY <2>1, LargestOfFirst
    <3> DEFINE U == 1..(k + 1)
    <3>2. U \in SUBSET (1..n) /\ U # {} /\ Max(U) = k + 1 /\ U \ {k + 1} = 1..k
      BY <2>1, <3>1
    <3> HIDE DEF U
    <3>3. iter[U] = iter[U \ {Max(U)}] + s[Max(U)]
      BY <1>6, <3>2, Zenon
    <3>4. iter[U] = iter[1..k] + s[k + 1]
      BY <3>2, <3>3
    <3> QED BY <3>4 DEF U
  <2> QED BY <1>2, <1>8, <2>1, <2>2, Zenon
<1>9. PICK p : Partial(p, iter, Int, 0, n, step)
  <2>1. TakesSteps(iter, Int, 0, n, step)
    BY <1>7, <1>8, Zenon DEF TakesSteps
  <2>2. 0 \in Int
    OBVIOUS
  <2> QED BY <1>1, <2>1, <2>2, FoldSteps, Zenon
<1>10. \A i \in 1..n : p[i] = p[i - 1] + s[i]
  <2>1. \A i \in 1..n : p[i - 1] \in Int /\ p[i] = step[<<i, p[i - 1]>>]
    BY <1>9 DEF Partial
  <2> QED BY <1>2, <2>1, Zenon
<1>11. SumSeq(s) = p[n]
  BY <1>5, <1>9, Zenon DEF Partial
<1> QED BY <1>9, <1>10, <1>11, Zenon DEF Partial, SumsTo

\* Sums are as the numbers in them: none below zero, none above those of another sequence.
LEMMA SumsCompare ==
    ASSUME NEW n \in Nat, NEW s, NEW t, DOMAIN s = 1..n, DOMAIN t = 1..n,
           \A i \in 1..n : s[i] \in Nat /\ t[i] \in Nat /\ s[i] <= t[i]
    PROVE  SumSeq(s) \in Nat /\ SumSeq(t) \in Nat /\ SumSeq(s) <= SumSeq(t)
<1>i. \A i \in 1..n : s[i] \in Int /\ t[i] \in Int
  OBVIOUS
<1>p. PICK p : SumsTo(p, s, n)
  BY <1>i, SumIs, Zenon
<1>q. PICK q : SumsTo(q, t, n)
  BY <1>i, SumIs, Zenon
<1>1. p \in [0..n -> Int] /\ p[0] = 0 /\ SumSeq(s) = p[n] /\ \A i \in 1..n : p[i] = p[i - 1] + s[i]
  BY <1>p, Zenon DEF SumsTo
<1>2. q \in [0..n -> Int] /\ q[0] = 0 /\ SumSeq(t) = q[n] /\ \A i \in 1..n : q[i] = q[i - 1] + t[i]
  BY <1>q, Zenon DEF SumsTo
<1> DEFINE S == {k \in Nat : k <= n => p[k] \in Nat /\ q[k] \in Nat /\ p[k] <= q[k]}
<1>3. 0 \in S
  BY <1>1, <1>2
<1>4. ASSUME NEW k \in Nat, k \in S
      PROVE  k + 1 \in S
  <2>1. SUFFICES ASSUME k + 1 <= n
                 PROVE  p[k + 1] \in Nat /\ q[k + 1] \in Nat /\ p[k + 1] <= q[k + 1]
    OBVIOUS
  <2>2. k + 1 \in 1..n /\ (k + 1) - 1 = k /\ p[k] \in Nat /\ q[k] \in Nat /\ p[k] <= q[k]
    BY <1>4, <2>1
  <2>3. p[k + 1] = p[k] + s[k + 1] /\ q[k + 1] = q[k] + t[k + 1]
    BY <1>1, <1>2, <2>2
  <2>4. s[k + 1] \in Nat /\ t[k + 1] \in Nat /\ s[k + 1] <= t[k + 1]
    BY <2>2
  <2> QED BY <2>2, <2>3, <2>4
<1>5. Nat \subseteq S
  <2> HIDE DEF S
  <2> QED BY <1>3, <1>4, InductionByCounting
<1>6. p[n] \in Nat /\ q[n] \in Nat /\ p[n] <= q[n]
  BY <1>5
<1> QED BY <1>1, <1>2, <1>6, Zenon

\* Columns whose encoders write at most what the query reckons with.
Reckoned(es, n) ==
    /\ Len(es) = n /\ DOMAIN es = 1..n
    /\ \A i \in 1..n : MaxWireBytes(es[i]) \in Nat /\ es[i].rowBytes \in Nat
                       /\ MaxWireBytes(es[i]) <= es[i].rowBytes

\* A table of any number of columns that the load query accepts is accepted by every data
\* channel whose messages hold at least 64004 bytes (newFastLoadQuery's and the channel's
\* own sums).
THEOREM AcceptedRowsFit ==
    ASSUME NEW n \in Nat, NEW es, Reckoned(es, n), UsingAdmits(es)
    PROVE  /\ FastLoadMaxRowBytes(es) <= 64000
           /\ \A bodyLen \in Int : bodyLen >= 64004 => ChannelAdmits(es, bodyLen)
<1> DEFINE s == [i \in 1..Len(es) |-> MaxWireBytes(es[i])]
           t == [i \in 1..Len(es) |-> es[i].rowBytes]
<1>1. /\ DOMAIN s = 1..n /\ DOMAIN t = 1..n
      /\ \A i \in 1..n : s[i] \in Nat /\ t[i] \in Nat /\ s[i] <= t[i]
  BY DEF Reckoned
<1>2. FastLoadMaxRowBytes(es) = LoadNullMapLen(es) + 4 + SumSeq(s)
      /\ UsingRowBytes(es) = LoadNullMapLen(es) + 4 + SumSeq(t)
  BY DEF FastLoadMaxRowBytes, UsingRowBytes
<1>3. LoadNullMapLen(es) \in Int
  BY DEF LoadNullMapLen, NullMapLen, Reckoned
<1>4. UsingRowBytes(es) <= 64000
  BY DEF UsingAdmits
<1> DEFINE a == SumSeq(s)
           b == SumSeq(t)
<1> HIDE DEF s, t
<1>5. a \in Nat /\ b \in Nat /\ a <= b
  BY <1>1, SumsCompare, Zenon
<1> HIDE DEF a, b
<1>6. FastLoadMaxRowBytes(es) \in Int /\ FastLoadMaxRowBytes(es) <= 64000
  BY <1>2, <1>3, <1>4, <1>5 DEF a, b
<1> QED BY <1>6 DEF ChannelAdmits

\* The codes of the tables laid out are basic types themselves.
LEMMA BasicTypes ==
    \A c \in {tdInteger, tdDateAnsi, tdFloat, tdDecimal, tdNumber, tdTimestampTZ, tdVarchar, tdByte} :
        GetTdBasicType(c) = c
<1> DEFINE Codes == {496, 748, 480, 484, 604, 772, 448, 692}
<1>1. \A c \in Codes, b \in tdTypeFamilyBases : c \in Family(b) => b = c
  <2>1. \A c \in Codes, b \in {400, 404, 408, 416, 420, 424, 440, 448, 452, 456, 464, 468, 472, 480,
                               484, 496, 500, 504, 508, 512, 516, 600, 604, 688, 692, 696} :
          c \in Family(b) => b = c
    BY DEF Family
  <2>2. \A c \in Codes, i \in 0..19 : c \in Family(748 + 4 * i) => 748 + 4 * i = c
    BY DEF Family
  <2>3. \A c \in Codes, i \in 0..10 : c \in Family(832 + 4 * i) => 832 + 4 * i = c
    BY DEF Family
  <2>4. \A c \in Codes, b \in {880, 884, 888} : c \in Family(b) => b = c
    BY DEF Family
  <2> HIDE DEF Codes
  <2> QED BY <2>1, <2>2, <2>3, <2>4 DEF tdTypeFamilyBases
<1>2. \A c \in Codes : c \in tdTypeFamilyBases /\ c \in Family(c)
  <2>1. 748 = 748 + 4 * 0 /\ 772 = 748 + 4 * 6 /\ 0 \in 0..19 /\ 6 \in 0..19
    OBVIOUS
  <2> QED BY <2>1 DEF tdTypeFamilyBases, Family
<1> HIDE DEF Codes
<1>3. ASSUME NEW c \in Codes PROVE GetTdBasicType(c) = c
  <2> DEFINE bases == {b \in tdTypeFamilyBases : c \in Family(b)}
  <2>1. bases = {c}
    BY <1>1, <1>2
  <2>2. GetTdBasicType(c) = IF bases = {} THEN 0 ELSE CHOOSE b \in bases : TRUE
    BY Zenon DEF GetTdBasicType
  <2> HIDE DEF bases
  <2> QED BY <2>1, <2>2
<1> QED BY <1>3 DEF Codes, tdInteger, tdDateAnsi, tdFloat, tdDecimal, tdNumber, tdTimestampTZ, tdVarchar, tdByte

\* Each of their columns is encodable and writes at most what the query reckons with.
LEMMA LoadMetasReckoned ==
    ASSUME NEW m \in LoadMetas, NEW large \in BOOLEAN
    PROVE  /\ Encodable(m)
           /\ MaxWireBytes(Encoder(m, large)) \in Nat /\ Encoder(m, large).rowBytes \in Nat
           /\ MaxWireBytes(Encoder(m, large)) <= Encoder(m, large).rowBytes
<1> DEFINE e == Encoder(m, large)
           t == Basic(m)
<1>1. /\ m.max \in Nat /\ m.scale \in Nat
      /\ \/ m.type = tdInteger /\ m.max = 4
         \/ m.type = tdDateAnsi /\ m.max = 4
         \/ m.type = tdFloat /\ m.max = 8
         \/ m.type \in {tdDecimal, tdNumber, tdTimestampTZ, tdVarchar, tdByte}
  BY DEF LoadMetas, Meta, Widths
<1>2. t = m.type
  BY <1>1, BasicTypes, Zenon DEF Basic
<1>3. /\ e.type = t /\ e.scale = m.scale /\ e.wide = large
      /\ e.maxLen = (IF t \in TextTypes \cup ByteTypes THEN m.max ELSE 0)
      /\ e.width = (IF t \in TimeTypes THEN TemporalWidth(t, m.scale) ELSE 0)
      /\ e.rowBytes = (IF t \in NaturalTypes THEN m.max
                       ELSE IF t \in TextTypes \cup ByteTypes THEN m.max + 2
                       ELSE IF t = tdNumber THEN 20
                       ELSE IF t = tdDecimal THEN IF large THEN 16 ELSE 8
                       ELSE TemporalWidth(t, m.scale))
  <2> HIDE DEF t
  <2> QED BY DEF Encoder, t
<1>4. TemporalWidth(t, m.scale) \in Nat
  <2> HIDE DEF t
  <2> QED BY <1>1 DEF TemporalWidth, BaseLen, FracWidth
<1> SUFFICES /\ Encodable(m) /\ MaxWireBytes(e) \in Nat /\ e.rowBytes \in Nat
             /\ MaxWireBytes(e) <= e.rowBytes
  OBVIOUS
<1> HIDE DEF e, t
<1>i. \A x \in IntervalTypes : x >= 776 /\ x <= 824
  BY DEF IntervalTypes
<1>m. MaxWireBytes(e) = IF t \in IntTypes THEN IntWidth(t)
                        ELSE IF t \in DateTypes THEN 4
                        ELSE IF t = tdFloat THEN 8
                        ELSE IF t = tdDecimal THEN IF large THEN 16 ELSE 8
                        ELSE IF t = tdNumber THEN 20
                        ELSE IF t \in TextTypes \cup ByteTypes THEN 2 + e.maxLen
                        ELSE e.width
  BY <1>3 DEF MaxWireBytes
<1>n. Encodable(m) <=> t \in NaturalTypes \cup ByteTypes \cup TextTypes \cup TimeTypes \cup {tdNumber, tdDecimal}
  BY DEF Encodable, t
<1>c. t \in {tdInteger, tdDateAnsi, tdFloat, tdDecimal, tdNumber, tdTimestampTZ, tdVarchar, tdByte}
  BY <1>1, <1>2
<1>5. CASE t = tdInteger
  <2>1. t \in NaturalTypes /\ t \in IntTypes /\ IntWidth(t) = 4 /\ m.max = 4
    BY <1>1, <1>2, <1>5 DEF NaturalTypes, IntTypes, IntWidth, tdInteger, tdSmallInt, tdByteInt, tdBigInt,
       tdDateAnsi, tdFloat, tdDecimal, tdNumber, tdTimestampTZ, tdVarchar, tdByte
  <2> QED BY <1>3, <1>m, <1>n, <2>1
<1>6. CASE t = tdDateAnsi
  <2>1. t \in NaturalTypes /\ t \notin IntTypes /\ t \in DateTypes /\ m.max = 4
    BY <1>1, <1>2, <1>6 DEF NaturalTypes, IntTypes, DateTypes, tdInteger, tdSmallInt, tdByteInt, tdBigInt,
       tdDateAnsi, tdFloat, tdDecimal, tdNumber, tdTimestampTZ, tdVarchar, tdByte
  <2> QED BY <1>3, <1>m, <1>n, <2>1
<1>7. CASE t = tdFloat
  <2>1. t \in NaturalTypes /\ t \notin IntTypes /\ t \notin DateTypes /\ m.max = 8
    BY <1>1, <1>2, <1>7 DEF NaturalTypes, IntTypes, DateTypes, tdInteger, tdSmallInt, tdByteInt, tdBigInt,
       tdDateAnsi, tdFloat, tdDecimal, tdNumber, tdTimestampTZ, tdVarchar, tdByte
  <2> QED BY <1>3, <1>7, <1>m, <1>n, <2>1
<1>8. CASE t \in {tdDecimal, tdNumber}
  <2>1. /\ t \notin NaturalTypes /\ t \notin IntTypes /\ t \notin DateTypes /\ t # tdFloat
        /\ t \notin TextTypes \cup ByteTypes /\ tdDecimal # tdNumber
    BY <1>i, <1>8 DEF NaturalTypes, IntTypes, DateTypes, TextTypes, ByteTypes, VarByteTypes,
       tdInteger, tdSmallInt, tdByteInt, tdBigInt, tdFloat, tdDecimal, tdNumber, tdByte
  <2> QED BY <1>3, <1>8, <1>m, <1>n, <2>1
<1>9. CASE t = tdTimestampTZ
  <2>1. /\ t \notin NaturalTypes /\ t \notin IntTypes /\ t \notin DateTypes /\ t # tdFloat
        /\ t \notin TextTypes \cup ByteTypes /\ t # tdNumber /\ t # tdDecimal /\ t \in TimeTypes
    BY <1>i, <1>9 DEF NaturalTypes, IntTypes, DateTypes, TextTypes, ByteTypes, VarByteTypes, TimeTypes,
       tdInteger, tdSmallInt, tdByteInt, tdBigInt, tdFloat, tdDecimal, tdNumber, tdByte, tdTimestampTZ,
       tdTime, tdTimestamp, tdTimeTZ
  <2> QED BY <1>3, <1>4, <1>m, <1>n, <2>1
<1>10. CASE t \in {tdVarchar, tdByte}
  <2>1. /\ t \notin NaturalTypes /\ t \notin IntTypes /\ t \notin DateTypes /\ t # tdFloat
        /\ t \in TextTypes \cup ByteTypes /\ t # tdNumber /\ t # tdDecimal
    BY <1>10 DEF NaturalTypes, IntTypes, DateTypes, TextTypes, ByteTypes, VarByteTypes,
       tdInteger, tdSmallInt, tdByteInt, tdBigInt, tdFloat, tdDecimal, tdNumber, tdByte, tdVarchar
  <2> QED BY <1>1, <1>3, <1>m, <1>n, <2>1
<1> QED BY <1>5, <1>6, <1>7, <1>8, <1>9, <1>10, <1>c

\* The tables laid out have columns of those types, at least one.
LayoutInputs ==
    Is("layout") => /\ \E n \in Nat : DOMAIN input.x.metas = 1..n /\ Len(input.x.metas) = n
                                       /\ \A i \in 1..n : input.x.metas[i] \in LoadMetas
                    /\ input.x.large \in BOOLEAN

\* Every table the load query accepts is one the data channels accept: the widest row fits
\* a parcel, no encoder writing more than the query reckoned with (newFastLoadQuery,
\* fastLoadMaxRowBytes).
THEOREM LoadRowsAlwaysFit == Spec => []LoadRowsFit
<1>1. Init => LayoutInputs
  BY DEF Init, NoInput, LayoutInputs, Is
<1>2. LayoutInputs /\ [Next]_input => LayoutInputs'
  <2>1. SUFFICES ASSUME LayoutInputs, Next, Is("layout")'
                 PROVE  /\ \E n \in Nat : DOMAIN input'.x.metas = 1..n /\ Len(input'.x.metas) = n
                                           /\ \A i \in 1..n : input'.x.metas[i] \in LoadMetas
                        /\ input'.x.large \in BOOLEAN
    BY Zenon DEF LayoutInputs, Is
  <2>2. LayOut
    BY <2>1, OwnAction, Zenon
  <2>3. PICK metas \in SeqOf(LoadMetas, 2) \cup {Repeat(m, 8) : m \in LoadMetas}, large \in BOOLEAN :
          Take("layout", [metas |-> metas, large |-> large])
    BY <2>2, Zenon DEF LayOut
  <2>4. input'.x.metas = metas /\ input'.x.large = large
    BY <2>3 DEF Take
  <2>5. \E n \in Nat : DOMAIN metas = 1..n /\ Len(metas) = n /\ \A i \in 1..n : metas[i] \in LoadMetas
    <3>1. CASE metas \in SeqOf(LoadMetas, 2)
      <4>1. PICK k \in 0..2 : metas \in [1..k -> LoadMetas]
        BY <3>1, Zenon DEF SeqOf
      <4> HIDE DEF LoadMetas
      <4> QED BY <4>1
    <3>2. CASE metas \in {Repeat(m, 8) : m \in LoadMetas}
      <4>1. PICK m \in LoadMetas : metas = Repeat(m, 8)
        BY <3>2, Zenon
      <4>2. DOMAIN metas = 1..8 /\ Len(metas) = 8 /\ \A i \in 1..8 : metas[i] = m
        BY <4>1 DEF Repeat
      <4> QED BY <4>1, <4>2
    <3> QED BY <2>3, <3>1, <3>2, Zenon
  <2> QED BY <2>3, <2>4, <2>5, Zenon
<1>3. LayoutInputs => LoadRowsFit
  <2>1. SUFFICES ASSUME LayoutInputs, Is("layout") PROVE LoadRowsFit
    BY DEF LoadRowsFit
  <2> DEFINE metas == input.x.metas
             large == input.x.large
             es == Encoders(metas, large)
  <2>2. PICK n \in Nat : DOMAIN metas = 1..n /\ Len(metas) = n /\ \A i \in 1..n : metas[i] \in LoadMetas
    BY <2>1, Zenon DEF LayoutInputs
  <2>3. large \in BOOLEAN
    BY <2>1, Zenon DEF LayoutInputs
  <2>4. \A m \in ToSet(metas) : Encodable(m)
    BY <2>2, <2>3, LoadMetasReckoned, Zenon DEF ToSet
  <2>5. Len(es) = n /\ DOMAIN es = 1..n /\ \A i \in 1..n : es[i] = Encoder(metas[i], large)
    <3> HIDE DEF metas, large
    <3> QED BY <2>2 DEF Encoders
  <2> HIDE DEF metas, large, es
  <2>6. Reckoned(es, n)
    BY <2>2, <2>3, <2>5, LoadMetasReckoned, Zenon DEF Reckoned
  <2>7. UsingAdmits(es) => ChannelAdmits(es, 65535)
    <3>1. 65535 \in Int /\ 65535 >= 64004
      OBVIOUS
    <3>2. UsingAdmits(es) => \A bodyLen \in Int : bodyLen >= 64004 => ChannelAdmits(es, bodyLen)
      BY <2>6, AcceptedRowsFit
    <3> QED BY <3>1, <3>2
  <2>8. \A i \in 1..Len(es) : MaxWireBytes(es[i]) <= es[i].rowBytes
    BY <2>5, <2>6, Zenon DEF Reckoned
  <2> QED BY <2>4, <2>7, <2>8 DEF LoadRowsFit, es, metas, large
<1> QED BY <1>1, <1>2, <1>3, PTL DEF Spec

-----------------------------------------------------------------------------
(* Integers and records of the security layer.                             *)

Byte == 0..255

\* A function on the first n numbers is a sequence.
LEMMA FunctionIsSeq ==
    ASSUME NEW S, NEW n \in Nat, NEW s \in [1..n -> S]
    PROVE  s \in Seq(S) /\ Len(s) = n
  OBVIOUS

\* Bytes are numbers.
LEMMA BytesAre == \A x \in Byte : x \in Nat /\ x <= 255
  BY DEF Byte

\* Dividing twice by 256.
LEMMA DivideTwice ==
    ASSUME NEW x \in Nat
    PROVE  /\ x \div 65536 = (x \div 256) \div 256
           /\ x \div 16777216 = (x \div 65536) \div 256
           /\ x \div 256 \in Nat /\ x \div 65536 \in Nat
<1>1. x \div 65536 = (x \div 256) \div 256
  BY SMT
<1>2. x \div 16777216 = (x \div 65536) \div 256
  BY SMT
<1> QED BY <1>1, <1>2

\* The remainder and the quotient.
LEMMA DivideOnce ==
    ASSUME NEW x \in Nat
    PROVE  x \div 256 \in Nat /\ x % 256 \in 0..255 /\ x = (x \div 256) * 256 + (x % 256)
  BY SMT

\* The numbers TLC has, below 2^31.
Below31 == {v \in Nat : v < 128 * 16777216}

\* The number whose digits to the base 256 follow those of another one.
Digits(base, b) == FoldLeft(LAMBDA a, d : a * 256 + d, base, b)

\* p has the numbers on the way.
DigitsTo(p, W, base, b, n) ==
    /\ p \in [0..n -> W] /\ p[0] = base /\ Digits(base, b) = p[n]
    /\ \A i \in 1..n : p[i] = p[i - 1] * 256 + b[i]

\* Digits takes one digit after the other.
LEMMA DigitsAre ==
    ASSUME NEW W, NEW base \in W, NEW n \in Nat, NEW b, DOMAIN b = 1..n,
           \A v \in W : \A i \in 1..n : v * 256 + b[i] \in W
    PROVE  \E p : DigitsTo(p, W, base, b, n)
<1> DEFINE step == [q \in (1..n) \X W |-> q[2] * 256 + b[q[1]]]
           Is2(f) == f = [U \in SUBSET DOMAIN b |-> IF U = {} THEN base ELSE f[U \ {Max(U)}] * 256 + b[Max(U)]]
           iter == CHOOSE f : Is2(f)
<1>1. step \in [(1..n) \X W -> W]
  <2>1. \A q \in (1..n) \X W : q[2] * 256 + b[q[1]] \in W
    OBVIOUS
  <2> QED BY <2>1
<1>2. \A i \in 1..n, v \in W : step[<<i, v>>] = v * 256 + b[i]
  <2>1. \A i \in 1..n, v \in W : <<i, v>> \in (1..n) \X W
    OBVIOUS
  <2> QED BY <2>1
<1> HIDE DEF step
<1>m. ASSUME NEW U \in SUBSET (1..n), U # {}
      PROVE  Max(U) \in 1..n /\ U \ {Max(U)} \in SUBSET (1..n)
  <2>1. Max(U) \in U
    BY <1>m, LargestIsOne, Zenon
  <2> QED BY <2>1
<1>3. \E f : Is2(f)
  <2>1. PICK f : IsFold(f, W, base, n, step)
    <3>1. n \in 0..n
      OBVIOUS
    <3> QED BY <1>1, <3>1, FoldExists, Zenon
  <2>2. \A U \in SUBSET (1..n) : f[U] = IF U = {} THEN base ELSE f[U \ {Max(U)}] * 256 + b[Max(U)]
    <3>1. TAKE U \in SUBSET (1..n)
    <3>2. CASE U = {}
      BY <2>1, <3>2, Zenon DEF IsFold
    <3>3. CASE U # {}
      <4>1. Max(U) \in 1..n /\ f[U \ {Max(U)}] \in W
        BY <1>m, <2>1, <3>3, Zenon DEF IsFold
      <4> QED BY <1>2, <2>1, <3>3, <4>1, Zenon DEF IsFold
    <3> QED BY <3>2, <3>3, Zenon
  <2>3. f = [U \in SUBSET DOMAIN b |-> f[U]]
    BY <2>1 DEF IsFold
  <2> DEFINE g == [U \in SUBSET DOMAIN b |-> IF U = {} THEN base ELSE f[U \ {Max(U)}] * 256 + b[Max(U)]]
  <2>4. f = g
    BY <2>2, <2>3, Zenon
  <2> QED BY <2>4, Zenon
<1>4. Is2(iter)
  BY <1>3, Zenon
<1>5. Digits(base, b) = iter[1..n]
  BY Zenon DEF Digits, FoldLeft, MapThenFoldSet
<1> HIDE DEF iter
<1>6. \A U \in SUBSET (1..n) : iter[U] = IF U = {} THEN base ELSE iter[U \ {Max(U)}] * 256 + b[Max(U)]
  BY <1>4
<1>7. iter[{}] = base
  BY <1>6
<1>8. ASSUME NEW k \in 0..(n - 1), iter[1..k] \in W
      PROVE  iter[1..(k + 1)] = step[<<k + 1, iter[1..k]>>]
  <2>1. k + 1 \in 1..n /\ k \in Nat /\ 1..(k + 1) \in SUBSET (1..n)
    OBVIOUS
  <2>2. iter[1..(k + 1)] = iter[1..k] * 256 + b[k + 1]
    <3>1. 1..(k + 1) # {} /\ Max(1..(k + 1)) = k + 1 /\ (1..(k + 1)) \ {k + 1} = 1..k
      BY <2>1, LargestOfFirst
    <3> DEFINE U == 1..(k + 1)
    <3>2. U \in SUBSET (1..n) /\ U # {} /\ Max(U) = k + 1 /\ U \ {k + 1} = 1..k
      BY <2>1, <3>1
    <3> HIDE DEF U
    <3>3. iter[U] = iter[U \ {Max(U)}] * 256 + b[Max(U)]
      BY <1>6, <3>2, Zenon
    <3>4. iter[U] = iter[1..k] * 256 + b[k + 1]
      BY <3>2, <3>3
    <3> QED BY <3>4 DEF U
  <2> QED BY <1>2, <1>8, <2>1, <2>2, Zenon
<1>9. PICK p : Partial(p, iter, W, base, n, step)
  <2>1. TakesSteps(iter, W, base, n, step)
    BY <1>7, <1>8, Zenon DEF TakesSteps
  <2> QED BY <1>1, <2>1, FoldSteps, Zenon
<1>10. \A i \in 1..n : p[i] = p[i - 1] * 256 + b[i]
  <2>1. \A i \in 1..n : p[i - 1] \in W /\ p[i] = step[<<i, p[i - 1]>>]
    BY <1>9 DEF Partial
  <2> QED BY <1>2, <2>1, Zenon
<1>11. Digits(base, b) = p[n]
  BY <1>5, <1>9, Zenon DEF Partial
<1> QED BY <1>9, <1>10, <1>11, Zenon DEF Partial, DigitsTo

\* The numbers of up to four digits.
LEMMA FewDigits ==
    ASSUME NEW base \in Int, NEW n \in 0..4, NEW b, DOMAIN b = 1..n, \A i \in 1..n : b[i] \in Int
    PROVE  /\ n = 0 => Digits(base, b) = base
           /\ n = 1 => Digits(base, b) = base * 256 + b[1]
           /\ n = 2 => Digits(base, b) = (base * 256 + b[1]) * 256 + b[2]
           /\ n = 3 => Digits(base, b) = ((base * 256 + b[1]) * 256 + b[2]) * 256 + b[3]
           /\ n = 4 => Digits(base, b) = (((base * 256 + b[1]) * 256 + b[2]) * 256 + b[3]) * 256 + b[4]
<1>1. \A v \in Int : \A i \in 1..n : v * 256 + b[i] \in Int
  OBVIOUS
<1>2. n \in Nat
  OBVIOUS
<1>3. PICK p : DigitsTo(p, Int, base, b, n)
  BY <1>1, <1>2, DigitsAre, Zenon
<1>4. p[0] = base /\ Digits(base, b) = p[n] /\ \A i \in 1..n : p[i] = p[i - 1] * 256 + b[i]
  BY <1>3, Zenon DEF DigitsTo
<1> HIDE DEF Digits
<1>5. n >= 1 => p[1] = base * 256 + b[1]
  BY <1>4
<1>6. n >= 2 => p[2] = p[1] * 256 + b[2]
  BY <1>4
<1>7. n >= 3 => p[3] = p[2] * 256 + b[3]
  BY <1>4
<1>8. n >= 4 => p[4] = p[3] * 256 + b[4]
  BY <1>4
<1>a. CASE n = 0
  BY <1>4, <1>a
<1>b. CASE n = 1
  BY <1>4, <1>5, <1>b
<1>c. CASE n = 2
  BY <1>4, <1>5, <1>6, <1>c
<1>d. CASE n = 3
  BY <1>4, <1>5, <1>6, <1>7, <1>d
<1>e. CASE n = 4
  BY <1>4, <1>5, <1>6, <1>7, <1>8, <1>e
<1> QED BY <1>a, <1>b, <1>c, <1>d, <1>e

\* The number of four digits.
LEMMA FourDigits ==
    ASSUME NEW b, DOMAIN b = 1..4, \A i \in 1..4 : b[i] \in Int
    PROVE  Digits(0, b) = (((0 * 256 + b[1]) * 256 + b[2]) * 256 + b[3]) * 256 + b[4]
<1>1. \A v \in Int : \A i \in 1..4 : v * 256 + b[i] \in Int
  OBVIOUS
<1>2. 4 \in Nat /\ 0 \in Int
  OBVIOUS
<1>3. PICK p : DigitsTo(p, Int, 0, b, 4)
  BY <1>1, <1>2, DigitsAre, Zenon
<1>4. p[0] = 0 /\ Digits(0, b) = p[4] /\ \A i \in 1..4 : p[i] = p[i - 1] * 256 + b[i]
  BY <1>3, Zenon DEF DigitsTo
<1>5. p[1] = 0 * 256 + b[1] /\ p[2] = p[1] * 256 + b[2] /\ p[3] = p[2] * 256 + b[3] /\ p[4] = p[3] * 256 + b[4]
  BY <1>4
<1> QED BY <1>4, <1>5

\* Unsigned and Signed by their digits.
LEMMA AsDigits ==
    ASSUME NEW b
    PROVE  Unsigned(b) = Digits(0, b) /\ Signed(b) = Digits(IF b # <<>> /\ Head(b) >= 128 THEN -1 ELSE 0, b)
  BY Zenon DEF Unsigned, Signed, Digits

\* A number of bytes is no less than 0.
LEMMA UnsignedIsNat ==
    ASSUME NEW b \in Seq(Byte)
    PROVE  Unsigned(b) \in Nat
<1> DEFINE n == Len(b)
<1>b. n \in Nat /\ DOMAIN b = 1..n /\ \A i \in 1..n : b[i] \in Byte
  BY Zenon, LenProperties, ElementOfSeq
<1>1. n \in Nat /\ DOMAIN b = 1..n /\ \A i \in 1..n : b[i] \in Nat
  <2> HIDE DEF n
  <2> QED BY <1>b, BytesAre
<1>2. \A v \in Nat : \A i \in 1..n : v * 256 + b[i] \in Nat
  BY <1>1
<1>3. 0 \in Nat
  OBVIOUS
<1>4. PICK p : DigitsTo(p, Nat, 0, b, n)
  <2> HIDE DEF n
  <2> QED BY <1>1, <1>2, <1>3, DigitsAre, Zenon
<1>5. Digits(0, b) = p[n] /\ p \in [0..n -> Nat]
  BY <1>4, Zenon DEF DigitsTo
<1>6. p[n] \in Nat
  BY <1>1, <1>5
<1> QED BY <1>5, <1>6, AsDigits, Zenon

\* The numbers two bytes have with a sign.
Below15 == 0..32767

\* They are numbers.
LEMMA SmallAre == \A x \in Below31 : x \in Nat /\ x < 128 * 16777216
  BY SMT DEF Below31

\* The bytes of a number below 2^31.
LEMMA FourBytes ==
    ASSUME NEW v \in Below31
    PROVE  /\ Uint(v, 4) \in Seq(Byte) /\ Len(Uint(v, 4)) = 4
           /\ v = ((Uint(v, 4)[1] * 256 + Uint(v, 4)[2]) * 256 + Uint(v, 4)[3]) * 256 + Uint(v, 4)[4]
           /\ Uint(v, 4)[1] < 128
<1> DEFINE b == Uint(v, 4)
<1>1. b = [i \in 1..4 |-> Shift(v, 4 - i) % 256]
  BY DEF Uint
<1>2. /\ Shift(v, 0) = v /\ Shift(v, 1) = v \div 256
      /\ Shift(v, 2) = v \div 65536 /\ Shift(v, 3) = v \div 16777216
  BY SMT DEF Shift
<1>3. DOMAIN b = 1..4 /\ Len(b) = 4
  BY <1>1
<1> DEFINE q1 == v \div 256
           q2 == v \div 65536
           q3 == v \div 16777216
<1>4. b[1] = q3 % 256 /\ b[2] = q2 % 256 /\ b[3] = q1 % 256 /\ b[4] = v % 256
  <2>1. b[1] = Shift(v, 3) % 256 /\ b[2] = Shift(v, 2) % 256 /\ b[3] = Shift(v, 1) % 256 /\ b[4] = Shift(v, 0) % 256
    <3> HIDE DEF b
    <3> QED BY SMT, <1>1
  <2> HIDE DEF b, q1, q2, q3
  <2> QED BY SMT, <2>1, <1>2 DEF q1, q2, q3
<1>8. v \in Nat /\ v < 128 * 16777216
  BY SMT, SmallAre
<1>9. q2 = q1 \div 256 /\ q3 = q2 \div 256 /\ q1 \in Nat /\ q2 \in Nat
  BY SMT, <1>8, DivideTwice
<1> HIDE DEF b
<1>10. v = q1 * 256 + b[4] /\ b[4] \in 0..255
  BY SMT, <1>4, <1>8, DivideOnce
<1> HIDE DEF q1
<1>11. q1 = q2 * 256 + b[3] /\ b[3] \in 0..255
  BY SMT, <1>4, <1>9, DivideOnce
<1> HIDE DEF q2
<1>12. q2 = q3 * 256 + b[2] /\ b[2] \in 0..255 /\ q3 \in Nat
  BY SMT, <1>4, <1>9, DivideOnce
<1> HIDE DEF q3
<1>13. q3 <= 127
  BY SMT, <1>4, <1>8, <1>10, <1>11, <1>12
<1>14. b[1] = q3
  BY SMT, <1>4, <1>12, <1>13
<1>5. b[1] \in 0..127 /\ b[2] \in Byte /\ b[3] \in Byte /\ b[4] \in Byte
  BY SMT, <1>10, <1>11, <1>12, <1>13, <1>14 DEF Byte
<1>6. v = ((b[1] * 256 + b[2]) * 256 + b[3]) * 256 + b[4]
  BY SMT, <1>10, <1>11, <1>12, <1>14
<1>7. b \in Seq(Byte)
  <2>1. \A i \in 1..4 : b[i] \in Byte
    BY SMT, <1>5 DEF Byte
  <2>2. b = [i \in 1..4 |-> b[i]]
    BY SMT, <1>1
  <2>3. b \in [1..4 -> Byte]
    BY SMT, <2>1, <2>2
  <2> QED BY <2>3, FunctionIsSeq
<1>15. b[1] < 128
  BY SMT, <1>5
<1>16. Len(b) = 4
  BY <1>3, Zenon
<1> QED BY <1>6, <1>7, <1>15, <1>16, Zenon DEF b

\* The first of a set of few numbers.
LEMMA SmallestIs ==
    ASSUME NEW U \in SUBSET Int, NEW m \in U, \A k \in U : m <= k
    PROVE  Min(U) = m
<1>1. \A x \in U : (\A y \in U : x <= y) => x = m
  OBVIOUS
<1>2. Min(U) = CHOOSE x \in U : \A y \in U : x <= y
  BY Zenon DEF Min
<1> QED BY <1>1, <1>2

\* The bytes of a number without the zeros in front.
LEMMA OctetsAre ==
    ASSUME NEW v \in Below31, v # 0
    PROVE  /\ Octets(v) \in Seq(Byte) /\ Len(Octets(v)) \in 1..4 /\ Head(Octets(v)) = Octets(v)[1]
           /\ Unsigned(Octets(v)) = v
           /\ Len(Octets(v)) = 4 => Octets(v)[1] < 128
<1> DEFINE b == Uint(v, 4)
           lead == {i \in 1..4 : b[i] # 0}
           o == Octets(v)
<1>1. /\ b \in Seq(Byte) /\ Len(b) = 4 /\ b[1] < 128
      /\ v = ((b[1] * 256 + b[2]) * 256 + b[3]) * 256 + b[4]
  BY FourBytes, Zenon
<1>2. o = IF lead = {} THEN <<>> ELSE SubSeq(b, Min(lead), 4)
  BY Zenon DEF Octets
<1> SUFFICES /\ o \in Seq(Byte) /\ Len(o) \in 1..4 /\ Head(o) = o[1]
             /\ Unsigned(o) = v /\ (Len(o) = 4 => o[1] < 128)
  BY Zenon
<1> HIDE DEF b, o
<1>3. \A i \in 1..4 : b[i] \in Byte
  BY <1>1, ElementOfSeq
<1>4. \A i \in 1..4 : b[i] \in Nat
  BY <1>3, BytesAre
<1>5. ASSUME NEW m \in 1..4, b[m] # 0, \A j \in 1..4 : j < m => b[j] = 0
      PROVE  /\ o \in Seq(Byte) /\ Len(o) = 5 - m /\ \A i \in 1..(5 - m) : o[i] = b[m + i - 1]
  <2>1. m \in lead /\ lead \in SUBSET Int /\ \A k \in lead : m <= k
    BY <1>5
  <2>2. Min(lead) = m
    <3> HIDE DEF lead
    <3> QED BY <2>1, SmallestIs
  <2>3. o = SubSeq(b, m, 4)
    <3>1. lead # {}
      BY <2>1
    <3> HIDE DEF lead
    <3> QED BY <1>2, <2>2, <3>1, Zenon
  <2>4. /\ m \in Int /\ 4 \in Int /\ \A i \in m..4 : b[i] \in Byte
    BY <1>3
  <2>5. /\ SubSeq(b, m, 4) \in Seq(Byte)
        /\ Len(SubSeq(b, m, 4)) = IF m <= 4 THEN 4 - m + 1 ELSE 0
        /\ \A i \in 1..(4 - m + 1) : SubSeq(b, m, 4)[i] = b[m + i - 1]
    BY <2>4, SubSeqProperties
  <2>6. 4 - m + 1 = 5 - m /\ m <= 4
    OBVIOUS
  <2> QED BY <2>3, <2>5, <2>6
<1>6. ASSUME NEW n \in 1..4, o \in Seq(Byte), Len(o) = n
      PROVE  DOMAIN o = 1..n /\ (\A i \in 1..n : o[i] \in Int) /\ Head(o) = o[1]
  <2>1. DOMAIN o = 1..n /\ \A i \in 1..n : o[i] \in Byte
    BY <1>6, LenProperties, ElementOfSeq
  <2>2. Head(o) = o[1]
    OBVIOUS
  <2> QED BY <2>1, <2>2, BytesAre
<1>7. Unsigned(o) = Digits(0, o)
  BY AsDigits, Zenon
<1>8. CASE b[1] # 0
  <2>a. 1 \in 1..4 /\ b[1] # 0 /\ \A j \in 1..4 : j < 1 => b[j] = 0
    BY <1>8
  <2>b. /\ o \in Seq(Byte) /\ Len(o) = 5 - 1 /\ \A i \in 1..(5 - 1) : o[i] = b[1 + i - 1]
    BY <1>5, <2>a, Zenon
  <2>1. o \in Seq(Byte) /\ Len(o) = 4 /\ o[1] = b[1] /\ o[2] = b[2] /\ o[3] = b[3] /\ o[4] = b[4]
    BY <2>b
  <2>2. DOMAIN o = 1..4 /\ (\A i \in 1..4 : o[i] \in Int) /\ Head(o) = o[1]
    BY <1>6, <2>1
  <2>3. Digits(0, o) = (((0 * 256 + o[1]) * 256 + o[2]) * 256 + o[3]) * 256 + o[4]
    BY <2>2, FourDigits, Zenon
  <2> QED BY <1>1, <1>4, <1>7, <2>1, <2>2, <2>3
<1>9. CASE b[1] = 0 /\ b[2] # 0
  <2>a. 2 \in 1..4 /\ b[2] # 0 /\ \A j \in 1..4 : j < 2 => b[j] = 0
    BY <1>9
  <2>b. /\ o \in Seq(Byte) /\ Len(o) = 5 - 2 /\ \A i \in 1..(5 - 2) : o[i] = b[2 + i - 1]
    BY <1>5, <2>a, Zenon
  <2>1. o \in Seq(Byte) /\ Len(o) = 3 /\ o[1] = b[2] /\ o[2] = b[3] /\ o[3] = b[4]
    BY <2>b
  <2>2. DOMAIN o = 1..3 /\ (\A i \in 1..3 : o[i] \in Int) /\ Head(o) = o[1]
    BY <1>6, <2>1
  <2>3. Digits(0, o) = ((0 * 256 + o[1]) * 256 + o[2]) * 256 + o[3]
    BY <2>2, FewDigits
  <2> QED BY <1>1, <1>7, <1>9, <2>1, <2>2, <2>3, <1>4
<1>10. CASE b[1] = 0 /\ b[2] = 0 /\ b[3] # 0
  <2>a. 3 \in 1..4 /\ b[3] # 0 /\ \A j \in 1..4 : j < 3 => b[j] = 0
    BY <1>10
  <2>b. /\ o \in Seq(Byte) /\ Len(o) = 5 - 3 /\ \A i \in 1..(5 - 3) : o[i] = b[3 + i - 1]
    BY <1>5, <2>a, Zenon
  <2>1. o \in Seq(Byte) /\ Len(o) = 2 /\ o[1] = b[3] /\ o[2] = b[4]
    BY <2>b
  <2>2. DOMAIN o = 1..2 /\ (\A i \in 1..2 : o[i] \in Int) /\ Head(o) = o[1]
    BY <1>6, <2>1
  <2>3. Digits(0, o) = (0 * 256 + o[1]) * 256 + o[2]
    BY <2>2, FewDigits
  <2> QED BY <1>1, <1>7, <1>10, <2>1, <2>2, <2>3, <1>4
<1>11. CASE b[1] = 0 /\ b[2] = 0 /\ b[3] = 0
  <2>0. b[4] # 0
    BY <1>1, <1>4, <1>11
  <2>a. 4 \in 1..4 /\ b[4] # 0 /\ \A j \in 1..4 : j < 4 => b[j] = 0
    BY <1>11, <2>0
  <2>b. /\ o \in Seq(Byte) /\ Len(o) = 5 - 4 /\ \A i \in 1..(5 - 4) : o[i] = b[4 + i - 1]
    BY <1>5, <2>a, Zenon
  <2>1. o \in Seq(Byte) /\ Len(o) = 1 /\ o[1] = b[4]
    BY <2>b
  <2>2. DOMAIN o = 1..1 /\ (\A i \in 1..1 : o[i] \in Int) /\ Head(o) = o[1]
    BY <1>6, <2>1
  <2>3. Digits(0, o) = 0 * 256 + o[1]
    BY <2>2, FewDigits
  <2> QED BY <1>1, <1>7, <1>11, <2>1, <2>2, <2>3, <1>4
<1> QED BY <1>8, <1>9, <1>10, <1>11 DEF o

\* A sequence of one to four bytes as a number, and with its sign.
LEMMA ReadBytes ==
    ASSUME NEW b \in Seq(Byte), Len(b) \in 1..4
    PROVE  /\ b # <<>> /\ Head(b) = b[1] /\ \A i \in 1..Len(b) : b[i] \in Nat
           /\ b[1] < 128 => Signed(b) = Unsigned(b)
<1>1. b # <<>> /\ Head(b) = b[1]
  <2>1. Head(b) = b[1]
    OBVIOUS
  <2>2. Len(<<>>) = 0
    OBVIOUS
  <2>3. b # <<>>
    BY <2>2
  <2> QED BY <2>1, <2>3
<1>2. \A i \in 1..Len(b) : b[i] \in Byte
  BY ElementOfSeq
<1>3. \A i \in 1..Len(b) : b[i] \in Nat
  BY <1>2, BytesAre
<1>4. ASSUME b[1] < 128
      PROVE  Signed(b) = Unsigned(b)
  <2>1. ~(Head(b) >= 128)
    BY <1>1, <1>3, <1>4
  <2> QED BY <1>1, <2>1, AsDigits, Zenon
<1> QED BY <1>1, <1>3, <1>4

\* An INTEGER's content is read back.
LEMMA IntsAreRead ==
    ASSUME NEW v \in Below31
    PROVE  /\ DerMinimalInt(v) \in Seq(Byte) /\ Len(DerMinimalInt(v)) \in 1..4
           /\ DerInt(DerMinimalInt(v)) = v /\ DerUint64(DerMinimalInt(v)) = v
<1> DEFINE c == DerMinimalInt(v)
           o == Octets(v)
<1>1. c = IF v = 0 THEN <<0>> ELSE IF Head(o) >= 128 THEN <<0>> \o o ELSE o
  BY Zenon DEF DerMinimalInt
<1>2. SUFFICES /\ c \in Seq(Byte) /\ Len(c) \in 1..4
               /\ c[1] < 128 /\ Unsigned(c) = v
  BY ReadBytes, Zenon DEF DerInt, DerUint64
<1>3. v # 0 => /\ o \in Seq(Byte) /\ Len(o) \in 1..4 /\ Head(o) = o[1] /\ Unsigned(o) = v
               /\ Len(o) = 4 => o[1] < 128
  BY OctetsAre, Zenon
<1> HIDE DEF c, o
<1>4. Unsigned(c) = Digits(0, c) /\ Unsigned(o) = Digits(0, o)
  BY AsDigits, Zenon
<1>0. 0 \in Byte
  BY DEF Byte
<1>5. CASE v = 0
  <2>1. c = <<0>>
    BY <1>1, <1>5
  <2>2. c \in Seq(Byte) /\ Len(c) = 1 /\ c[1] = 0 /\ DOMAIN c = 1..1
    BY <1>0, <2>1
  <2>3. Digits(0, c) = 0 * 256 + c[1]
    BY <2>2, FewDigits
  <2> QED BY <1>4, <1>5, <2>2, <2>3
<1>6. CASE v # 0 /\ Head(o) >= 128
  <2> DEFINE n == Len(o)
  <2>1. c = <<0>> \o o /\ <<0>> \in Seq(Byte) /\ Len(<<0>>) = 1
    BY <1>0, <1>1, <1>6
  <2>2. o \in Seq(Byte) /\ n \in 1..3 /\ \A i \in 1..n : o[i] \in Nat
    BY <1>3, <1>6, ReadBytes
  <2>3. /\ c \in Seq(Byte) /\ Len(c) = n + 1 /\ DOMAIN c = 1..(n + 1)
        /\ \A i \in 1..(n + 1) : c[i] = IF i = 1 THEN 0 ELSE o[i - 1]
    BY <2>1, <2>2
  <2>4. DOMAIN o = 1..n
    BY <2>2
  <2>h. /\ \A i \in 1..(n + 1) : c[i] \in Int
        /\ c[1] = 0 /\ c[2] = o[1] /\ (n >= 2 => c[3] = o[2]) /\ (n >= 3 => c[4] = o[3])
    <3> HIDE DEF n
    <3> QED BY <2>2, <2>3
  <2> HIDE DEF n
  <2>5. Digits(0, c) = Digits(0, o)
    <3>1. CASE n = 1
      <4>0. DOMAIN c = 1..2 /\ \A i \in 1..2 : c[i] \in Int
        BY <2>3, <2>h, <3>1
      <4>1. Digits(0, c) = (0 * 256 + c[1]) * 256 + c[2]
        BY <4>0, FewDigits
      <4>2. Digits(0, o) = 0 * 256 + o[1]
        BY <2>2, <2>4, <3>1, FewDigits
      <4> QED BY <2>2, <2>h, <3>1, <4>1, <4>2
    <3>2. CASE n = 2
      <4>0. DOMAIN c = 1..3 /\ \A i \in 1..3 : c[i] \in Int
        BY <2>3, <2>h, <3>2
      <4>1. Digits(0, c) = ((0 * 256 + c[1]) * 256 + c[2]) * 256 + c[3]
        BY <4>0, FewDigits
      <4>2. Digits(0, o) = (0 * 256 + o[1]) * 256 + o[2]
        BY <2>2, <2>4, <3>2, FewDigits
      <4> QED BY <2>2, <2>h, <3>2, <4>1, <4>2
    <3>3. CASE n = 3
      <4>0. DOMAIN c = 1..4 /\ \A i \in 1..4 : c[i] \in Int
        BY <2>3, <2>h, <3>3
      <4>1. Digits(0, c) = (((0 * 256 + c[1]) * 256 + c[2]) * 256 + c[3]) * 256 + c[4]
        BY <4>0, FourDigits, Zenon
      <4>2. Digits(0, o) = ((0 * 256 + o[1]) * 256 + o[2]) * 256 + o[3]
        BY <2>2, <2>4, <3>3, FewDigits
      <4> QED BY <2>2, <2>h, <3>3, <4>1, <4>2
    <3> QED BY <2>2, <3>1, <3>2, <3>3
  <2> QED BY <1>3, <1>4, <1>6, <2>2, <2>3, <2>5
<1>7. CASE v # 0 /\ ~(Head(o) >= 128)
  <2>1. c = o
    BY <1>1, <1>7, Zenon
  <2>2. \A i \in 1..Len(o) : o[i] \in Nat
    BY <1>3, <1>7, ReadBytes
  <2> QED BY <1>3, <1>7, <2>1, <2>2
<1> QED BY <1>5, <1>6, <1>7

\* A number in four bytes is read back with its sign, and one in the two bytes of a field.
LEMMA FixedAreRead ==
    /\ \A v \in Below31 : Uint(v, 4) \in Seq(Byte) /\ Len(Uint(v, 4)) = 4 /\ DerInt(Uint(v, 4)) = v
    /\ \A v \in Below15 : Uint(v, 2) \in Seq(Byte) /\ Len(Uint(v, 2)) = 2 /\ DerInt(Uint(v, 2)) = v
    /\ \A v \in 0..127 : <<v>> \in Seq(Byte) /\ Len(<<v>>) = 1 /\ DerInt(<<v>>) = v
<1>1. ASSUME NEW v \in Below31
      PROVE  Uint(v, 4) \in Seq(Byte) /\ Len(Uint(v, 4)) = 4 /\ DerInt(Uint(v, 4)) = v
  <2> DEFINE b == Uint(v, 4)
  <2>1. /\ b \in Seq(Byte) /\ Len(b) = 4 /\ b[1] < 128
        /\ v = ((b[1] * 256 + b[2]) * 256 + b[3]) * 256 + b[4]
    BY FourBytes, Zenon
  <2> HIDE DEF b
  <2>2. Len(b) \in 1..4
    BY <2>1
  <2>3. (\A i \in 1..Len(b) : b[i] \in Nat) /\ Signed(b) = Unsigned(b) /\ Unsigned(b) = Digits(0, b)
    BY <2>1, <2>2, ReadBytes, AsDigits, Zenon
  <2>4. DOMAIN b = 1..4 /\ \A i \in 1..4 : b[i] \in Int
    BY <2>1, <2>3
  <2>6. Digits(0, b) = (((0 * 256 + b[1]) * 256 + b[2]) * 256 + b[3]) * 256 + b[4]
    BY <2>4, FourDigits, Zenon
  <2>7. Digits(0, b) = v
    BY <2>1, <2>4, <2>6
  <2> QED BY <2>1, <2>3, <2>7, Zenon DEF DerInt, b
<1>2. ASSUME NEW v \in Below15
      PROVE  Uint(v, 2) \in Seq(Byte) /\ Len(Uint(v, 2)) = 2 /\ DerInt(Uint(v, 2)) = v
  <2> DEFINE b == Uint(v, 2)
  <2>1. b = [i \in 1..2 |-> Shift(v, 2 - i) % 256]
    BY Zenon DEF Uint
  <2>2. Shift(v, 0) = v /\ Shift(v, 1) = v \div 256
    BY DEF Shift
  <2>3. b[1] = Shift(v, 1) % 256 /\ b[2] = Shift(v, 0) % 256
    <3> HIDE DEF b
    <3> QED BY <2>1
  <2> HIDE DEF b
  <2>4. b[1] = v \div 256 /\ b[2] = v % 256 /\ b[1] \in 0..127 /\ b[2] \in 0..255
    <3>1. v \in Nat /\ v <= 32767
      BY DEF Below15
    <3>2. v \div 256 \in 0..127 /\ v % 256 \in 0..255
      BY <3>1
    <3> QED BY <2>2, <2>3, <3>2
  <2>5. v = b[1] * 256 + b[2] /\ b[1] \in Int /\ b[2] \in Int
    <3>1. v \in Nat
      BY DEF Below15
    <3> QED BY <2>4, <3>1, DivideOnce
  <2>6. b \in [1..2 -> Byte]
    BY <2>1, <2>4 DEF Byte
  <2>7. b \in Seq(Byte) /\ Len(b) = 2
    BY <2>6, FunctionIsSeq
  <2>r. b[1] \in 0..127
    BY <2>4, Zenon
  <2>s. Len(b) \in 1..4
    BY <2>7
  <2>t. b[1] < 128
    BY <2>r
  <2>8. Len(b) \in 1..4 /\ b[1] < 128
    BY <2>s, <2>t
  <2>9. Signed(b) = Unsigned(b) /\ Unsigned(b) = Digits(0, b)
    BY <2>7, <2>8, ReadBytes, AsDigits, Zenon
  <2>10. DOMAIN b = 1..2 /\ \A i \in 1..2 : b[i] \in Int
    BY <2>5, <2>7, SMT
  <2>11. Digits(0, b) = (0 * 256 + b[1]) * 256 + b[2]
    BY <2>10, FewDigits
  <2>12. Digits(0, b) = v
    BY <2>5, <2>11
  <2> QED BY <2>7, <2>9, <2>12, Zenon DEF DerInt, b
<1>3. ASSUME NEW v \in 0..127
      PROVE  <<v>> \in Seq(Byte) /\ Len(<<v>>) = 1 /\ DerInt(<<v>>) = v
  <2> DEFINE b == <<v>>
  <2>1. b \in Seq(Byte) /\ Len(b) = 1 /\ b[1] = v /\ DOMAIN b = 1..1
    <3>1. v \in Byte
      BY DEF Byte
    <3> QED BY <3>1
  <2> HIDE DEF b
  <2>2. Len(b) \in 1..4 /\ b[1] < 128
    BY <2>1
  <2>3. Signed(b) = Unsigned(b) /\ Unsigned(b) = Digits(0, b)
    BY <2>1, <2>2, ReadBytes, AsDigits, Zenon
  <2>4. Digits(0, b) = 0 * 256 + b[1]
    BY <2>1, FewDigits
  <2>5. Digits(0, b) = v
    BY <2>1, <2>4
  <2>6. DerInt(b) = v
    BY <2>3, <2>5, Zenon DEF DerInt
  <2> QED BY <2>1, <2>6 DEF b
<1> QED BY <1>1, <1>2, <1>3, Zenon

-----------------------------------------------------------------------------
(* Records.                                                                *)

\* data has s at position pos, counted from 0.
Holds(data, pos, s) ==
    /\ pos + Len(s) <= Len(data)
    /\ \A i \in 1..Len(s) : data[pos + i] = s[i]

\* The parts of what is held are held one after the other.
LEMMA HoldsParts ==
    ASSUME NEW D, NEW data \in Seq(D), NEW pos \in Nat, NEW s \in Seq(D), NEW t \in Seq(D),
           Holds(data, pos, s \o t)
    PROVE  Holds(data, pos, s) /\ Holds(data, pos + Len(s), t)
<1>1. /\ Len(s \o t) = Len(s) + Len(t) /\ Len(s) \in Nat /\ Len(t) \in Nat /\ Len(data) \in Nat
      /\ \A i \in 1..Len(s) + Len(t) : (s \o t)[i] = IF i <= Len(s) THEN s[i] ELSE t[i - Len(s)]
  BY ConcatProperties
<1>2. \A i \in 1..Len(s) : data[pos + i] = s[i]
  <2>1. TAKE i \in 1..Len(s)
  <2>2. i \in 1..Len(s \o t) /\ i <= Len(s) /\ i \in 1..Len(s) + Len(t)
    BY <1>1
  <2> QED BY <1>1, <2>2, Zenon DEF Holds
<1>3. \A i \in 1..Len(t) : data[pos + Len(s) + i] = t[i]
  <2>1. TAKE i \in 1..Len(t)
  <2>2. Len(s) + i \in 1..Len(s \o t) /\ ~(Len(s) + i <= Len(s)) /\ (Len(s) + i) - Len(s) = i
        /\ pos + (Len(s) + i) = pos + Len(s) + i
    BY <1>1
  <2>3. data[pos + (Len(s) + i)] = (s \o t)[Len(s) + i]
    BY <2>2 DEF Holds
  <2>4. (s \o t)[Len(s) + i] = t[i]
    BY <1>1, <2>2
  <2> QED BY <2>2, <2>3, <2>4
<1> QED BY <1>1, <1>2, <1>3 DEF Holds

\* What is held is cut out again.
LEMMA HeldIsCut ==
    ASSUME NEW D, NEW data \in Seq(D), NEW pos \in Nat, NEW s \in Seq(D), Holds(data, pos, s)
    PROVE  At(data, pos, Len(s)) = s
<1> DEFINE c == SubSeq(data, pos + 1, pos + Len(s))
<1>1. Len(s) \in Nat /\ Len(data) \in Nat /\ pos + Len(s) <= Len(data)
  BY DEF Holds
<1>2. \A i \in (pos + 1)..(pos + Len(s)) : data[i] \in D
  BY <1>1
<1>3. /\ c \in Seq(D)
      /\ Len(c) = IF pos + 1 <= pos + Len(s) THEN pos + Len(s) - (pos + 1) + 1 ELSE 0
      /\ \A i \in 1..(pos + Len(s) - (pos + 1) + 1) : c[i] = data[(pos + 1) + i - 1]
  <2>1. pos + 1 \in Int /\ pos + Len(s) \in Int
    BY <1>1
  <2> QED BY <1>2, <2>1, SubSeqProperties
<1> HIDE DEF c
<1>4. Len(c) = Len(s)
  BY <1>1, <1>3
<1>5. \A i \in 1..Len(c) : c[i] = s[i]
  <2>1. TAKE i \in 1..Len(c)
  <2>2. i \in 1..(pos + Len(s) - (pos + 1) + 1) /\ (pos + 1) + i - 1 = pos + i /\ i \in 1..Len(s)
    BY <1>1, <1>4
  <2> QED BY <1>3, <2>2 DEF Holds
<1>6. c = s
  BY <1>3, <1>4, <1>5, SeqEqual
<1> QED BY <1>6, Zenon DEF At, c

\* The content of a record read from a token is what was written (encodeDerTLV, parseDerTLV).
DerItem(tag, constructed, content) ==
    [ok |-> TRUE, tag |-> tag, constructed |-> constructed, content |-> content,
     totalLen |-> Len(EncodeDerTLV(tag, constructed, content))]

\* The first byte of a record has its tag and form.
Identifies(id, tag, constructed) ==
    id \in Byte /\ id % 32 = tag /\ ((id \div 32) % 2 = 1) = constructed

\* A byte and the bytes that follow it stand for a length.
Measures(lenByte, more, n) ==
    /\ lenByte \in Byte /\ more \in Seq(Byte)
    /\ \/ lenByte < 128 /\ more = <<>> /\ lenByte = n
       \/ lenByte >= 128 /\ Len(more) = lenByte - 128 /\ Unsigned(more) = n

\* What a record is written as.
LEMMA RecordIs ==
    ASSUME NEW tag \in 0..30, NEW constructed \in BOOLEAN, NEW content \in Seq(Byte), Len(content) \in Below31
    PROVE  \E id, more, lenByte :
             /\ EncodeDerTLV(tag, constructed, content) = <<id>> \o (<<lenByte>> \o more) \o content
             /\ Identifies(id, tag, constructed) /\ Measures(lenByte, more, Len(content))
<1> DEFINE n == Len(content)
           id == 192 + (IF constructed THEN 32 ELSE 0) + tag
<1>1. Identifies(id, tag, constructed)
  <2>1. CASE constructed
    <3>1. id = 224 + tag
      BY <2>1
    <3> HIDE DEF id
    <3>2. id % 32 = tag /\ (id \div 32) % 2 = 1
      BY <3>1
    <3>3. id \in Byte
      BY <3>1 DEF Byte
    <3> QED BY <2>1, <3>2, <3>3, Zenon DEF Identifies
  <2>2. CASE ~constructed
    <3>1. id = 192 + tag
      BY <2>2
    <3> HIDE DEF id
    <3>2. id % 32 = tag /\ (id \div 32) % 2 # 1
      BY <3>1
    <3>3. id \in Byte
      BY <3>1 DEF Byte
    <3>4. constructed = FALSE /\ ((id \div 32) % 2 = 1) = FALSE
      BY <2>2, <3>2, Zenon
    <3> QED BY <3>2, <3>3, <3>4, Zenon DEF Identifies
  <2> QED BY <2>1, <2>2
<1>2. EncodeDerTLV(tag, constructed, content) = <<id>> \o EncodeDerLength(n) \o content
  BY Zenon DEF EncodeDerTLV
<1> HIDE DEF id
<1>3. n \in Nat
  OBVIOUS
<1>4. \E more, lenByte : EncodeDerLength(n) = <<lenByte>> \o more /\ Measures(lenByte, more, n)
  <2>1. CASE n <= 127
    <3>1. EncodeDerLength(n) = <<n>>
      BY <2>1, Zenon DEF EncodeDerLength
    <3> HIDE DEF n
    <3>2. n \in Byte /\ n < 128
      BY <1>3, <2>1 DEF Byte
    <3>3. <<n>> = <<n>> \o <<>> /\ <<>> \in Seq(Byte)
      BY <3>2
    <3>4. Measures(n, <<>>, n)
      BY <3>2, <3>3, Zenon DEF Measures
    <3> QED BY <3>1, <3>3, <3>4, Zenon
  <2>2. CASE ~(n <= 127)
    <3> DEFINE o == Octets(n)
    <3>1. EncodeDerLength(n) = <<128 + Len(o)>> \o o
      BY <2>2, Zenon DEF EncodeDerLength
    <3> HIDE DEF n
    <3>2. n \in Below31 /\ n # 0
      BY <1>3, <2>2 DEF n
    <3>3. o \in Seq(Byte) /\ Len(o) \in 1..4 /\ Unsigned(o) = n
      BY <3>2, OctetsAre, Zenon
    <3> HIDE DEF o
    <3> DEFINE l == 128 + Len(o)
    <3>4. l \in Byte /\ l >= 128 /\ Len(o) = l - 128
      <4>1. \A k \in 1..4 : 128 + k \in Byte /\ 128 + k >= 128 /\ k = (128 + k) - 128
        BY DEF Byte
      <4> QED BY <3>3, <4>1, Zenon
    <3> HIDE DEF l
    <3>5. EncodeDerLength(n) = <<l>> \o o
      BY <3>1, Zenon DEF l
    <3>6. Measures(l, o, n)
      BY <3>3, <3>4, Zenon DEF Measures
    <3> QED BY <3>5, <3>6, Zenon
  <2> QED BY <2>1, <2>2, Zenon
<1> QED BY <1>1, <1>2, <1>4, Zenon DEF n

\* A record that the data has somewhere is read there.
LEMMA RecordIsRead ==
    ASSUME NEW data \in Seq(Byte), NEW pos \in Nat,
           NEW tag \in 0..30, NEW constructed \in BOOLEAN, NEW content \in Seq(Byte), Len(content) \in Below31,
           Holds(data, pos, EncodeDerTLV(tag, constructed, content))
    PROVE  ParseDerTLV(data, pos) = DerItem(tag, constructed, content)
<1> DEFINE e == EncodeDerTLV(tag, constructed, content)
<1>r. PICK id, more, lenByte :
             /\ e = <<id>> \o (<<lenByte>> \o more) \o content
             /\ Identifies(id, tag, constructed) /\ Measures(lenByte, more, Len(content))
  BY RecordIs, Zenon
<1>1. /\ e = <<id>> \o (<<lenByte>> \o more) \o content
      /\ id \in Byte /\ more \in Seq(Byte) /\ lenByte \in Byte
      /\ id % 32 = tag /\ ((id \div 32) % 2 = 1) = constructed
      /\ \/ lenByte < 128 /\ more = <<>> /\ lenByte = Len(content)
         \/ lenByte >= 128 /\ Len(more) = lenByte - 128 /\ Unsigned(more) = Len(content)
  BY <1>r, Zenon DEF Identifies, Measures
<1>0. Holds(data, pos, e)
  OBVIOUS
<1> HIDE DEF e
<1> DEFINE a == <<id>>
           l == <<lenByte>>
<1>2. a \in Seq(Byte) /\ l \in Seq(Byte) /\ Len(a) = 1 /\ Len(l) = 1 /\ a[1] = id /\ l[1] = lenByte
  BY <1>1
<1>b. e = a \o (l \o more) \o content
  BY <1>1, Zenon
<1> HIDE DEF a, l
<1>3. l \o more \in Seq(Byte) /\ a \o (l \o more) \in Seq(Byte)
      /\ Len(l \o more) = 1 + Len(more) /\ Len(a \o (l \o more)) = 2 + Len(more)
      /\ Len(e) = 2 + Len(more) + Len(content)
  <2>1. l \o more \in Seq(Byte) /\ Len(l \o more) = 1 + Len(more)
    <3>1. l \o more \in Seq(Byte) /\ Len(l \o more) = Len(l) + Len(more)
      BY <1>1, <1>2, ConcatProperties, Zenon
    <3> QED BY <1>2, <3>1, Zenon
  <2>2. a \o (l \o more) \in Seq(Byte) /\ Len(a \o (l \o more)) = 1 + Len(l \o more)
    BY <1>2, <2>1, ConcatProperties
  <2>3. Len(e) = Len(a \o (l \o more)) + Len(content)
    BY <1>b, <2>2, ConcatProperties
  <2>4. Len(more) \in Nat /\ Len(content) \in Nat
    BY <1>1
  <2> QED BY <2>1, <2>2, <2>3, <2>4
<1>4. Holds(data, pos, a \o (l \o more)) /\ Holds(data, pos + Len(a \o (l \o more)), content)
  BY <1>0, <1>1, <1>b, <1>3, HoldsParts, Zenon
<1>5. Holds(data, pos, a) /\ Holds(data, pos + 1, l \o more)
  BY <1>1, <1>2, <1>3, <1>4, HoldsParts, Zenon
<1>c. pos + 1 \in Nat /\ pos + 2 \in Nat /\ pos + 1 + 1 = pos + 2 /\ Len(more) \in Nat /\ Len(content) \in Nat
      /\ Len(data) \in Nat /\ pos + 2 + Len(more) \in Nat /\ pos + (2 + Len(more)) = pos + 2 + Len(more)
  BY <1>1
<1>6. Holds(data, pos + 1, l) /\ Holds(data, pos + 2, more)
  BY <1>1, <1>2, <1>5, <1>c, HoldsParts, Zenon
<1>7. data[pos + 1] = id /\ pos + 1 <= Len(data)
  BY <1>2, <1>5 DEF Holds
<1>8. data[pos + 2] = lenByte
  <2>1. 1 \in 1..Len(l)
    BY <1>2
  <2>2. data[(pos + 1) + 1] = l[1]
    BY <1>6, <2>1, Zenon DEF Holds
  <2> QED BY <1>2, <1>c, <2>2
<1>9. pos + 2 + Len(more) + Len(content) <= Len(data)
  BY <1>3, <1>4, <1>c DEF Holds
<1>10. At(data, pos + 2, Len(more)) = more
  BY <1>1, <1>6, <1>c, HeldIsCut, Zenon
<1>11. At(data, pos + 2 + Len(more), Len(content)) = content
  <2>1. Holds(data, pos + 2 + Len(more), content)
    BY <1>3, <1>4, <1>c
  <2> QED BY <1>c, <2>1, HeldIsCut, Zenon
<1> DEFINE lb == data[pos + 2]
           n == IF lb >= 128 THEN lb - 128 ELSE 0
           len == IF lb >= 128 THEN Unsigned(At(data, pos + 2, n)) ELSE lb
           start == pos + 2 + n
<1>n. lb = lenByte /\ lenByte \in Nat
  BY <1>1, <1>8, BytesAre
<1> HIDE DEF lb
<1>12. n = Len(more)
  <2>1. Len(<<>>) = 0
    OBVIOUS
  <2> QED BY <1>1, <1>n, <2>1
<1>13. len = Len(content)
  <2> HIDE DEF n
  <2> QED BY <1>1, <1>10, <1>12, <1>n
<1>14. start = pos + 2 + Len(more)
  BY <1>12, Zenon
<1>15. ParseDerTLV(data, pos) =
         IF \/ pos >= Len(data)
            \/ data[pos + 1] % 32 = 31
            \/ pos + 1 >= Len(data)
            \/ pos + 2 + n > Len(data)
            \/ start + len > Len(data)
         THEN Failed
         ELSE [ok |-> TRUE, tag |-> data[pos + 1] % 32,
               constructed |-> (data[pos + 1] \div 32) % 2 = 1,
               content |-> At(data, start, len), totalLen |-> 2 + n + len]
  BY Zenon DEF ParseDerTLV, lb
<1> HIDE DEF n, len, start
<1>16. ~(\/ pos >= Len(data)
         \/ data[pos + 1] % 32 = 31
         \/ pos + 1 >= Len(data)
         \/ pos + 2 + n > Len(data)
         \/ start + len > Len(data))
  <2>1. tag # 31 /\ ~(pos + 2 + Len(more) > Len(data)) /\ ~(pos + 2 + Len(more) + Len(content) > Len(data))
        /\ ~(pos >= Len(data)) /\ ~(pos + 1 >= Len(data))
    BY <1>9, <1>c
  <2> QED BY <1>1, <1>7, <1>12, <1>13, <1>14, <2>1, Zenon
<1>17. 2 + n + len = Len(e)
  BY <1>3, <1>12, <1>13, Zenon
<1>18. At(data, start, len) = content
  BY <1>11, <1>13, <1>14, Zenon
<1> QED BY <1>1, <1>7, <1>15, <1>16, <1>17, <1>18, Zenon DEF DerItem, e

-----------------------------------------------------------------------------
(* The records within a record.                                            *)

\* The bytes of a record: up to six more than its content.
LEMMA RecordLength ==
    ASSUME NEW tag \in 0..30, NEW constructed \in BOOLEAN, NEW content \in Seq(Byte), Len(content) \in Below31
    PROVE  LET e == EncodeDerTLV(tag, constructed, content)
           IN  e \in Seq(Byte) /\ Len(e) \in Nat /\ Len(e) >= 2 + Len(content) /\ Len(e) <= 130 + Len(content)
<1> DEFINE e == EncodeDerTLV(tag, constructed, content)
<1>1. PICK id, more, lenByte :
             /\ e = <<id>> \o (<<lenByte>> \o more) \o content
             /\ Identifies(id, tag, constructed) /\ Measures(lenByte, more, Len(content))
  BY RecordIs, Zenon
<1> HIDE DEF e
<1>2. id \in Byte /\ more \in Seq(Byte) /\ lenByte \in Byte
      /\ (Len(more) = lenByte - 128 \/ more = <<>>)
  BY <1>1, Zenon DEF Identifies, Measures
<1>3. lenByte \in Nat /\ lenByte <= 255
  BY <1>2, BytesAre
<1>4. Len(more) \in Nat /\ Len(more) <= 128 /\ Len(content) \in Nat
  <2>1. Len(<<>>) = 0 /\ Len(more) \in Nat /\ Len(content) \in Nat
    BY <1>2
  <2> QED BY <1>2, <1>3, <2>1
<1> DEFINE a == <<id>>
           l == <<lenByte>>
<1>5. a \in Seq(Byte) /\ l \in Seq(Byte) /\ Len(a) = 1 /\ Len(l) = 1
  BY <1>2
<1>6. e = a \o (l \o more) \o content
  BY <1>1, Zenon
<1> HIDE DEF a, l
<1>7. l \o more \in Seq(Byte) /\ Len(l \o more) = Len(l) + Len(more)
  BY <1>2, <1>5, ConcatProperties, Zenon
<1>8. a \o (l \o more) \in Seq(Byte) /\ Len(a \o (l \o more)) = Len(a) + Len(l \o more)
  BY <1>5, <1>7, ConcatProperties, Zenon
<1>9. e \in Seq(Byte) /\ Len(e) = Len(a \o (l \o more)) + Len(content)
  BY <1>6, <1>8, ConcatProperties, Zenon
<1>10. Len(e) = 2 + Len(more) + Len(content)
  BY <1>4, <1>5, <1>7, <1>8, <1>9
<1>11. Len(e) \in Nat /\ Len(e) >= 2 + Len(content) /\ Len(e) <= 130 + Len(content)
  BY <1>4, <1>10
<1> QED BY <1>9, <1>11, Zenon DEF e

\* enc is what item was written as.
Encodes(enc, item) ==
    \E tag \in 0..30, constructed \in BOOLEAN, content \in Seq(Byte) :
        /\ Len(content) \in Below31
        /\ enc = EncodeDerTLV(tag, constructed, content)
        /\ item = DerItem(tag, constructed, content)

\* It is read wherever the data has it.
LEMMA WrittenIsRead ==
    ASSUME NEW enc, NEW item, Encodes(enc, item)
    PROVE  /\ enc \in Seq(Byte) /\ item.ok = TRUE /\ item.totalLen = Len(enc)
           /\ Len(enc) \in Nat /\ Len(enc) >= 2
           /\ \A data \in Seq(Byte), pos \in Nat : Holds(data, pos, enc) => ParseDerTLV(data, pos) = item
<1>1. PICK tag \in 0..30, constructed \in BOOLEAN, content \in Seq(Byte) :
        /\ Len(content) \in Below31
        /\ enc = EncodeDerTLV(tag, constructed, content)
        /\ item = DerItem(tag, constructed, content)
  BY Zenon DEF Encodes
<1>2. enc \in Seq(Byte) /\ Len(enc) \in Nat /\ Len(enc) >= 2 + Len(content)
  BY <1>1, RecordLength, Zenon
<1>3. Len(enc) >= 2
  <2>1. Len(content) \in Nat
    OBVIOUS
  <2> QED BY <1>2, <2>1
<1>4. item.ok = TRUE /\ item.totalLen = Len(enc)
  BY <1>1 DEF DerItem
<1>5. ASSUME NEW data \in Seq(Byte), NEW pos \in Nat, Holds(data, pos, enc)
      PROVE  ParseDerTLV(data, pos) = item
  <2>1. Holds(data, pos, EncodeDerTLV(tag, constructed, content))
    BY <1>1, <1>5, Zenon
  <2>2. ParseDerTLV(data, pos) = DerItem(tag, constructed, content)
    BY <1>1, <2>1, RecordIsRead, Zenon
  <2> QED BY <1>1, <2>2, Zenon
<1> QED BY <1>2, <1>3, <1>4, <1>5, Zenon

\* What is read is read from the data, and moves on.
LEMMA ReadsForward ==
    ASSUME NEW data \in Seq(Byte), NEW pos \in Nat, ParseDerTLV(data, pos).ok
    PROVE  LET n == ParseDerTLV(data, pos).totalLen
           IN  n \in Nat /\ n >= 2 /\ pos + n <= Len(data)
<1> DEFINE id == data[pos + 1]
           lb == data[pos + 2]
           n == IF lb >= 128 THEN lb - 128 ELSE 0
           len == IF lb >= 128 THEN Unsigned(At(data, pos + 2, n)) ELSE lb
           start == pos + 2 + n
           t == ParseDerTLV(data, pos)
           fails == \/ pos >= Len(data)
                    \/ id % 32 = 31
                    \/ pos + 1 >= Len(data)
                    \/ pos + 2 + n > Len(data)
                    \/ start + len > Len(data)
<1>1. t = IF fails THEN Failed
          ELSE [ok |-> TRUE, tag |-> id % 32, constructed |-> (id \div 32) % 2 = 1,
                content |-> At(data, start, len), totalLen |-> 2 + n + len]
  BY Zenon DEF ParseDerTLV
<1> HIDE DEF t
<1>2. ~fails
  <2> HIDE DEF fails
  <2>1. ASSUME fails PROVE FALSE
    <3>1. t = Failed
      BY <1>1, <2>1, Zenon
    <3>2. t.ok = FALSE
      BY <3>1 DEF Failed
    <3> QED BY <3>2, Zenon DEF t
  <2> QED BY <2>1
<1>3. t.totalLen = 2 + n + len
  <2> HIDE DEF fails, n, len, start, id
  <2> QED BY <1>1, <1>2
<1>4. Len(data) \in Nat
  OBVIOUS
<1>5. pos + 1 < Len(data)
  <2>1. ~(pos + 1 >= Len(data))
    BY <1>2, Zenon
  <2> QED BY <1>4, <2>1
<1>6. lb \in Nat
  <2>1. pos + 2 \in 1..Len(data)
    BY <1>4, <1>5
  <2>2. lb \in Byte
    BY <2>1, ElementOfSeq
  <2> QED BY <2>2, BytesAre, Zenon
<1>7. n \in Nat
  <2> HIDE DEF lb
  <2> QED BY <1>6
<1>8. ~(pos + 2 + n > Len(data)) /\ ~(start + len > Len(data))
  BY <1>2, Zenon
<1>9. len \in Nat
  <2>1. CASE lb >= 128
    <3> DEFINE c == At(data, pos + 2, n)
    <3>1. \A i \in (pos + 2 + 1)..(pos + 2 + n) : data[i] \in Byte
      <4>1. \A i \in (pos + 2 + 1)..(pos + 2 + n) : i \in 1..Len(data)
        <5> HIDE DEF n, len
        <5> QED BY <1>4, <1>7, <1>8
      <4> QED BY <4>1, ElementOfSeq, Zenon
    <3>2. pos + 2 + 1 \in Int /\ pos + 2 + n \in Int
      <4> HIDE DEF n
      <4> QED BY <1>7
    <3>3. SubSeq(data, pos + 2 + 1, pos + 2 + n) \in Seq(Byte)
      <4> HIDE DEF n
      <4> QED BY <3>1, <3>2, SubSeqProperties
    <3>4. c \in Seq(Byte)
      BY <3>3, Zenon DEF At
    <3> QED BY <2>1, <3>4, UnsignedIsNat, Zenon
  <2>2. CASE ~(lb >= 128)
    BY <1>6, <2>2, Zenon
  <2> QED BY <2>1, <2>2
<1> HIDE DEF n, len
<1>10. 2 + n + len \in Nat /\ 2 + n + len >= 2 /\ pos + (2 + n + len) <= Len(data)
  BY <1>4, <1>7, <1>8, <1>9
<1> QED BY <1>3, <1>10, Zenon DEF t

\* The items from a position on, the ones behind them being in f.
From(content, f, pos) ==
    IF pos = Len(content) THEN [ok |-> TRUE, items |-> <<>>]
    ELSE LET t == ParseDerTLV(content, pos)
         IN  IF ~t.ok THEN Failed
             ELSE LET rest == f[pos + t.totalLen]
                  IN  IF ~rest.ok THEN Failed
                      ELSE [ok |-> TRUE, items |-> <<t>> \o rest.items]

\* ParseDerChildren's recursive function.
IsFrom(content, f) == f = [pos \in 0..Len(content) |-> From(content, f, pos)]

\* It exists: every record moves on, so it can be defined from the end of the data.
LEMMA FromExists ==
    ASSUME NEW content \in Seq(Byte)
    PROVE  \E f : IsFrom(content, f)
<1> DEFINE L == Len(content)
           Upto(f, n) == /\ f = [pos \in 0..L |-> f[pos]]
                         /\ \A pos \in (L - n)..L : f[pos] = From(content, f, pos)
           S == {n \in Nat : n <= L => \E f : Upto(f, n)}
<1>0. L \in Nat
  OBVIOUS
<1>e. ASSUME NEW f, NEW g, NEW pos \in 0..L, \A q \in 0..L : q > pos => f[q] = g[q]
      PROVE  From(content, f, pos) = From(content, g, pos)
  <2> DEFINE t == ParseDerTLV(content, pos)
  <2>1. CASE pos = L
    BY <2>1, Zenon DEF From
  <2>2. CASE pos # L /\ ~t.ok
    BY <2>2, Zenon DEF From
  <2>3. CASE pos # L /\ t.ok
    <3>1. pos \in Nat
      BY <1>0
    <3>2. t.totalLen \in Nat /\ t.totalLen >= 2 /\ pos + t.totalLen <= L
      BY <2>3, <3>1, ReadsForward, Zenon
    <3>3. pos + t.totalLen \in 0..L /\ pos + t.totalLen > pos
      <4> HIDE DEF t, L
      <4> QED BY <1>0, <3>1, <3>2
    <3>4. f[pos + t.totalLen] = g[pos + t.totalLen]
      BY <1>e, <3>3, Zenon
    <3> QED BY <2>3, <3>4, Zenon DEF From
  <2> QED BY <2>1, <2>2, <2>3, Zenon
<1> HIDE DEF L
<1>1. 0 \in S
  <2> DEFINE f == [pos \in 0..L |-> [ok |-> TRUE, items |-> <<>>]]
  <2>1. \A pos \in (L - 0)..L : pos = L
    BY <1>0
  <2>2. From(content, f, L) = [ok |-> TRUE, items |-> <<>>]
    BY Zenon DEF From, L
  <2>3. f[L] = [ok |-> TRUE, items |-> <<>>]
    BY <1>0
  <2>4. f = [pos \in 0..L |-> f[pos]]
    OBVIOUS
  <2> HIDE DEF f
  <2>5. Upto(f, 0)
    BY <2>1, <2>2, <2>3, <2>4, Zenon
  <2>6. 0 \in Nat
    OBVIOUS
  <2> QED BY <2>5, <2>6, Zenon
<1>2. ASSUME NEW n \in Nat, n \in S
      PROVE  n + 1 \in S
  <2>1. n + 1 \in Nat /\ (n + 1 <= L => n <= L)
    BY <1>0
  <2> SUFFICES ASSUME n + 1 <= L PROVE \E g : Upto(g, n + 1)
    BY <2>1, Zenon
  <2>2. PICK f : Upto(f, n)
    BY <1>2, <2>1, Zenon
  <2> DEFINE p == L - (n + 1)
             g == [pos \in 0..L |-> IF pos = p THEN From(content, f, p) ELSE f[pos]]
  <2>3. p \in 0..L /\ \A pos \in (L - (n + 1))..L : pos = p \/ (pos \in (L - n)..L /\ pos # p /\ pos > p)
    BY <1>0
  <2>4. g = [pos \in 0..L |-> g[pos]]
    OBVIOUS
  <2>5. \A pos \in 0..L : g[pos] = IF pos = p THEN From(content, f, p) ELSE f[pos]
    OBVIOUS
  <2> HIDE DEF g
  <2>6. \A pos \in (L - (n + 1))..L : pos \in 0..L /\ \A q \in 0..L : q > pos => q # p
    <3> HIDE DEF p
    <3> QED BY <1>0 DEF p
  <2> HIDE DEF p
  <2>7. \A pos \in (L - (n + 1))..L : From(content, g, pos) = From(content, f, pos)
    <3>1. TAKE pos \in (L - (n + 1))..L
    <3>2. pos \in 0..L /\ \A q \in 0..L : q > pos => g[q] = f[q]
      BY <2>5, <2>6, Zenon
    <3> QED BY <1>e, <3>2, Zenon
  <2>8. \A pos \in (L - (n + 1))..L : g[pos] = From(content, g, pos)
    <3>1. TAKE pos \in (L - (n + 1))..L
    <3>2. CASE pos = p
      BY <2>3, <2>5, <2>7, <3>2, Zenon
    <3>3. CASE pos # p
      <4>1. pos \in (L - n)..L /\ pos \in 0..L
        BY <2>3, <2>6, <3>3, Zenon
      <4>2. f[pos] = From(content, f, pos)
        BY <2>2, <4>1, Zenon
      <4> QED BY <2>5, <2>7, <3>3, <4>1, <4>2, Zenon
    <3> QED BY <3>2, <3>3
  <2> QED BY <2>4, <2>8, Zenon
<1>3. Nat \subseteq S
  <2> HIDE DEF S
  <2> QED BY <1>1, <1>2, InductionByCounting
<1>4. \E f : Upto(f, L)
  <2>1. L \in S /\ L <= L
    <3> HIDE DEF S
    <3> QED BY <1>0, <1>3
  <2> QED BY <2>1, Zenon
<1>5. PICK f : Upto(f, L)
  BY <1>4, Zenon
<1>6. \A pos \in 0..L : f[pos] = From(content, f, pos)
  <2>1. L - L = 0
    BY <1>0
  <2> QED BY <1>5, <2>1, Zenon
<1> DEFINE h == [pos \in 0..L |-> From(content, f, pos)]
<1>7. f = h
  BY <1>5, <1>6, Zenon
<1>8. IsFrom(content, f)
  BY <1>7, Zenon DEF IsFrom, L
<1> QED BY <1>8, Zenon

\* ParseDerChildren returns its first value.
LEMMA ChildrenAre ==
    ASSUME NEW content \in Seq(Byte)
    PROVE  \E f : IsFrom(content, f) /\ ParseDerChildren(content) = f[0]
<1> DEFINE f == CHOOSE f : f = [pos \in 0..Len(content) |-> From(content, f, pos)]
<1>1. \E g : g = [pos \in 0..Len(content) |-> From(content, g, pos)]
  BY FromExists, Zenon DEF IsFrom
<1>2. f = [pos \in 0..Len(content) |-> From(content, f, pos)]
  BY <1>1, Zenon
<1>3. ParseDerChildren(content) = f[0]
  BY Zenon DEF ParseDerChildren, From
<1> HIDE DEF f
<1> QED BY <1>2, <1>3, Zenon DEF IsFrom

\* Records written one after the other are read as they were written, however many there
\* are (encodeDerConstructed, parseDerChildren).
LEMMA ChildrenAreRead ==
    ASSUME NEW n \in Nat, NEW encs \in Seq(Seq(Byte)), Len(encs) = n,
           NEW items, items = [i \in 1..n |-> items[i]],
           \A i \in 1..n : Encodes(encs[i], items[i])
    PROVE  ParseDerChildren(FlattenSeq(encs)) = [ok |-> TRUE, items |-> items]
<1> DEFINE all == FlattenSeq(encs)
           L == Len(all)
<1>a. \A j \in Nat : \A i \in 1..(j + 1) : i # 1 => i - 1 \in 1..j /\ n - j + (i - 1) = n - (j + 1) + i
  OBVIOUS
<1>1. all \in Seq(Byte) /\ \E base : Follows(all, encs, n, base)
  BY FlattenPlaces, Zenon
<1>2. PICK base : Follows(all, encs, n, base)
  BY <1>1, Zenon
<1>3. PICK f : IsFrom(all, f) /\ ParseDerChildren(all) = f[0]
  BY <1>1, ChildrenAre, Zenon
<1> HIDE DEF all
<1>4. \A pos \in 0..L : f[pos] = From(all, f, pos)
  BY <1>3 DEF IsFrom
<1>5. L \in Nat
  BY <1>1
<1>b. /\ base \in [1..(n + 1) -> Nat] /\ base[1] = 0 /\ base[n + 1] = L
      /\ \A r \in 1..n : /\ base[r + 1] = base[r] + Len(encs[r])
                         /\ \A j \in 1..Len(encs[r]) : all[base[r] + j] = encs[r][j]
  BY <1>2, Zenon DEF Follows
<1> HIDE DEF L
<1>6. \A r \in 1..(n + 1) : base[r] \in Nat
  BY <1>b
<1>w. \A r \in 1..n : /\ items[r].ok = TRUE /\ items[r].totalLen = Len(encs[r])
                      /\ Len(encs[r]) \in Nat /\ Len(encs[r]) >= 2
  BY WrittenIsRead, Zenon
<1> DEFINE tail(j) == [i \in 1..j |-> items[n - j + i]]
           S == {j \in Nat : j <= n => base[n + 1 - j] <= L /\ f[base[n + 1 - j]] = [ok |-> TRUE, items |-> tail(j)]}
<1>7. 0 \in S
  <2>1. n + 1 - 0 = n + 1 /\ n + 1 \in 1..(n + 1) /\ L \in 0..L /\ L <= L /\ 0 \in Nat
    BY <1>5
  <2>2. f[L] = [ok |-> TRUE, items |-> <<>>]
    BY <1>4, <2>1, Zenon DEF From, L
  <2>3. tail(0) = <<>>
    OBVIOUS
  <2> HIDE DEF tail
  <2>4. base[n + 1 - 0] = L
    BY <1>b, <2>1, Zenon
  <2> QED BY <2>1, <2>2, <2>3, <2>4, Zenon
<1>8. ASSUME NEW j \in Nat, j \in S
      PROVE  j + 1 \in S
  <2>1. j + 1 \in Nat
    OBVIOUS
  <2> SUFFICES ASSUME j + 1 <= n
               PROVE  base[n + 1 - (j + 1)] <= L /\ f[base[n + 1 - (j + 1)]] = [ok |-> TRUE, items |-> tail(j + 1)]
    BY <2>1, Zenon
  <2> DEFINE r == n - j
  <2>2. j <= n /\ r \in 1..n /\ r \in 1..(n + 1) /\ r + 1 \in 1..(n + 1) /\ n + 1 - j = r + 1 /\ n + 1 - (j + 1) = r
    OBVIOUS
  <2>3. base[r + 1] <= L /\ f[base[r + 1]] = [ok |-> TRUE, items |-> tail(j)]
    <3> HIDE DEF tail, r
    <3> QED BY <1>8, <2>2, Zenon
  <2>4. base[r] \in Nat /\ base[r + 1] = base[r] + items[r].totalLen /\ items[r].ok
        /\ items[r].totalLen \in Nat /\ items[r].totalLen >= 2 /\ items[r].totalLen = Len(encs[r])
    <3> HIDE DEF r
    <3>1. base[r] \in Nat /\ base[r + 1] = base[r] + Len(encs[r])
      BY <1>6, <1>b, <2>2, Zenon
    <3>2. /\ items[r].ok = TRUE /\ items[r].totalLen = Len(encs[r])
          /\ Len(encs[r]) \in Nat /\ Len(encs[r]) >= 2
      BY <1>w, <2>2, Zenon
    <3>3. items[r].ok
      BY <3>2, Zenon
    <3>4. base[r + 1] = base[r] + items[r].totalLen
      BY <3>1, <3>2, Zenon
    <3>5. items[r].totalLen \in Nat /\ items[r].totalLen >= 2
      BY <3>2, Zenon
    <3> QED BY <3>1, <3>2, <3>3, <3>4, <3>5, Zenon
  <2>5. base[r] \in 0..L /\ base[r] # L /\ base[r] <= L /\ base[r] + items[r].totalLen <= L
    <3>1. ASSUME NEW p \in Nat, NEW k \in Nat, k >= 2, p + k <= L
          PROVE  p \in 0..L /\ p # L /\ p <= L
      BY <1>5, <3>1
    <3>2. base[r] + items[r].totalLen <= L
      BY <2>3, <2>4, Zenon
    <3> HIDE DEF r
    <3> QED BY <2>4, <3>1, <3>2, Zenon
  <2>6. Holds(all, base[r], encs[r])
    <3>1. base[r] + Len(encs[r]) <= Len(all)
      BY <2>4, <2>5, Zenon DEF L
    <3>2. \A i \in 1..Len(encs[r]) : all[base[r] + i] = encs[r][i]
      <4> HIDE DEF r
      <4> QED BY <1>b, <2>2, Zenon
    <3> QED BY <3>1, <3>2, Zenon DEF Holds
  <2>7. ParseDerTLV(all, base[r]) = items[r]
    <3>1. Encodes(encs[r], items[r])
      <4> HIDE DEF r
      <4> QED BY <2>2, Zenon
    <3>2. \A data \in Seq(Byte), pos \in Nat : Holds(data, pos, encs[r]) => ParseDerTLV(data, pos) = items[r]
      BY <3>1, WrittenIsRead, Zenon
    <3> QED BY <1>1, <2>4, <2>6, <3>2, Zenon
  <2>8. f[base[r]] = [ok |-> TRUE, items |-> <<items[r]>> \o tail(j)]
    <3> DEFINE rest == f[base[r] + items[r].totalLen]
    <3>1. rest = [ok |-> TRUE, items |-> tail(j)]
      BY <2>3, <2>4, Zenon
    <3>2. rest.ok = TRUE /\ rest.items = tail(j)
      <4> HIDE DEF rest, tail
      <4> QED BY <3>1
    <3>3. From(all, f, base[r]) = [ok |-> TRUE, items |-> <<items[r]>> \o tail(j)]
      <4> HIDE DEF tail, r
      <4> QED BY <2>4, <2>5, <2>7, <3>2, Zenon DEF From, L
    <3> QED BY <1>4, <2>5, <3>3, Zenon
  <2>9. <<items[r]>> \o tail(j) = tail(j + 1)
    <3> DEFINE s == <<items[r]>> \o tail(j)
    <3>1. Len(s) = j + 1 /\ \A i \in 1..(j + 1) : s[i] = IF i = 1 THEN items[r] ELSE tail(j)[i - 1]
      OBVIOUS
    <3>2. \A i \in 1..(j + 1) : s[i] = items[n - (j + 1) + i]
      <4>1. TAKE i \in 1..(j + 1)
      <4>2. CASE i = 1
        <5>1. n - (j + 1) + i = r
          BY <4>2
        <5> HIDE DEF s
        <5> QED BY <3>1, <4>2, <5>1, Zenon
      <4>3. CASE i # 1
        <5>1. i - 1 \in 1..j /\ n - j + (i - 1) = n - (j + 1) + i
          BY <1>a, <4>3, Zenon
        <5>2. tail(j)[i - 1] = items[n - j + (i - 1)]
          BY <5>1
        <5> HIDE DEF s, tail
        <5> QED BY <3>1, <4>3, <5>1, <5>2, Zenon
      <4> QED BY <4>2, <4>3
    <3>3. s = [i \in 1..(j + 1) |-> s[i]]
      <4>1. DOMAIN s = 1..(j + 1)
        BY <3>1
      <4> QED OBVIOUS
    <3> HIDE DEF s
    <3> QED BY <3>2, <3>3, Zenon DEF s
  <2> HIDE DEF tail, r
  <2> QED BY <2>2, <2>5, <2>8, <2>9, Zenon
<1>9. Nat \subseteq S
  <2> HIDE DEF S
  <2> QED BY <1>7, <1>8, InductionByCounting
<1>10. f[0] = [ok |-> TRUE, items |-> tail(n)]
  <2>1. n \in S /\ n <= n
    <3> HIDE DEF S
    <3> QED BY <1>9
  <2>2. n + 1 - n = 1
    OBVIOUS
  <2> HIDE DEF tail
  <2> QED BY <1>b, <2>1, <2>2, Zenon
<1>11. tail(n) = items
  <2>1. \A i \in 1..n : n - n + i = i
    OBVIOUS
  <2>2. tail(n) = [i \in 1..n |-> items[i]]
    BY <2>1
  <2> HIDE DEF tail
  <2> QED BY <2>2, Zenon
<1> HIDE DEF tail
<1> QED BY <1>3, <1>10, <1>11, Zenon DEF all

\* A sequence holds itself.
LEMMA HoldsItself ==
    ASSUME NEW D, NEW s \in Seq(D)
    PROVE  Holds(s, 0, s)
<1>1. 0 + Len(s) <= Len(s) /\ \A i \in 1..Len(s) : 0 + i = i
  OBVIOUS
<1> QED BY <1>1, Zenon DEF Holds

\* Records in a record of their own are written as one (encodeDerConstructed).
LEMMA GroupWritten ==
    ASSUME NEW tag \in 0..30, NEW encs \in Seq(Seq(Byte)), Len(FlattenSeq(encs)) \in Below31
    PROVE  /\ Encodes(EncodeDerConstructed(tag, encs), DerItem(tag, TRUE, FlattenSeq(encs)))
           /\ EncodeDerConstructed(tag, encs) \in Seq(Byte) /\ Len(EncodeDerConstructed(tag, encs)) \in Nat
           /\ Len(EncodeDerConstructed(tag, encs)) <= 130 + Len(FlattenSeq(encs))
<1>1. FlattenSeq(encs) \in Seq(Byte)
  <2>1. Len(encs) \in Nat
    OBVIOUS
  <2> QED BY <2>1, FlattenPlaces, Zenon
<1>2. EncodeDerConstructed(tag, encs) = EncodeDerTLV(tag, TRUE, FlattenSeq(encs))
  BY Zenon DEF EncodeDerConstructed
<1>3. TRUE \in BOOLEAN
  OBVIOUS
<1>4. Encodes(EncodeDerConstructed(tag, encs), DerItem(tag, TRUE, FlattenSeq(encs)))
  BY <1>1, <1>2, <1>3, Zenon DEF Encodes
<1> DEFINE e == EncodeDerTLV(tag, TRUE, FlattenSeq(encs))
<1>5. e \in Seq(Byte) /\ Len(e) \in Nat /\ Len(e) <= 130 + Len(FlattenSeq(encs))
  BY <1>1, <1>3, RecordLength, Zenon
<1> HIDE DEF e
<1>6. EncodeDerConstructed(tag, encs) = e
  BY <1>2, Zenon DEF e
<1> QED BY <1>4, <1>5, <1>6, Zenon

\* A record alone in the data is read from its start.
LEMMA WrittenAlone ==
    ASSUME NEW enc, NEW item, Encodes(enc, item)
    PROVE  ParseDerTLV(enc, 0) = item
<1>1. enc \in Seq(Byte) /\ \A data \in Seq(Byte), pos \in Nat : Holds(data, pos, enc) => ParseDerTLV(data, pos) = item
  BY WrittenIsRead, Zenon
<1>2. Holds(enc, 0, enc) /\ 0 \in Nat
  BY <1>1, HoldsItself
<1> QED BY <1>1, <1>2, Zenon

\* Records of at most L bytes, one after the other.
LEMMA FlatLength ==
    ASSUME NEW L \in Nat, NEW n \in Nat, NEW encs \in Seq(Seq(Byte)), Len(encs) = n, \A i \in 1..n : Len(encs[i]) <= L
    PROVE  Len(FlattenSeq(encs)) \in Nat /\ Len(FlattenSeq(encs)) <= L * n
<1>1. PICK base : Follows(FlattenSeq(encs), encs, n, base)
  BY FlattenPlaces, Zenon
<1>2. /\ base \in [1..(n + 1) -> Nat] /\ base[1] = 0 /\ base[n + 1] = Len(FlattenSeq(encs))
      /\ \A r \in 1..n : base[r + 1] = base[r] + Len(encs[r])
  BY <1>1, Zenon DEF Follows
<1>3. \A r \in 1..n : Len(encs[r]) \in Nat
  <2>1. \A r \in 1..n : encs[r] \in Seq(Byte)
    OBVIOUS
  <2> QED BY <2>1
<1>m. \A j \in Nat : L * j \in Nat /\ L * (j + 1) = L * j + L /\ L * 0 = 0
  OBVIOUS
<1> DEFINE S == {j \in Nat : j <= n => base[j + 1] <= L * j}
<1>4. 0 \in S
  BY <1>2, <1>m
<1>5. ASSUME NEW j \in Nat, j \in S
      PROVE  j + 1 \in S
  <2> SUFFICES ASSUME j + 1 <= n PROVE base[(j + 1) + 1] <= L * (j + 1)
    OBVIOUS
  <2>1. j + 1 \in 1..n /\ j + 1 \in 1..(n + 1) /\ (j + 1) + 1 \in 1..(n + 1) /\ j <= n
    OBVIOUS
  <2>2. base[j + 1] <= L * j /\ base[j + 1] \in Nat /\ base[(j + 1) + 1] \in Nat
    BY <1>2, <1>5, <2>1
  <2>3. base[(j + 1) + 1] = base[j + 1] + Len(encs[j + 1]) /\ Len(encs[j + 1]) \in Nat /\ Len(encs[j + 1]) <= L
    BY <1>2, <1>3, <2>1
  <2> DEFINE k == L * j
  <2>4. k \in Nat /\ L * (j + 1) = k + L /\ base[j + 1] <= k
    BY <1>m, <2>2
  <2> HIDE DEF k
  <2> QED BY <2>2, <2>3, <2>4
<1>6. Nat \subseteq S
  <2> HIDE DEF S
  <2> QED BY <1>4, <1>5, InductionByCounting
<1>7. base[n + 1] <= L * n /\ base[n + 1] \in Nat
  BY <1>2, <1>6
<1> QED BY <1>2, <1>7

\* The bytes of three records one after the other.
LEMMA FlatThree ==
    ASSUME NEW a \in Seq(Byte), NEW b \in Seq(Byte), NEW c \in Seq(Byte)
    PROVE  Len(FlattenSeq(<<a, b, c>>)) = Len(a) + Len(b) + Len(c)
<1> DEFINE encs == <<a, b, c>>
<1>1. encs \in Seq(Seq(Byte)) /\ Len(encs) = 3 /\ encs[1] = a /\ encs[2] = b /\ encs[3] = c /\ 3 \in Nat
  OBVIOUS
<1> HIDE DEF encs
<1>2. PICK base : Follows(FlattenSeq(encs), encs, 3, base)
  BY <1>1, FlattenPlaces, Zenon
<1>3. /\ base \in [1..(3 + 1) -> Nat] /\ base[1] = 0 /\ base[3 + 1] = Len(FlattenSeq(encs))
      /\ \A r \in 1..3 : base[r + 1] = base[r] + Len(encs[r])
  BY <1>2, Zenon DEF Follows
<1>4. base[2] = Len(a) /\ base[3] = base[2] + Len(b) /\ base[4] = base[3] + Len(c)
  <2>1. Len(a) \in Nat /\ Len(b) \in Nat
    OBVIOUS
  <2> QED BY <1>1, <1>3, <2>1
<1>5. Len(FlattenSeq(encs)) = Len(a) + Len(b) + Len(c)
  BY <1>3, <1>4
<1> QED BY <1>5 DEF encs

\* The field with a tag is the first item that has it (parseDerChildren's callers).
LEMMA FieldIs ==
    ASSUME NEW n \in Nat, NEW items, Len(items) = n, NEW k \in 1..n,
           \A j \in 1..n : items[j].tag = items[k].tag => k <= j
    PROVE  Field(items, items[k].tag) = items[k].content
<1> DEFINE tag == items[k].tag
<1> DEFINE U == {i \in 1..Len(items) : items[i].tag = tag}
<1>1. U \in SUBSET Int /\ k \in U /\ \A j \in U : k <= j
  OBVIOUS
<1>2. SelectInSeq(items, LAMBDA t : t.tag = tag) = IF U # {} THEN Min(U) ELSE 0
  BY Zenon DEF SelectInSeq
<1> HIDE DEF U
<1>3. Min(U) = k /\ U # {}
  BY <1>1, SmallestIs
<1>4. SelectInSeq(items, LAMBDA t : t.tag = tag) = k
  BY <1>2, <1>3, Zenon
<1> QED BY <1>4, Zenon DEF Field

\* An integer's bytes, in any width.
LEMMA UintIs ==
    ASSUME NEW v \in Int, NEW n \in Nat
    PROVE  /\ Uint(v, n) \in Seq(Byte) /\ Len(Uint(v, n)) = n
           /\ \A i \in 1..n : Uint(v, n)[i] = Shift(v, n - i) % 256
<1>1. \A k \in Nat : Shift(v, k) \in Int
  BY SMT DEF Shift
<1>2. \A i \in 1..n : n - i \in Nat
  OBVIOUS
<1>3. \A x \in Int : x % 256 \in Byte
  BY SMT DEF Byte
<1>4. \A i \in 1..n : Shift(v, n - i) % 256 \in Byte
  BY <1>1, <1>2, <1>3, Zenon
<1>5. Uint(v, n) = [i \in 1..n |-> Shift(v, n - i) % 256]
  BY Zenon DEF Uint
<1>6. Uint(v, n) \in [1..n -> Byte]
  BY <1>4, <1>5, Zenon
<1>7. Uint(v, n) \in Seq(Byte) /\ Len(Uint(v, n)) = n
  BY <1>6, FunctionIsSeq, Zenon
<1> QED BY <1>5, <1>7, Zenon

\* The same byte n times.
LEMMA RepeatIs ==
    ASSUME NEW x \in Byte, NEW n \in Nat
    PROVE  Repeat(x, n) \in Seq(Byte) /\ Len(Repeat(x, n)) = n
<1>1. Repeat(x, n) \in [1..n -> Byte]
  BY Zenon DEF Repeat
<1> QED BY <1>1, FunctionIsSeq, Zenon

-----------------------------------------------------------------------------
(* A wrapped message's header.                                             *)

\* A record with bytes in it is written as one (encodeDerTLV).
LEMMA PlainWritten ==
    ASSUME NEW tag \in 0..30, NEW content \in Seq(Byte), Len(content) \in Below31
    PROVE  Encodes(EncodeDerTLV(tag, FALSE, content), DerItem(tag, FALSE, content))
<1>1. FALSE \in BOOLEAN
  OBVIOUS
<1> QED BY <1>1, Zenon DEF Encodes

\* A field's length is below 2^31.
LEMMA ShortIsBelow31 == \A k \in 1..4 : k \in Nat /\ k <= 4 /\ k \in Below31
  BY SMT DEF Below31

\* The records of the header wrap writes.
HeaderRecords(q, msgLength, seqNum) ==
    <<EncodeDerTLV(0, FALSE, <<3>>),
      EncodeDerTLV(1, FALSE, <<7>>),
      EncodeDerTLV(2, FALSE, <<4>>),
      EncodeDerTLV(3, FALSE, Uint(q - 1, 4)),
      EncodeDerTLV(4, FALSE, DerMinimalInt(msgLength)),
      EncodeDerTLV(5, FALSE, DerMinimalInt(seqNum))>>

\* The items they are read as.
HeaderItems(q, msgLength, seqNum) ==
    <<DerItem(0, FALSE, <<3>>),
      DerItem(1, FALSE, <<7>>),
      DerItem(2, FALSE, <<4>>),
      DerItem(3, FALSE, Uint(q - 1, 4)),
      DerItem(4, FALSE, DerMinimalInt(msgLength)),
      DerItem(5, FALSE, DerMinimalInt(seqNum))>>

\* The content of a header field, with what it has of bytes.
LEMMA HeaderContents ==
    ASSUME NEW q \in Nat, q - 1 \in Below31, NEW msgLength \in Below31, NEW seqNum \in Below31
    PROVE  \A c \in {<<3>>, <<7>>, <<4>>, Uint(q - 1, 4), DerMinimalInt(msgLength), DerMinimalInt(seqNum)} :
              c \in Seq(Byte) /\ Len(c) \in Nat /\ Len(c) <= 4 /\ Len(c) \in Below31
<1>1. \A v \in 0..127 : <<v>> \in Seq(Byte) /\ Len(<<v>>) = 1
  BY FixedAreRead, Zenon
<1>2. 3 \in 0..127 /\ 7 \in 0..127 /\ 4 \in 0..127
  OBVIOUS
<1>3. Uint(q - 1, 4) \in Seq(Byte) /\ Len(Uint(q - 1, 4)) = 4
  BY FixedAreRead, Zenon
<1>4. \A v \in {msgLength, seqNum} : DerMinimalInt(v) \in Seq(Byte) /\ Len(DerMinimalInt(v)) \in 1..4
  BY IntsAreRead, Zenon
<1>5. \A k \in 1..4 : k \in Nat /\ k <= 4 /\ k \in Below31
  BY ShortIsBelow31, Zenon
<1>6. 1 \in 1..4 /\ 4 \in 1..4
  OBVIOUS
<1> QED BY <1>1, <1>2, <1>3, <1>4, <1>5, <1>6, Zenon

\* The header is a record whose items are read as they were written (the header's fields in
\* wrap and unwrap).
LEMMA HeaderIsRead ==
    ASSUME NEW q \in Nat, q - 1 \in Below31, NEW msgLength \in Below31, NEW seqNum \in Below31
    PROVE  LET hs == HeaderRecords(q, msgLength, seqNum)
               items == HeaderItems(q, msgLength, seqNum)
           IN  /\ hs \in Seq(Seq(Byte)) /\ FlattenSeq(hs) \in Seq(Byte)
               /\ Len(FlattenSeq(hs)) <= 140 * 6
               /\ ParseDerChildren(FlattenSeq(hs)) = [ok |-> TRUE, items |-> items]
               /\ DerInt(Field(items, 3)) = q - 1 /\ DerInt(Field(items, 4)) = msgLength
               /\ DerUint64(Field(items, 5)) = seqNum
<1> DEFINE hs == HeaderRecords(q, msgLength, seqNum)
           items == HeaderItems(q, msgLength, seqNum)
           C == {<<3>>, <<7>>, <<4>>, Uint(q - 1, 4), DerMinimalInt(msgLength), DerMinimalInt(seqNum)}
<1>1. \A c \in C : c \in Seq(Byte) /\ Len(c) \in Nat /\ Len(c) <= 4 /\ Len(c) \in Below31
  BY HeaderContents, Zenon
<1>2. PICK cs : /\ hs = <<EncodeDerTLV(0, FALSE, cs[1]), EncodeDerTLV(1, FALSE, cs[2]), EncodeDerTLV(2, FALSE, cs[3]),
                          EncodeDerTLV(3, FALSE, cs[4]), EncodeDerTLV(4, FALSE, cs[5]), EncodeDerTLV(5, FALSE, cs[6])>>
                /\ items = <<DerItem(0, FALSE, cs[1]), DerItem(1, FALSE, cs[2]), DerItem(2, FALSE, cs[3]),
                             DerItem(3, FALSE, cs[4]), DerItem(4, FALSE, cs[5]), DerItem(5, FALSE, cs[6])>>
                /\ \A i \in 1..6 : cs[i] \in C
                /\ cs[4] = Uint(q - 1, 4) /\ cs[5] = DerMinimalInt(msgLength) /\ cs[6] = DerMinimalInt(seqNum)
  <2> DEFINE cs == <<<<3>>, <<7>>, <<4>>, Uint(q - 1, 4), DerMinimalInt(msgLength), DerMinimalInt(seqNum)>>
  <2>1. cs[1] = <<3>> /\ cs[2] = <<7>> /\ cs[3] = <<4>> /\ cs[4] = Uint(q - 1, 4)
        /\ cs[5] = DerMinimalInt(msgLength) /\ cs[6] = DerMinimalInt(seqNum)
    OBVIOUS
  <2> HIDE DEF cs
  <2>2. \A i \in 1..6 : i \in {1, 2, 3, 4, 5, 6}
    OBVIOUS
  <2>3. \A i \in 1..6 : cs[i] \in C
    BY <2>1, <2>2, Zenon
  <2> QED BY <2>1, <2>3, Zenon DEF HeaderRecords, HeaderItems
<1> HIDE DEF hs, items, C
<1>3. \A i \in 1..6 : hs[i] = EncodeDerTLV(i - 1, FALSE, cs[i]) /\ items[i] = DerItem(i - 1, FALSE, cs[i])
  <2>1. \A i \in 1..6 : \/ (i = 1 /\ i - 1 = 0) \/ (i = 2 /\ i - 1 = 1) \/ (i = 3 /\ i - 1 = 2)
                        \/ (i = 4 /\ i - 1 = 3) \/ (i = 5 /\ i - 1 = 4) \/ (i = 6 /\ i - 1 = 5)
    OBVIOUS
  <2>2. /\ hs[1] = EncodeDerTLV(0, FALSE, cs[1]) /\ hs[2] = EncodeDerTLV(1, FALSE, cs[2])
        /\ hs[3] = EncodeDerTLV(2, FALSE, cs[3]) /\ hs[4] = EncodeDerTLV(3, FALSE, cs[4])
        /\ hs[5] = EncodeDerTLV(4, FALSE, cs[5]) /\ hs[6] = EncodeDerTLV(5, FALSE, cs[6])
    BY <1>2
  <2>3. /\ items[1] = DerItem(0, FALSE, cs[1]) /\ items[2] = DerItem(1, FALSE, cs[2])
        /\ items[3] = DerItem(2, FALSE, cs[3]) /\ items[4] = DerItem(3, FALSE, cs[4])
        /\ items[5] = DerItem(4, FALSE, cs[5]) /\ items[6] = DerItem(5, FALSE, cs[6])
    BY <1>2
  <2>4. TAKE i \in 1..6
  <2>a. CASE i = 1 /\ i - 1 = 0
    BY <2>2, <2>3, <2>a, Zenon
  <2>b. CASE i = 2 /\ i - 1 = 1
    BY <2>2, <2>3, <2>b, Zenon
  <2>c. CASE i = 3 /\ i - 1 = 2
    BY <2>2, <2>3, <2>c, Zenon
  <2>d. CASE i = 4 /\ i - 1 = 3
    BY <2>2, <2>3, <2>d, Zenon
  <2>e. CASE i = 5 /\ i - 1 = 4
    BY <2>2, <2>3, <2>e, Zenon
  <2>f. CASE i = 6 /\ i - 1 = 5
    BY <2>2, <2>3, <2>f, Zenon
  <2> QED BY <2>1, <2>a, <2>b, <2>c, <2>d, <2>e, <2>f, Zenon
<1>4. Len(hs) = 6 /\ DOMAIN hs = 1..6 /\ Len(items) = 6 /\ items = [i \in 1..6 |-> items[i]] /\ hs = [i \in 1..6 |-> hs[i]]
  BY <1>2
<1>5. \A i \in 1..6 : i - 1 \in 0..30 /\ i - 1 \in 0..5
  OBVIOUS
<1>6. \A i \in 1..6 : cs[i] \in Seq(Byte) /\ Len(cs[i]) \in Nat /\ Len(cs[i]) <= 4 /\ Len(cs[i]) \in Below31
  BY <1>1, <1>2, Zenon
<1>7. \A i \in 1..6 : Encodes(hs[i], items[i])
  BY <1>3, <1>5, <1>6, PlainWritten, Zenon
<1>8. \A i \in 1..6 : hs[i] \in Seq(Byte) /\ Len(hs[i]) <= 140
  <2>1. TAKE i \in 1..6
  <2>2. FALSE \in BOOLEAN /\ i - 1 \in 0..30
    BY <1>5
  <2>3. hs[i] \in Seq(Byte) /\ Len(hs[i]) \in Nat /\ Len(hs[i]) <= 130 + Len(cs[i])
    BY <1>3, <1>6, <2>2, RecordLength, Zenon
  <2>4. Len(cs[i]) \in Nat /\ Len(cs[i]) <= 4
    BY <1>6, Zenon
  <2>5. Len(hs[i]) <= 140
    BY <2>3, <2>4
  <2> QED BY <2>3, <2>5, Zenon
<1>9. hs \in Seq(Seq(Byte)) /\ 6 \in Nat
  <2>1. hs \in [1..6 -> Seq(Byte)] /\ 6 \in Nat
    BY <1>4, <1>8, Zenon
  <2> QED BY <2>1, FunctionIsSeq, Zenon
<1>10. FlattenSeq(hs) \in Seq(Byte)
  BY <1>4, <1>9, FlattenPlaces, Zenon
<1>l. Len(hs) = 6 /\ Len(items) = 6 /\ items = [i \in 1..6 |-> items[i]] /\ 6 \in Nat
  BY <1>4, <1>9, Zenon
<1>11. Len(FlattenSeq(hs)) <= 140 * 6
  <2>1. \A i \in 1..6 : Len(hs[i]) <= 140
    BY <1>8, Zenon
  <2>2. 140 \in Nat
    OBVIOUS
  <2> QED BY <1>9, <1>l, <2>1, <2>2, FlatLength, Zenon
<1>12. ParseDerChildren(FlattenSeq(hs)) = [ok |-> TRUE, items |-> items]
  BY <1>7, <1>9, <1>l, ChildrenAreRead, Zenon
<1>13. \A i \in 1..6 : items[i].tag = i - 1 /\ items[i].content = cs[i]
  <2>1. TAKE i \in 1..6
  <2>2. items[i] = DerItem(i - 1, FALSE, cs[i])
    BY <1>3, Zenon
  <2>3. DerItem(i - 1, FALSE, cs[i]).tag = i - 1 /\ DerItem(i - 1, FALSE, cs[i]).content = cs[i]
    BY DEF DerItem
  <2> QED BY <2>2, <2>3
<1>14. ASSUME NEW k \in 1..6
       PROVE  Field(items, k - 1) = cs[k]
  <2>1. \A j \in 1..6 : items[j].tag = items[k].tag => k <= j
    <3>1. \A j \in 1..6 : j - 1 = k - 1 => k <= j
      OBVIOUS
    <3> QED BY <1>13, <3>1, Zenon
  <2>2. Field(items, items[k].tag) = items[k].content
    BY <1>l, <2>1, FieldIs, Zenon
  <2> QED BY <1>13, <2>2, Zenon
<1>15. Field(items, 3) = cs[4] /\ Field(items, 4) = cs[5] /\ Field(items, 5) = cs[6]
  <2>1. 4 \in 1..6 /\ 5 \in 1..6 /\ 6 \in 1..6 /\ 4 - 1 = 3 /\ 5 - 1 = 4 /\ 6 - 1 = 5
    OBVIOUS
  <2>2. Field(items, 4 - 1) = cs[4] /\ Field(items, 5 - 1) = cs[5] /\ Field(items, 6 - 1) = cs[6]
    BY <1>14, <2>1, Zenon
  <2> QED BY <2>1, <2>2, Zenon
<1>16. DerInt(Uint(q - 1, 4)) = q - 1
  BY FixedAreRead, Zenon
<1>17. DerInt(DerMinimalInt(msgLength)) = msgLength /\ DerUint64(DerMinimalInt(seqNum)) = seqNum
  BY IntsAreRead, Zenon
<1> QED BY <1>2, <1>9, <1>10, <1>11, <1>12, <1>15, <1>16, <1>17, Zenon DEF hs, items

-----------------------------------------------------------------------------
(* A wrapped message's envelope.                                           *)

\* The lengths of data whose wrapping has a length below 2^31.
DataLengths == {n \in Nat : n < 64 * 16777216}

\* The hash lengths.
HmacLengths == {0, 16, 20, 32, 64}

\* Those of the algorithms.
LEMMA HmacIs == \A alg : Td2HmacLen(alg) \in HmacLengths
  BY DEF Td2HmacLen, HmacLengths

\* The nonce of a wrapped message.
LEMMA NonceIs ==
    ASSUME NEW m \in Int, NEW s \in Int
    PROVE  /\ Nonce(m, s) \in Seq(Byte) /\ Len(Nonce(m, s)) = 12
           /\ Nonce(m, s)[12] = s % 256
<1>1. /\ Uint(m, 4) \in Seq(Byte) /\ Len(Uint(m, 4)) = 4
      /\ Uint(s, 8) \in Seq(Byte) /\ Len(Uint(s, 8)) = 8
  <2>1. 4 \in Nat /\ 8 \in Nat
    OBVIOUS
  <2>2. Uint(m, 4) \in Seq(Byte) /\ Len(Uint(m, 4)) = 4
    BY <2>1, UintIs, Zenon
  <2>3. Uint(s, 8) \in Seq(Byte) /\ Len(Uint(s, 8)) = 8
    BY <2>1, UintIs, Zenon
  <2> QED BY <2>2, <2>3
<1>2. Uint(s, 8)[8] = s % 256
  <2> DEFINE b == Uint(s, 8)
  <2>1. b = [i \in 1..8 |-> Shift(s, 8 - i) % 256]
    BY Zenon DEF Uint
  <2>2. Shift(s, 0) = s
    BY DEF Shift
  <2>3. b[8] = Shift(s, 0) % 256
    <3> HIDE DEF b
    <3> QED BY <2>1
  <2> QED BY <2>2, <2>3
<1> DEFINE a == Uint(m, 4)
           b == Uint(s, 8)
<1>3. a \o b \in Seq(Byte) /\ Len(a \o b) = Len(a) + Len(b)
      /\ \A i \in 1..Len(a) + Len(b) : (a \o b)[i] = IF i <= Len(a) THEN a[i] ELSE b[i - Len(a)]
  <2> HIDE DEF a, b
  <2>1. a \in Seq(Byte) /\ b \in Seq(Byte)
    BY <1>1, Zenon DEF a, b
  <2> QED BY <2>1, ConcatProperties, Zenon
<1>4. Len(a) = 4 /\ Len(b) = 8 /\ b[8] = s % 256
  BY <1>1, <1>2, Zenon
<1> HIDE DEF a, b
<1>5. Len(a \o b) = 12 /\ (a \o b)[12] = s % 256
  BY <1>3, <1>4
<1> QED BY <1>3, <1>5, Zenon DEF Nonce, a, b

\* The text that is sealed: the data, the nonce and zeros up to the trailer's length.
Padded(data, nonce) == data \o nonce \o Repeat(0, TrailerLen - 12)

\* It starts with the data.
LEMMA PaddedIs ==
    ASSUME NEW data \in Seq(Byte), NEW nonce \in Seq(Byte), Len(nonce) = 12
    PROVE  /\ Padded(data, nonce) \in Seq(Byte) /\ Len(Padded(data, nonce)) = Len(data) + TrailerLen
           /\ Holds(Padded(data, nonce), 0, data)
<1> DEFINE z == Repeat(0, TrailerLen - 12)
<1>1. z \in Seq(Byte) /\ Len(z) = 4
  <2>1. TrailerLen - 12 = 4 /\ 4 \in Nat /\ 0 \in Byte
    BY DEF TrailerLen, Byte
  <2> QED BY <2>1, RepeatIs, Zenon
<1> HIDE DEF z
<1>2. data \o nonce \in Seq(Byte) /\ Len(data \o nonce) = Len(data) + Len(nonce)
  BY ConcatProperties, Zenon
<1>3. Padded(data, nonce) = (data \o nonce) \o z
  BY Zenon DEF Padded, z
<1>4. Padded(data, nonce) \in Seq(Byte) /\ Len(Padded(data, nonce)) = Len(data \o nonce) + Len(z)
  <2> DEFINE x == data \o nonce
  <2>1. x \in Seq(Byte)
    BY <1>2, Zenon
  <2>2. Padded(data, nonce) = x \o z
    BY <1>3, Zenon
  <2> HIDE DEF x
  <2>3. x \o z \in Seq(Byte) /\ Len(x \o z) = Len(x) + Len(z)
    BY <1>1, <2>1, ConcatProperties, Zenon
  <2> QED BY <2>2, <2>3, Zenon DEF x
<1>5. Len(Padded(data, nonce)) = Len(data) + TrailerLen
  <2>1. Len(data) \in Nat
    OBVIOUS
  <2> QED BY <1>1, <1>2, <1>4, <2>1 DEF TrailerLen
<1>6. Holds(Padded(data, nonce), 0, (data \o nonce) \o z)
  BY <1>3, <1>4, HoldsItself, Zenon
<1>7. 0 \in Nat
  OBVIOUS
<1>8. Holds(Padded(data, nonce), 0, data \o nonce)
  BY <1>1, <1>2, <1>4, <1>6, <1>7, HoldsParts, Zenon
<1>9. Holds(Padded(data, nonce), 0, data)
  BY <1>4, <1>7, <1>8, HoldsParts, Zenon
<1> QED BY <1>4, <1>5, <1>9, Zenon

\* The records of a wrapped message.
EnvelopeRecords(padded, hs) ==
    <<EncodeDerTLV(0, FALSE, padded), EncodeDerConstructed(1, hs), EncodeDerTLV(3, FALSE, Repeat(0, TagLen))>>

\* The items they are read as.
EnvelopeItems(padded, hs) ==
    <<DerItem(0, FALSE, padded), DerItem(1, TRUE, FlattenSeq(hs)), DerItem(3, FALSE, Repeat(0, TagLen))>>

\* They are read as they were written, and the text's first bytes are the data.
EnvelopeReads(data, padded, hs) ==
    LET rs == EnvelopeRecords(padded, hs)
    IN  /\ ParseDerTLV(EncodeDerConstructed(0, rs), 0) = DerItem(0, TRUE, FlattenSeq(rs))
        /\ ParseDerChildren(FlattenSeq(rs)) = [ok |-> TRUE, items |-> EnvelopeItems(padded, hs)]
        /\ At(padded, 0, Len(padded) - TrailerLen) = data /\ Len(padded) >= TrailerLen

\* A message that is wrapped has such records (wrap and unwrap).
LEMMA EnvelopeIsRead ==
    ASSUME NEW data \in Seq(Byte), Len(data) \in DataLengths, NEW nonce \in Seq(Byte), Len(nonce) = 12,
           NEW q \in Nat, q - 1 \in Below31, NEW msgLength \in Below31, NEW seqNum \in Below31
    PROVE  EnvelopeReads(data, Padded(data, nonce), HeaderRecords(q, msgLength, seqNum))
<1> DEFINE padded == Padded(data, nonce)
           hs == HeaderRecords(q, msgLength, seqNum)
           tag == Repeat(0, TagLen)
           a == EncodeDerTLV(0, FALSE, padded)
           b == EncodeDerConstructed(1, hs)
           d == EncodeDerTLV(3, FALSE, tag)
           rs == <<a, b, d>>
           ia == DerItem(0, FALSE, padded)
           ib == DerItem(1, TRUE, FlattenSeq(hs))
           id == DerItem(3, FALSE, tag)
           items == <<ia, ib, id>>
<1>n. Len(data) \in Nat /\ Len(data) < 64 * 16777216
  BY SMT DEF DataLengths
<1>1. padded \in Seq(Byte) /\ Len(padded) = Len(data) + TrailerLen /\ Holds(padded, 0, data)
  BY PaddedIs, Zenon
<1>2. hs \in Seq(Seq(Byte)) /\ FlattenSeq(hs) \in Seq(Byte) /\ Len(FlattenSeq(hs)) <= 140 * 6
  BY HeaderIsRead, Zenon
<1>3. tag \in Seq(Byte) /\ Len(tag) = 16
  <2>1. TagLen = 16 /\ 16 \in Nat /\ 0 \in Byte
    BY DEF TagLen, Byte
  <2> QED BY <2>1, RepeatIs, Zenon
<1> HIDE DEF padded, hs, tag
<1>4. Len(padded) \in Below31 /\ Len(padded) >= TrailerLen /\ Len(padded) - TrailerLen = Len(data)
      /\ Len(padded) \in Nat /\ Len(padded) <= Len(data) + 16
  BY SMT, <1>1, <1>n DEF TrailerLen, Below31
<1>5. Len(FlattenSeq(hs)) \in Below31 /\ Len(FlattenSeq(hs)) \in Nat /\ Len(FlattenSeq(hs)) <= 840
  <2>1. Len(FlattenSeq(hs)) \in Nat
    BY <1>2
  <2> QED BY SMT, <1>2, <2>1 DEF Below31
<1>p. Len(FlattenSeq(hs)) \in Below31
  BY <1>5
<1>6. Len(tag) \in Below31
  BY SMT, <1>3 DEF Below31
<1>7. 0 \in 0..30 /\ 1 \in 0..30 /\ 3 \in 0..30 /\ FALSE \in BOOLEAN /\ TRUE \in BOOLEAN
  OBVIOUS
<1>8. Encodes(a, ia) /\ Encodes(b, ib) /\ Encodes(d, id)
  <2>1. Encodes(a, ia)
    BY <1>1, <1>4, <1>7, PlainWritten, Zenon
  <2>2. Encodes(d, id)
    BY <1>3, <1>6, <1>7, PlainWritten, Zenon
  <2>3. Encodes(b, ib)
    BY <1>2, <1>7, <1>p, GroupWritten, Zenon
  <2> QED BY <2>1, <2>2, <2>3
<1>9. /\ a \in Seq(Byte) /\ Len(a) \in Nat /\ Len(a) <= 130 + Len(padded)
      /\ b \in Seq(Byte) /\ Len(b) \in Nat /\ Len(b) <= 130 + Len(FlattenSeq(hs))
      /\ d \in Seq(Byte) /\ Len(d) \in Nat /\ Len(d) <= 130 + Len(tag)
  <2>1. a \in Seq(Byte) /\ Len(a) \in Nat /\ Len(a) <= 130 + Len(padded)
    BY <1>1, <1>4, <1>7, RecordLength, Zenon
  <2>2. d \in Seq(Byte) /\ Len(d) \in Nat /\ Len(d) <= 130 + Len(tag)
    BY <1>3, <1>6, <1>7, RecordLength, Zenon
  <2>3. b \in Seq(Byte) /\ Len(b) \in Nat /\ Len(b) <= 130 + Len(FlattenSeq(hs))
    BY <1>2, <1>7, <1>p, GroupWritten, Zenon
  <2> QED BY <2>1, <2>2, <2>3
<1> HIDE DEF a, b, d, ia, ib, id
<1>10. rs \in Seq(Seq(Byte)) /\ Len(rs) = 3 /\ rs[1] = a /\ rs[2] = b /\ rs[3] = d
  BY <1>9
<1>11. items = [i \in 1..3 |-> items[i]] /\ items[1] = ia /\ items[2] = ib /\ items[3] = id
  OBVIOUS
<1>12. Len(FlattenSeq(rs)) \in Below31
  <2>1. Len(FlattenSeq(rs)) = Len(a) + Len(b) + Len(d)
    BY <1>9, FlatThree, Zenon
  <2> QED BY SMT, <1>3, <1>4, <1>5, <1>9, <1>n, <2>1 DEF Below31
<1> HIDE DEF rs, items
<1>13. \A i \in 1..3 : Encodes(rs[i], items[i])
  <2>1. \A i \in 1..3 : i = 1 \/ i = 2 \/ i = 3
    OBVIOUS
  <2> QED BY <1>8, <1>10, <1>11, <2>1, Zenon
<1>14. ParseDerChildren(FlattenSeq(rs)) = [ok |-> TRUE, items |-> items]
  <2>1. 3 \in Nat /\ rs \in Seq(Seq(Byte)) /\ Len(rs) = 3 /\ items = [i \in 1..3 |-> items[i]]
    BY <1>10, <1>11
  <2> QED BY <1>13, <2>1, ChildrenAreRead, Zenon
<1>15. ParseDerTLV(EncodeDerConstructed(0, rs), 0) = DerItem(0, TRUE, FlattenSeq(rs))
  <2>1. Encodes(EncodeDerConstructed(0, rs), DerItem(0, TRUE, FlattenSeq(rs)))
    BY <1>7, <1>10, <1>12, GroupWritten, Zenon
  <2> QED BY <2>1, WrittenAlone, Zenon
<1>16. At(padded, 0, Len(padded) - TrailerLen) = data
  <2>1. 0 \in Nat
    OBVIOUS
  <2>2. At(padded, 0, Len(data)) = data
    BY <1>1, <2>1, HeldIsCut, Zenon
  <2> QED BY <1>4, <2>2, Zenon
<1>17. EnvelopeRecords(padded, hs) = rs /\ EnvelopeItems(padded, hs) = items
  BY Zenon DEF EnvelopeRecords, EnvelopeItems, items, rs, a, b, d, ia, ib, id, tag
<1>18. EnvelopeReads(data, padded, hs)
  BY <1>4, <1>14, <1>15, <1>16, <1>17, Zenon DEF EnvelopeReads
<1> QED BY <1>18, Zenon DEF padded, hs

-----------------------------------------------------------------------------
(* What wrap returns, and unwrap.                                          *)

\* A set of numbers has its smallest element.
LEMMA SmallestIsOne == \A n \in Nat : \A W \in SUBSET (1..n) : W # {} => Min(W) \in W
<1> DEFINE Least(W) == \E x \in W : \A y \in W : x <= y
           P(n) == \A W \in SUBSET (1..n) : W # {} => Least(W)
           S == {n \in Nat : P(n)}
<1>1. P(0)
  <2>1. 1..0 = {}
    OBVIOUS
  <2> QED BY <2>1, Zenon
<1>2. ASSUME NEW n \in Nat, P(n)
      PROVE  P(n + 1)
  <2>1. TAKE W \in SUBSET (1..(n + 1))
  <2>2. CASE W \cap (1..n) = {}
    <3>1. \A x, y \in W : x <= y
      BY <2>2
    <3> QED BY <3>1, Zenon
  <2>3. CASE W \cap (1..n) # {}
    <3>1. Least(W \cap (1..n))
      BY <1>2, <2>3
    <3>2. PICK x \in W \cap (1..n) : \A y \in W \cap (1..n) : x <= y
      BY <3>1
    <3>3. x \in W /\ \A y \in W : x <= y
      BY <3>2
    <3> QED BY <3>3, Zenon
  <2> QED BY <2>2, <2>3
<1> HIDE DEF P
<1>3. 0 \in S /\ \A n \in Nat : n \in S => n + 1 \in S
  BY <1>1, <1>2
<1>4. Nat \subseteq S
  <2> HIDE DEF S
  <2> QED BY <1>3, InductionByCounting
<1>5. \A n \in Nat : P(n)
  BY <1>4
<1> QED BY <1>5, Zenon DEF P, Min

\* The option chosen is one of them, of the kind looked for.
LEMMA ChosenIs ==
    ASSUME NEW options, Len(options) \in Nat, SelectInSeq(options, IsGcm) # 0
    PROVE  /\ SelectInSeq(options, IsGcm) \in 1..Len(options)
           /\ IsGcm(options[SelectInSeq(options, IsGcm)])
<1> DEFINE U == {i \in 1..Len(options) : IsGcm(options[i])}
           q == SelectInSeq(options, IsGcm)
<1>1. q = IF U # {} THEN Min(U) ELSE 0
  BY Zenon DEF SelectInSeq
<1>2. q # 0
  OBVIOUS
<1> HIDE DEF q
<1>3. U \in SUBSET (1..Len(options)) /\ U # {} /\ q = Min(U)
  BY <1>1, <1>2, Zenon
<1>4. Min(U) \in U
  <2> HIDE DEF U
  <2> QED BY <1>3, SmallestIsOne, Zenon
<1>5. q \in 1..Len(options) /\ IsGcm(options[q])
  BY <1>3, <1>4, Zenon
<1> QED BY <1>5, Zenon DEF q

\* What wrap writes when it does not fail.
LEMMA WrapIs ==
    ASSUME NEW c, NEW data, Len(data) \in DataLengths, Len(c.options) \in Below31, Wrap(c, data).ok
    PROVE  \E q \in Nat, m \in Below31 :
             /\ q \in 1..Len(c.options) /\ IsGcm(c.options[q]) /\ q - 1 \in Below31
             /\ QopKey(c.options, q, c.master, c.keyLen) = [ok |-> TRUE, key |-> Wrap(c, data).key]
             /\ Wrap(c, data).nonce = Nonce(m, c.seqNum)
             /\ Wrap(c, data).envelope
                  = EncodeDerConstructed(0, EnvelopeRecords(Padded(data, Nonce(m, c.seqNum)),
                                                            HeaderRecords(q, m, c.seqNum)))
<1> DEFINE q == SelectInSeq(c.options, IsGcm)
           key == QopKey(c.options, q, c.master, c.keyLen)
           hl == Td2HmacLen(c.options[q].integAlg)
           m == Len(data) + 16 + 16 + hl + 16
           nonce == Nonce(m, c.seqNum)
           env == EncodeDerConstructed(0, EnvelopeRecords(Padded(data, nonce), HeaderRecords(q, m, c.seqNum)))
           w == Wrap(c, data)
           good == [ok |-> TRUE, key |-> key.key, nonce |-> nonce, envelope |-> env]
<1>1. w = IF q = 0 \/ ~key.ok \/ Len(key.key) \notin AesKeyLengths \/ hl = 0 THEN Failed ELSE good
  BY Zenon DEF Wrap, Padded, HeaderRecords, EnvelopeRecords
<1>2. w.ok
  OBVIOUS
<1> HIDE DEF w, env, nonce
<1>3. q # 0 /\ key.ok /\ w = good
  <2> HIDE DEF q, key, hl, m
  <2>1. Failed.ok = FALSE
    BY DEF Failed
  <2> QED BY <1>1, <1>2, <2>1, Zenon
<1>4. Len(c.options) \in Nat
  BY SMT, SmallAre
<1>5. q \in 1..Len(c.options) /\ IsGcm(c.options[q])
  BY <1>3, <1>4, ChosenIs, Zenon
<1>6. q \in Nat /\ q - 1 \in Below31
  <2>1. Len(c.options) < 128 * 16777216
    BY SMT, SmallAre
  <2> HIDE DEF q
  <2>2. q \in Nat /\ q - 1 \in Nat /\ q - 1 < 128 * 16777216
    BY SMT, <1>4, <1>5, <2>1
  <2> QED BY SMT, <2>2 DEF Below31
<1>7. m \in Below31
  <2>1. Len(data) \in Nat /\ Len(data) < 64 * 16777216
    BY SMT DEF DataLengths
  <2>2. hl \in {0, 16, 20, 32, 64}
    BY HmacIs, Zenon DEF HmacLengths
  <2> HIDE DEF hl
  <2> QED BY SMT, <2>1, <2>2 DEF Below31
<1>8. key = [ok |-> TRUE, key |-> w.key] /\ w.nonce = nonce /\ w.envelope = env
  <2>1. key = Failed \/ \E k : key = [ok |-> TRUE, key |-> k]
    BY Zenon DEF QopKey
  <2> HIDE DEF key, q, m, hl
  <2>2. Failed.ok = FALSE
    BY DEF Failed
  <2>3. \E k : key = [ok |-> TRUE, key |-> k]
    BY <1>3, <2>1, <2>2, Zenon
  <2>4. PICK k : key = [ok |-> TRUE, key |-> k]
    BY <2>3, Zenon
  <2>5. key.key = k
    BY <2>4
  <2>6. w.key = key.key /\ w.nonce = nonce /\ w.envelope = env
    BY <1>3
  <2> QED BY <2>4, <2>5, <2>6, Zenon
<1> HIDE DEF q, m
<1> QED BY <1>5, <1>6, <1>7, <1>8, Zenon DEF w, env, nonce, key

\* The receiver has the option and the nonce from the header (unwrap).
LEMMA HeaderOpens ==
    ASSUME NEW c, NEW seal, NEW q \in Nat, NEW m \in Below31, c.seqNum \in Below31,
           q \in 1..Len(c.options), IsGcm(c.options[q]), q - 1 \in Below31,
           NEW u, u.options = c.options, u.master = c.master, u.keyLen = c.keyLen,
           QopKey(c.options, q, c.master, c.keyLen) = [ok |-> TRUE, key |-> seal.key],
           seal.nonce = Nonce(m, c.seqNum)
    PROVE  Opens(u, ParseDerChildren(FlattenSeq(HeaderRecords(q, m, c.seqNum))), seal)
<1> DEFINE items == HeaderItems(q, m, c.seqNum)
           header == ParseDerChildren(FlattenSeq(HeaderRecords(q, m, c.seqNum)))
<1>1. /\ header = [ok |-> TRUE, items |-> items]
      /\ DerInt(Field(items, 3)) = q - 1 /\ DerInt(Field(items, 4)) = m /\ DerUint64(Field(items, 5)) = c.seqNum
  <2>1. q \in Nat /\ q - 1 \in Below31 /\ m \in Below31 /\ c.seqNum \in Below31
    OBVIOUS
  <2>2. header = [ok |-> TRUE, items |-> items]
    BY <2>1, HeaderIsRead, Zenon
  <2>3. DerInt(Field(items, 3)) = q - 1 /\ DerInt(Field(items, 4)) = m
    BY <2>1, HeaderIsRead, Zenon
  <2>4. DerUint64(Field(items, 5)) = c.seqNum
    BY <2>1, HeaderIsRead, Zenon
  <2> QED BY <2>2, <2>3, <2>4, Zenon
<1> HIDE DEF items, header
<1>2. header.ok /\ header.items = items
  BY <1>1
<1>3. DerInt(Field(header.items, 3)) + 1 = q
  <2>1. (q - 1) + 1 = q
    OBVIOUS
  <2> QED BY <1>1, <1>2, <2>1, Zenon
<1>4. \A p \in {DerInt(Field(header.items, 3)) + 1} :
          /\ p \in 1..Len(u.options)
          /\ IsGcm(u.options[p])
          /\ QopKey(u.options, p, u.master, u.keyLen) = [ok |-> TRUE, key |-> seal.key]
  BY <1>3, Zenon
<1>5. seal.nonce = Nonce(DerInt(Field(header.items, 4)), DerUint64(Field(header.items, 5)))
  BY <1>1, <1>2, Zenon
<1> QED BY <1>2, <1>4, <1>5, Zenon DEF Opens, header

\* What wrap returns a peer with the same options and secret unwraps to the same bytes, whatever
\* the options, the secret, the sequence number below 2^31 and the data of up to 2^30 bytes are
\* and whatever the peer's own sequence number is (wrap, unwrap, auth_td2.go).
THEOREM WrapIsUndone ==
    ASSUME NEW c, Len(c.options) \in Below31, c.seqNum \in Below31,
           NEW data \in Seq(Byte), Len(data) \in DataLengths, Wrap(c, data).ok,
           NEW u, u.options = c.options, u.master = c.master, u.keyLen = c.keyLen
    PROVE  Unwrap(u, Wrap(c, data).envelope, Wrap(c, data)) = [ok |-> TRUE, data |-> data]
<1> DEFINE w == Wrap(c, data)
<1>1. PICK q \in Nat, m \in Below31 :
             /\ q \in 1..Len(c.options) /\ IsGcm(c.options[q]) /\ q - 1 \in Below31
             /\ QopKey(c.options, q, c.master, c.keyLen) = [ok |-> TRUE, key |-> w.key]
             /\ w.nonce = Nonce(m, c.seqNum)
             /\ w.envelope
                  = EncodeDerConstructed(0, EnvelopeRecords(Padded(data, Nonce(m, c.seqNum)),
                                                            HeaderRecords(q, m, c.seqNum)))
  BY WrapIs, Zenon
<1> HIDE DEF w
<1> DEFINE nonce == Nonce(m, c.seqNum)
           padded == Padded(data, nonce)
           hs == HeaderRecords(q, m, c.seqNum)
           rs == EnvelopeRecords(padded, hs)
           items == EnvelopeItems(padded, hs)
           records == ParseDerChildren(FlattenSeq(rs))
<1>2. nonce \in Seq(Byte) /\ Len(nonce) = 12
  <2>1. m \in Int /\ c.seqNum \in Int
    BY SMT DEF Below31
  <2> QED BY <2>1, NonceIs, Zenon
<1>3. /\ ParseDerTLV(EncodeDerConstructed(0, rs), 0) = DerItem(0, TRUE, FlattenSeq(rs))
      /\ records = [ok |-> TRUE, items |-> items]
      /\ At(padded, 0, Len(padded) - TrailerLen) = data /\ Len(padded) >= TrailerLen
  <2>1. q - 1 \in Below31
    BY <1>1, Zenon
  <2> HIDE DEF nonce
  <2>2. EnvelopeReads(data, padded, hs)
    BY <1>2, <2>1, EnvelopeIsRead, Zenon
  <2> QED BY <2>2, Zenon DEF EnvelopeReads
<1>4. w.envelope = EncodeDerConstructed(0, rs)
  BY <1>1, Zenon
<1>5. Opens(u, ParseDerChildren(FlattenSeq(hs)), w)
  BY <1>1, HeaderOpens, Zenon
<1> HIDE DEF nonce, padded, hs, rs
<1>6. /\ Len(items) = 3 /\ items[1].tag = 0 /\ items[2].tag = 1 /\ items[3].tag = 3 /\ DOMAIN items = 1..3
      /\ items[1].content = padded /\ items[2].content = FlattenSeq(hs)
  BY DEF DerItem, EnvelopeItems
<1> HIDE DEF items
<1>7. {0, 1, 3} \subseteq {r.tag : r \in ToSet(items)}
  <2>1. 1 \in DOMAIN items /\ 2 \in DOMAIN items /\ 3 \in DOMAIN items
    BY <1>6
  <2>2. items[1] \in ToSet(items) /\ items[2] \in ToSet(items) /\ items[3] \in ToSet(items)
    BY <2>1, Zenon DEF ToSet
  <2> QED BY <1>6, <2>2, Zenon
<1>8. Field(items, 0) = padded /\ Field(items, 1) = FlattenSeq(hs)
  <2>1. ASSUME NEW k \in 1..3
        PROVE  Field(items, items[k].tag) = items[k].content
    <3>1. \A j \in 1..3 : items[j].tag = items[k].tag => k <= j
      <4>1. \A j \in 1..3 : j = 1 \/ j = 2 \/ j = 3
        OBVIOUS
      <4> QED BY <1>6, <4>1
    <3>2. Len(items) = 3 /\ 3 \in Nat
      BY <1>6
    <3> QED BY <3>1, <3>2, FieldIs, Zenon
  <2>2. 1 \in 1..3 /\ 2 \in 1..3
    OBVIOUS
  <2> QED BY <1>6, <2>1, <2>2, Zenon
<1>9. UnwrapRecords(u, items, w) = [ok |-> TRUE, data |-> data]
  BY <1>3, <1>5, <1>7, <1>8, Zenon DEF UnwrapRecords
<1> DEFINE top == ParseDerTLV(w.envelope, 0)
<1>10. top = DerItem(0, TRUE, FlattenSeq(rs))
  BY <1>3, <1>4, Zenon
<1> HIDE DEF top
<1>11. top.ok /\ top.content = FlattenSeq(rs)
  BY <1>10 DEF DerItem
<1>12. records.ok /\ records.items = items
  <2> HIDE DEF records
  <2> QED BY <1>3
<1>13. Unwrap(u, w.envelope, w) = IF ~top.ok \/ ~ParseDerChildren(top.content).ok THEN Failed
                                  ELSE UnwrapRecords(u, ParseDerChildren(top.content).items, w)
  BY Zenon DEF Unwrap, top
<1>14. ParseDerChildren(top.content) = records
  BY <1>11, Zenon
<1> HIDE DEF records
<1> QED BY <1>9, <1>11, <1>12, <1>13, <1>14, Zenon DEF w

-----------------------------------------------------------------------------
(* The options of the security layer.                                      *)

\* p has the options on the way.
FieldsTo(p, W, base, fields, n) ==
    /\ p \in [0..n -> W] /\ p[0] = base /\ FoldLeft(ReadField, base, fields) = p[n]
    /\ \A i \in 1..n : p[i] = ReadField(p[i - 1], fields[i])

\* An option's fields are set one after the other (decodeTd2QOPOptions).
LEMMA FieldsAre ==
    ASSUME NEW W, NEW base \in W, NEW n \in Nat, NEW b, DOMAIN b = 1..n,
           \A v \in W : \A i \in 1..n : ReadField(v, b[i]) \in W
    PROVE  \E p : FieldsTo(p, W, base, b, n)
<1> DEFINE step == [q \in (1..n) \X W |-> ReadField(q[2], b[q[1]])]
           Is2(f) == f = [U \in SUBSET DOMAIN b |-> IF U = {} THEN base ELSE ReadField(f[U \ {Max(U)}], b[Max(U)])]
           iter == CHOOSE f : Is2(f)
<1>1. step \in [(1..n) \X W -> W]
  <2>1. \A q \in (1..n) \X W : ReadField(q[2], b[q[1]]) \in W
    OBVIOUS
  <2> QED BY <2>1
<1>2. \A i \in 1..n, v \in W : step[<<i, v>>] = ReadField(v, b[i])
  <2>1. \A i \in 1..n, v \in W : <<i, v>> \in (1..n) \X W
    OBVIOUS
  <2> QED BY <2>1
<1> HIDE DEF step
<1>m. ASSUME NEW U \in SUBSET (1..n), U # {}
      PROVE  Max(U) \in 1..n /\ U \ {Max(U)} \in SUBSET (1..n)
  <2>1. Max(U) \in U
    BY <1>m, LargestIsOne, Zenon
  <2> QED BY <2>1
<1>3. \E f : Is2(f)
  <2>1. PICK f : IsFold(f, W, base, n, step)
    <3>1. n \in 0..n
      OBVIOUS
    <3> QED BY <1>1, <3>1, FoldExists, Zenon
  <2>2. \A U \in SUBSET (1..n) : f[U] = IF U = {} THEN base ELSE ReadField(f[U \ {Max(U)}], b[Max(U)])
    <3>1. TAKE U \in SUBSET (1..n)
    <3>2. CASE U = {}
      BY <2>1, <3>2, Zenon DEF IsFold
    <3>3. CASE U # {}
      <4>1. Max(U) \in 1..n /\ f[U \ {Max(U)}] \in W
        BY <1>m, <2>1, <3>3, Zenon DEF IsFold
      <4> QED BY <1>2, <2>1, <3>3, <4>1, Zenon DEF IsFold
    <3> QED BY <3>2, <3>3, Zenon
  <2>3. f = [U \in SUBSET DOMAIN b |-> f[U]]
    BY <2>1 DEF IsFold
  <2> DEFINE g == [U \in SUBSET DOMAIN b |-> IF U = {} THEN base ELSE ReadField(f[U \ {Max(U)}], b[Max(U)])]
  <2>4. f = g
    BY <2>2, <2>3, Zenon
  <2> QED BY <2>4, Zenon
<1>4. Is2(iter)
  BY <1>3, Zenon
<1>5. FoldLeft(ReadField, base, b) = iter[1..n]
  BY Zenon DEF FoldLeft, MapThenFoldSet
<1> HIDE DEF iter
<1>6. \A U \in SUBSET (1..n) : iter[U] = IF U = {} THEN base ELSE ReadField(iter[U \ {Max(U)}], b[Max(U)])
  <2> DEFINE h == [U \in SUBSET DOMAIN b |-> IF U = {} THEN base ELSE ReadField(iter[U \ {Max(U)}], b[Max(U)])]
  <2>1. \A U \in SUBSET (1..n) : h[U] = IF U = {} THEN base ELSE ReadField(iter[U \ {Max(U)}], b[Max(U)])
    BY Zenon
  <2>2. iter = h
    BY <1>4, Zenon
  <2> QED BY <2>1, <2>2, Zenon
<1>7. iter[{}] = base
  BY <1>6, Zenon
<1>8. ASSUME NEW k \in 0..(n - 1), iter[1..k] \in W
      PROVE  iter[1..(k + 1)] = step[<<k + 1, iter[1..k]>>]
  <2>1. k + 1 \in 1..n /\ k \in Nat /\ 1..(k + 1) \in SUBSET (1..n)
    OBVIOUS
  <2>2. iter[1..(k + 1)] = ReadField(iter[1..k], b[k + 1])
    <3>1. 1..(k + 1) # {} /\ Max(1..(k + 1)) = k + 1 /\ (1..(k + 1)) \ {k + 1} = 1..k
      BY <2>1, LargestOfFirst
    <3> DEFINE U == 1..(k + 1)
    <3>2. U \in SUBSET (1..n) /\ U # {} /\ Max(U) = k + 1 /\ U \ {k + 1} = 1..k
      BY <2>1, <3>1
    <3> HIDE DEF U
    <3>3. iter[U] = ReadField(iter[U \ {Max(U)}], b[Max(U)])
      BY <1>6, <3>2, Zenon
    <3>4. iter[U] = ReadField(iter[1..k], b[k + 1])
      BY <3>2, <3>3
    <3> QED BY <3>4 DEF U
  <2> QED BY <1>2, <1>8, <2>1, <2>2, Zenon
<1>9. PICK p : Partial(p, iter, W, base, n, step)
  <2>1. TakesSteps(iter, W, base, n, step)
    BY <1>7, <1>8, Zenon DEF TakesSteps
  <2> QED BY <1>1, <2>1, FoldSteps, Zenon
<1>10. \A i \in 1..n : p[i] = ReadField(p[i - 1], b[i])
  <2>1. \A i \in 1..n : p[i - 1] \in W /\ p[i] = step[<<i, p[i - 1]>>]
    BY <1>9 DEF Partial
  <2> QED BY <1>2, <2>1, Zenon
<1>11. FoldLeft(ReadField, base, b) = p[n]
  BY <1>5, <1>9, Zenon DEF Partial
<1> QED BY <1>9, <1>10, <1>11, Zenon DEF Partial, FieldsTo

\* The numbers one byte has with a sign.
Below7 == 0..127

\* The options a server may send: their key length in two bytes, the rest in one.
SentForms == [confAlg : Below7, mode : Below7, keyLength : Below15, integAlg : Below7]

\* Options as they are read.
ReadForms == [confAlg : Int, mode : Int, keyLength : Int, integAlg : Int]

\* The records of an option.
OptionRecords(o) ==
    <<EncodeDerTLV(16, FALSE, <<o.confAlg>>),
      EncodeDerTLV(17, FALSE, <<o.integAlg>>),
      EncodeDerTLV(19, FALSE, <<o.mode>>),
      EncodeDerTLV(20, FALSE, <<4>>),
      EncodeDerTLV(21, FALSE, Uint(o.keyLength, 2))>>

\* The items they are read as.
OptionItems(o) ==
    <<DerItem(16, FALSE, <<o.confAlg>>),
      DerItem(17, FALSE, <<o.integAlg>>),
      DerItem(19, FALSE, <<o.mode>>),
      DerItem(20, FALSE, <<4>>),
      DerItem(21, FALSE, Uint(o.keyLength, 2))>>

\* What one field does to an option.
LEMMA FieldSets ==
    ASSUME NEW v \in ReadForms, NEW content
    PROVE  /\ ReadField(v, DerItem(16, FALSE, content)) = [v EXCEPT !.confAlg = DerInt(content)]
           /\ ReadField(v, DerItem(17, FALSE, content)) = [v EXCEPT !.integAlg = DerInt(content)]
           /\ ReadField(v, DerItem(19, FALSE, content)) = [v EXCEPT !.mode = DerInt(content)]
           /\ ReadField(v, DerItem(20, FALSE, content)) = v
           /\ ReadField(v, DerItem(21, FALSE, content)) = [v EXCEPT !.keyLength = DerInt(content)]
<1>1. \A t : DerItem(t, FALSE, content).tag = t /\ DerItem(t, FALSE, content).content = content
  BY DEF DerItem
<1>2. ReadField(v, DerItem(16, FALSE, content)) = [v EXCEPT !.confAlg = DerInt(content)]
  <2>1. DerItem(16, FALSE, content).tag = 16 /\ DerItem(16, FALSE, content).content = content
    BY <1>1, Zenon
  <2> DEFINE f == DerItem(16, FALSE, content)
  <2> HIDE DEF f
  <2>2. f.tag = 16 /\ f.content = content
    BY <2>1, Zenon DEF f
  <2>3. ReadField(v, f) = [v EXCEPT !.confAlg = DerInt(content)]
    BY <2>2 DEF ReadField
  <2> QED BY <2>3, Zenon DEF f
<1>3. ReadField(v, DerItem(17, FALSE, content)) = [v EXCEPT !.integAlg = DerInt(content)]
  <2>1. DerItem(17, FALSE, content).tag = 17 /\ DerItem(17, FALSE, content).content = content
    BY <1>1, Zenon
  <2> DEFINE f == DerItem(17, FALSE, content)
  <2> HIDE DEF f
  <2>2. f.tag = 17 /\ f.content = content
    BY <2>1, Zenon DEF f
  <2>3. ReadField(v, f) = [v EXCEPT !.integAlg = DerInt(content)]
    BY <2>2 DEF ReadField
  <2> QED BY <2>3, Zenon DEF f
<1>4. ReadField(v, DerItem(19, FALSE, content)) = [v EXCEPT !.mode = DerInt(content)]
  <2>1. DerItem(19, FALSE, content).tag = 19 /\ DerItem(19, FALSE, content).content = content
    BY <1>1, Zenon
  <2> DEFINE f == DerItem(19, FALSE, content)
  <2> HIDE DEF f
  <2>2. f.tag = 19 /\ f.content = content
    BY <2>1, Zenon DEF f
  <2>3. ReadField(v, f) = [v EXCEPT !.mode = DerInt(content)]
    BY <2>2 DEF ReadField
  <2> QED BY <2>3, Zenon DEF f
<1>5. ReadField(v, DerItem(21, FALSE, content)) = [v EXCEPT !.keyLength = DerInt(content)]
  <2>1. DerItem(21, FALSE, content).tag = 21 /\ DerItem(21, FALSE, content).content = content
    BY <1>1, Zenon
  <2> DEFINE f == DerItem(21, FALSE, content)
  <2> HIDE DEF f
  <2>2. f.tag = 21 /\ f.content = content
    BY <2>1, Zenon DEF f
  <2>3. ReadField(v, f) = [v EXCEPT !.keyLength = DerInt(content)]
    BY <2>2 DEF ReadField
  <2> QED BY <2>3, Zenon DEF f
<1>6. ReadField(v, DerItem(20, FALSE, content)) = v
  <2>1. DerItem(20, FALSE, content).tag = 20
    BY <1>1, Zenon
  <2> DEFINE f == DerItem(20, FALSE, content)
  <2> HIDE DEF f
  <2>2. f.tag = 20
    BY <2>1, Zenon DEF f
  <2>3. ReadField(v, f) = v
    BY <2>2 DEF ReadField
  <2> QED BY <2>3, Zenon DEF f
<1> QED BY <1>2, <1>3, <1>4, <1>5, <1>6

\* An option that has these fields.
Fields4(r, w, x, y, z) == r = [confAlg |-> w, mode |-> x, keyLength |-> y, integAlg |-> z]

\* It still has the others when one of them is set.
LEMMA OneField ==
    ASSUME NEW w, NEW x, NEW y, NEW z, NEW r, Fields4(r, w, x, y, z), NEW n
    PROVE  /\ Fields4([r EXCEPT !.confAlg = n], n, x, y, z)
           /\ Fields4([r EXCEPT !.mode = n], w, n, y, z)
           /\ Fields4([r EXCEPT !.keyLength = n], w, x, n, z)
           /\ Fields4([r EXCEPT !.integAlg = n], w, x, y, n)
  BY DEF Fields4

\* An option's fields are read as they were sent.
LEMMA FieldsAreSet ==
    ASSUME NEW o \in SentForms
    PROVE  FoldLeft(ReadField, NoOption, OptionItems(o)) = o
<1> DEFINE items == OptionItems(o)
           a == <<o.confAlg>>
           b == <<o.integAlg>>
           d == <<o.mode>>
           e == <<4>>
           k == Uint(o.keyLength, 2)
<1>1. o.confAlg \in Below7 /\ o.integAlg \in Below7 /\ o.mode \in Below7 /\ o.keyLength \in Below15
      /\ o = [confAlg |-> o.confAlg, mode |-> o.mode, keyLength |-> o.keyLength, integAlg |-> o.integAlg]
  <2> HIDE DEF items
  <2> QED BY DEF SentForms
<1>2. DerInt(a) = o.confAlg /\ DerInt(b) = o.integAlg /\ DerInt(d) = o.mode /\ DerInt(k) = o.keyLength
  BY <1>1, FixedAreRead, Zenon DEF Below7
<1>3. \A x \in Below7 : x \in Int
  BY DEF Below7
<1>4. \A x \in Below15 : x \in Int
  BY DEF Below15
<1>5. o.confAlg \in Int /\ o.integAlg \in Int /\ o.mode \in Int /\ o.keyLength \in Int
  BY <1>1, <1>3, <1>4, Zenon
<1>6. items[1] = DerItem(16, FALSE, a) /\ items[2] = DerItem(17, FALSE, b) /\ items[3] = DerItem(19, FALSE, d)
      /\ items[4] = DerItem(20, FALSE, e) /\ items[5] = DerItem(21, FALSE, k) /\ DOMAIN items = 1..5
  <2> HIDE DEF a, b, d, e, k
  <2> QED BY DEF OptionItems, a, b, d, e, k
<1> HIDE DEF items, a, b, d, e, k
<1>7. ASSUME NEW v \in ReadForms
      PROVE  /\ ReadField(v, items[1]) = [v EXCEPT !.confAlg = o.confAlg]
             /\ ReadField(v, items[2]) = [v EXCEPT !.integAlg = o.integAlg]
             /\ ReadField(v, items[3]) = [v EXCEPT !.mode = o.mode]
             /\ ReadField(v, items[4]) = v
             /\ ReadField(v, items[5]) = [v EXCEPT !.keyLength = o.keyLength]
  <2>1. ReadField(v, DerItem(16, FALSE, a)) = [v EXCEPT !.confAlg = DerInt(a)]
    BY FieldSets, Zenon
  <2>2. ReadField(v, DerItem(17, FALSE, b)) = [v EXCEPT !.integAlg = DerInt(b)]
    BY FieldSets, Zenon
  <2>3. ReadField(v, DerItem(19, FALSE, d)) = [v EXCEPT !.mode = DerInt(d)]
    BY FieldSets, Zenon
  <2>4. ReadField(v, DerItem(20, FALSE, e)) = v
    BY FieldSets, Zenon
  <2>5. ReadField(v, DerItem(21, FALSE, k)) = [v EXCEPT !.keyLength = DerInt(k)]
    BY FieldSets, Zenon
  <2> QED BY <1>2, <1>6, <2>1, <2>2, <2>3, <2>4, <2>5, Zenon
<1>8. \A v \in ReadForms : \A i \in 1..5 : ReadField(v, items[i]) \in ReadForms
  <2>1. TAKE v \in ReadForms
  <2>2. /\ [v EXCEPT !.confAlg = o.confAlg] \in ReadForms
        /\ [v EXCEPT !.integAlg = o.integAlg] \in ReadForms
        /\ [v EXCEPT !.mode = o.mode] \in ReadForms
        /\ [v EXCEPT !.keyLength = o.keyLength] \in ReadForms
    BY <1>5 DEF ReadForms
  <2>3. \A i \in 1..5 : i = 1 \/ i = 2 \/ i = 3 \/ i = 4 \/ i = 5
    OBVIOUS
  <2> QED BY <1>7, <2>2, <2>3, Zenon
<1>9. NoOption \in ReadForms /\ 5 \in Nat
  BY DEF NoOption, ReadForms
<1>10. PICK p : FieldsTo(p, ReadForms, NoOption, items, 5)
  BY <1>6, <1>8, <1>9, FieldsAre, Zenon
<1>11. /\ p \in [0..5 -> ReadForms] /\ p[0] = NoOption /\ FoldLeft(ReadField, NoOption, items) = p[5]
       /\ \A i \in 1..5 : p[i] = ReadField(p[i - 1], items[i])
  BY <1>10, Zenon DEF FieldsTo
<1>12. /\ p[0] \in ReadForms /\ p[1] \in ReadForms /\ p[2] \in ReadForms /\ p[3] \in ReadForms /\ p[4] \in ReadForms
       /\ p[1] = ReadField(p[0], items[1]) /\ p[2] = ReadField(p[1], items[2]) /\ p[3] = ReadField(p[2], items[3])
       /\ p[4] = ReadField(p[3], items[4]) /\ p[5] = ReadField(p[4], items[5])
  BY <1>11
<1>13. p[1] = [p[0] EXCEPT !.confAlg = o.confAlg] /\ p[2] = [p[1] EXCEPT !.integAlg = o.integAlg]
       /\ p[3] = [p[2] EXCEPT !.mode = o.mode] /\ p[4] = p[3] /\ p[5] = [p[4] EXCEPT !.keyLength = o.keyLength]
  BY <1>7, <1>12, Zenon
<1>f. Fields4(p[0], 0, 0, 0, 0)
  BY <1>11, Zenon DEF NoOption, Fields4
<1>14. Fields4(p[1], o.confAlg, 0, 0, 0)
  <2>1. \A n : Fields4([p[0] EXCEPT !.confAlg = n], n, 0, 0, 0)
    BY <1>f, OneField, Zenon
  <2>2. Fields4([p[0] EXCEPT !.confAlg = o.confAlg], o.confAlg, 0, 0, 0)
    BY <2>1, Zenon
  <2>3. p[1] = [p[0] EXCEPT !.confAlg = o.confAlg]
    BY <1>13, Zenon
  <2> QED BY <2>2, <2>3
<1>15. Fields4(p[2], o.confAlg, 0, 0, o.integAlg)
  <2>1. \A n : Fields4([p[1] EXCEPT !.integAlg = n], o.confAlg, 0, 0, n)
    BY <1>14, OneField, Zenon
  <2>2. Fields4([p[1] EXCEPT !.integAlg = o.integAlg], o.confAlg, 0, 0, o.integAlg)
    BY <2>1, Zenon
  <2>3. p[2] = [p[1] EXCEPT !.integAlg = o.integAlg]
    BY <1>13, Zenon
  <2> QED BY <2>2, <2>3
<1>16. Fields4(p[4], o.confAlg, o.mode, 0, o.integAlg)
  <2>1. \A n : Fields4([p[2] EXCEPT !.mode = n], o.confAlg, n, 0, o.integAlg)
    BY <1>15, OneField, Zenon
  <2>2. Fields4([p[2] EXCEPT !.mode = o.mode], o.confAlg, o.mode, 0, o.integAlg)
    BY <2>1, Zenon
  <2>3. p[4] = [p[2] EXCEPT !.mode = o.mode]
    BY <1>13, Zenon
  <2> QED BY <2>2, <2>3
<1>17. Fields4(p[5], o.confAlg, o.mode, o.keyLength, o.integAlg)
  <2>1. \A n : Fields4([p[4] EXCEPT !.keyLength = n], o.confAlg, o.mode, n, o.integAlg)
    BY <1>16, OneField, Zenon
  <2>2. Fields4([p[4] EXCEPT !.keyLength = o.keyLength], o.confAlg, o.mode, o.keyLength, o.integAlg)
    BY <2>1, Zenon
  <2>3. p[5] = [p[4] EXCEPT !.keyLength = o.keyLength]
    BY <1>13, Zenon
  <2> QED BY <2>2, <2>3
<1>18. p[5] = [confAlg |-> o.confAlg, mode |-> o.mode, keyLength |-> o.keyLength, integAlg |-> o.integAlg]
  BY <1>17, Zenon DEF Fields4
<1> QED BY <1>1, <1>11, <1>18, Zenon DEF items

\* What holds of the records of an option.
OptionReads(o) ==
    /\ Encodes(SentOption(o), DerItem(2, TRUE, FlattenSeq(OptionRecords(o))))
    /\ SentOption(o) \in Seq(Byte)
    /\ ParseDerChildren(FlattenSeq(OptionRecords(o))) = [ok |-> TRUE, items |-> OptionItems(o)]
    /\ Len(OptionItems(o)) = 5 /\ \A j \in 1..5 : OptionItems(o)[j].tag \in 16..22

\* The fields of an option a server sends are read as they were written.
LEMMA OptionIsRead ==
    ASSUME NEW o \in SentForms
    PROVE  OptionReads(o) /\ Len(SentOption(o)) <= 1000
<1> DEFINE recs == OptionRecords(o)
           items == OptionItems(o)
           a == <<o.confAlg>>
           b == <<o.integAlg>>
           d == <<o.mode>>
           e == <<4>>
           k == Uint(o.keyLength, 2)
           Short(c) == c \in Seq(Byte) /\ Len(c) \in 1..4
<1>1. o.confAlg \in Below7 /\ o.integAlg \in Below7 /\ o.mode \in Below7 /\ o.keyLength \in Below15 /\ 4 \in Below7
  <2> HIDE DEF items, recs
  <2> QED BY DEF SentForms, Below7
<1>2. Short(a) /\ Short(b) /\ Short(d) /\ Short(e) /\ Short(k)
  <2>1. 1 \in 1..4 /\ 2 \in 1..4
    OBVIOUS
  <2> QED BY <1>1, <2>1, FixedAreRead, Zenon DEF Below7
<1>3. /\ recs[1] = EncodeDerTLV(16, FALSE, a) /\ recs[2] = EncodeDerTLV(17, FALSE, b)
      /\ recs[3] = EncodeDerTLV(19, FALSE, d) /\ recs[4] = EncodeDerTLV(20, FALSE, e)
      /\ recs[5] = EncodeDerTLV(21, FALSE, k) /\ Len(recs) = 5 /\ recs = [i \in 1..5 |-> recs[i]]
  <2> HIDE DEF a, b, d, e, k
  <2> QED BY DEF OptionRecords, a, b, d, e, k
<1>4. /\ items[1] = DerItem(16, FALSE, a) /\ items[2] = DerItem(17, FALSE, b)
      /\ items[3] = DerItem(19, FALSE, d) /\ items[4] = DerItem(20, FALSE, e)
      /\ items[5] = DerItem(21, FALSE, k) /\ Len(items) = 5 /\ items = [i \in 1..5 |-> items[i]]
  <2> HIDE DEF a, b, d, e, k
  <2> QED BY DEF OptionItems, a, b, d, e, k
<1>s. SentOption(o) = EncodeDerConstructed(2, recs)
  BY Zenon DEF SentOption, OptionRecords
<1> HIDE DEF recs, items, a, b, d, e, k
<1>5. ASSUME NEW tag \in 0..30, NEW c, Short(c)
      PROVE  /\ Encodes(EncodeDerTLV(tag, FALSE, c), DerItem(tag, FALSE, c))
             /\ EncodeDerTLV(tag, FALSE, c) \in Seq(Byte) /\ Len(EncodeDerTLV(tag, FALSE, c)) <= 140
  <2>1. c \in Seq(Byte) /\ Len(c) \in Nat /\ Len(c) <= 4 /\ Len(c) \in Below31
    BY <1>5, ShortIsBelow31, Zenon
  <2>2. Encodes(EncodeDerTLV(tag, FALSE, c), DerItem(tag, FALSE, c))
    BY <2>1, PlainWritten, Zenon
  <2> DEFINE r == EncodeDerTLV(tag, FALSE, c)
  <2>3. FALSE \in BOOLEAN
    OBVIOUS
  <2>4. r \in Seq(Byte) /\ Len(r) \in Nat /\ Len(r) <= 130 + Len(c)
    BY <2>1, <2>3, RecordLength, Zenon
  <2>5. Len(r) <= 140
    <3> HIDE DEF r
    <3> QED BY <2>1, <2>4
  <2> QED BY <2>2, <2>4, <2>5, Zenon
<1>6. 16 \in 0..30 /\ 17 \in 0..30 /\ 19 \in 0..30 /\ 20 \in 0..30 /\ 21 \in 0..30
  OBVIOUS
<1> HIDE DEF Short
<1>7. \A i \in 1..5 : Encodes(recs[i], items[i]) /\ recs[i] \in Seq(Byte) /\ Len(recs[i]) <= 140
  <2>1. \A i \in 1..5 : i = 1 \/ i = 2 \/ i = 3 \/ i = 4 \/ i = 5
    OBVIOUS
  <2>2. Encodes(recs[1], items[1]) /\ recs[1] \in Seq(Byte) /\ Len(recs[1]) <= 140
    BY <1>2, <1>3, <1>4, <1>5, <1>6, Zenon
  <2>3. Encodes(recs[2], items[2]) /\ recs[2] \in Seq(Byte) /\ Len(recs[2]) <= 140
    BY <1>2, <1>3, <1>4, <1>5, <1>6, Zenon
  <2>4. Encodes(recs[3], items[3]) /\ recs[3] \in Seq(Byte) /\ Len(recs[3]) <= 140
    BY <1>2, <1>3, <1>4, <1>5, <1>6, Zenon
  <2>5. Encodes(recs[4], items[4]) /\ recs[4] \in Seq(Byte) /\ Len(recs[4]) <= 140
    BY <1>2, <1>3, <1>4, <1>5, <1>6, Zenon
  <2>6. Encodes(recs[5], items[5]) /\ recs[5] \in Seq(Byte) /\ Len(recs[5]) <= 140
    BY <1>2, <1>3, <1>4, <1>5, <1>6, Zenon
  <2> QED BY <2>1, <2>2, <2>3, <2>4, <2>5, <2>6, Zenon
<1>8. recs \in Seq(Seq(Byte)) /\ 5 \in Nat
  <2>1. recs \in [1..5 -> Seq(Byte)] /\ 5 \in Nat
    BY <1>3, <1>7, Zenon
  <2> QED BY <2>1, FunctionIsSeq, Zenon
<1>l. Len(recs) = 5 /\ items = [i \in 1..5 |-> items[i]] /\ Len(items) = 5
  BY <1>3, <1>4, Zenon
<1>9. Len(FlattenSeq(recs)) \in Nat /\ Len(FlattenSeq(recs)) <= 140 * 5
  <2>1. 140 \in Nat /\ \A i \in 1..5 : Len(recs[i]) <= 140
    BY <1>7
  <2> QED BY <1>8, <1>l, <2>1, FlatLength, Zenon
<1>10. ParseDerChildren(FlattenSeq(recs)) = [ok |-> TRUE, items |-> items]
  <2>1. \A i \in 1..5 : Encodes(recs[i], items[i])
    BY <1>7, Zenon
  <2> QED BY <1>8, <1>l, <2>1, ChildrenAreRead, Zenon
<1>11. Len(FlattenSeq(recs)) \in Below31 /\ 2 \in 0..30
  BY SMT, <1>9 DEF Below31
<1>12. /\ Encodes(SentOption(o), DerItem(2, TRUE, FlattenSeq(recs)))
       /\ SentOption(o) \in Seq(Byte) /\ Len(SentOption(o)) \in Nat
       /\ Len(SentOption(o)) <= 130 + Len(FlattenSeq(recs))
  BY <1>8, <1>11, <1>s, GroupWritten, Zenon
<1>13. Len(SentOption(o)) <= 1000
  BY <1>9, <1>12
<1>14. \A j \in 1..5 : items[j].tag \in 16..22
  <2>1. \A j \in 1..5 : j = 1 \/ j = 2 \/ j = 3 \/ j = 4 \/ j = 5
    OBVIOUS
  <2>2. items[1].tag \in 16..22 /\ items[2].tag \in 16..22 /\ items[3].tag \in 16..22
        /\ items[4].tag \in 16..22 /\ items[5].tag \in 16..22
    BY <1>4 DEF DerItem
  <2> QED BY <2>1, <2>2, Zenon
<1> QED BY <1>10, <1>12, <1>13, <1>14, <1>l, Zenon DEF OptionReads, recs, items

\* How many options there may be for their records' length to be below 2^31.
OptionCounts == {n \in Nat : n < 2000000}

\* The options a server sends are read as it sent them, however many they are
\* (decodeTd2QOPOptions).
THEOREM OptionsAreRead ==
    ASSUME NEW n \in OptionCounts, NEW options \in [1..n -> SentForms]
    PROVE  DecodeTd2QOPOptions(SentOptions(options)) = [ok |-> TRUE, options |-> options]
<1> DEFINE encs == [i \in 1..n |-> SentOption(options[i])]
           item(i) == DerItem(2, TRUE, FlattenSeq(OptionRecords(options[i])))
           items == [i \in 1..n |-> item(i)]
           data == SentOptions(options)
           top == ParseDerTLV(data, 0)
           groups == ParseDerChildren(top.content)
           fields(i) == ParseDerChildren(groups.items[i].content)
<1>0. n \in Nat /\ n < 2000000
  BY SMT DEF OptionCounts
<1>n. n \in Nat
  BY <1>0
<1>1. Len(options) = n
  BY <1>n
<1>2. data = EncodeDerConstructed(1, encs)
  BY <1>1, Zenon DEF SentOptions
<1>3. \A i \in 1..n : options[i] \in SentForms
  OBVIOUS
<1>4. \A i \in 1..n : OptionReads(options[i]) /\ Len(SentOption(options[i])) <= 1000
  BY <1>3, OptionIsRead, Zenon
<1>5. \A i \in 1..n : encs[i] = SentOption(options[i]) /\ items[i] = item(i)
  BY Zenon
<1>6. items = [i \in 1..n |-> items[i]]
  BY Zenon
<1>e. encs = [i \in 1..n |-> encs[i]]
  BY Zenon
<1> HIDE DEF encs, items, data, groups, top
<1>7. encs \in Seq(Seq(Byte)) /\ Len(encs) = n
  <2>1. \A i \in 1..n : encs[i] \in Seq(Byte)
    BY <1>4, <1>5, Zenon DEF OptionReads
  <2>2. encs \in [1..n -> Seq(Byte)]
    BY <1>e, <2>1, Zenon
  <2> QED BY <1>n, <2>2, FunctionIsSeq, Zenon
<1>8. \A i \in 1..n : Encodes(encs[i], items[i])
  BY <1>4, <1>5, Zenon DEF OptionReads
<1>9. ParseDerChildren(FlattenSeq(encs)) = [ok |-> TRUE, items |-> items]
  BY <1>6, <1>7, <1>8, <1>n, ChildrenAreRead, Zenon
<1>10. Len(FlattenSeq(encs)) \in Below31 /\ 1 \in 0..30
  <2>1. \A i \in 1..n : Len(encs[i]) <= 1000
    <3>1. TAKE i \in 1..n
    <3>2. encs[i] = SentOption(options[i])
      BY <1>5, Zenon
    <3>3. Len(SentOption(options[i])) <= 1000
      BY <1>4
    <3> QED BY <3>2, <3>3
  <2> DEFINE L == 1000
  <2>2. L \in Nat /\ \A i \in 1..n : Len(encs[i]) <= L
    BY <2>1
  <2> HIDE DEF L
  <2>3. Len(FlattenSeq(encs)) \in Nat /\ Len(FlattenSeq(encs)) <= L * n
    BY <1>7, <1>n, <2>2, FlatLength, Zenon
  <2> QED BY SMT, <1>0, <2>3 DEF Below31, L
<1>11. top = DerItem(1, TRUE, FlattenSeq(encs))
  <2>1. Encodes(EncodeDerConstructed(1, encs), DerItem(1, TRUE, FlattenSeq(encs)))
    BY <1>7, <1>10, GroupWritten, Zenon
  <2> QED BY <1>2, <2>1, WrittenAlone, Zenon DEF top
<1>12. top.ok = TRUE /\ top.constructed = TRUE /\ top.content = FlattenSeq(encs)
  BY <1>11 DEF DerItem
<1>13. groups = [ok |-> TRUE, items |-> items]
  BY <1>9, <1>12, Zenon DEF groups
<1>14. groups.ok = TRUE /\ groups.items = items /\ Len(items) = n
  <2>1. Len(items) = n
    BY <1>6, <1>n
  <2> QED BY <1>13, <2>1
<1>15. ASSUME NEW i \in 1..n
       PROVE  /\ groups.items[i].constructed = TRUE
              /\ fields(i).ok = TRUE /\ fields(i).items = OptionItems(options[i])
              /\ Len(fields(i).items) = 5 /\ \A j \in 1..5 : fields(i).items[j].tag \in 16..22
              /\ FoldLeft(ReadField, NoOption, fields(i).items) = options[i]
  <2>1. groups.items[i] = item(i)
    BY <1>5, <1>14, Zenon
  <2>2. item(i).constructed = TRUE /\ item(i).content = FlattenSeq(OptionRecords(options[i]))
    BY DEF DerItem
  <2>3. groups.items[i].constructed = TRUE /\ groups.items[i].content = FlattenSeq(OptionRecords(options[i]))
    BY <2>1, <2>2
  <2>4. OptionReads(options[i])
    BY <1>4, Zenon
  <2>5. fields(i) = [ok |-> TRUE, items |-> OptionItems(options[i])]
    BY <2>3, <2>4, Zenon DEF OptionReads
  <2> DEFINE f == fields(i)
  <2>6. f.ok = TRUE /\ f.items = OptionItems(options[i])
    <3> HIDE DEF f
    <3> QED BY <2>5 DEF f
  <2>7. FoldLeft(ReadField, NoOption, OptionItems(options[i])) = options[i]
    BY <1>3, FieldsAreSet, Zenon
  <2> QED BY <2>3, <2>4, <2>6, <2>7, Zenon DEF OptionReads
<1> DEFINE fails == \/ ~top.ok
                    \/ ~top.constructed
                    \/ ~groups.ok
                    \/ \E i \in 1..Len(groups.items) :
                          \/ ~groups.items[i].constructed
                          \/ ~fields(i).ok
                          \/ \E j \in 1..Len(fields(i).items) :
                                fields(i).items[j].tag \notin 16..22
           read == [i \in 1..Len(groups.items) |-> FoldLeft(ReadField, NoOption, fields(i).items)]
<1>16. DecodeTd2QOPOptions(data) = IF fails THEN Failed ELSE [ok |-> TRUE, options |-> read]
  BY Zenon DEF DecodeTd2QOPOptions, top, groups
<1>17. ~fails
  <2>1. Len(groups.items) = n
    BY <1>14, Zenon
  <2> QED BY <1>12, <1>14, <1>15, <2>1, Zenon
<1>18. read = options
  <2>1. Len(groups.items) = n
    BY <1>14, Zenon
  <2>2. read = [i \in 1..n |-> FoldLeft(ReadField, NoOption, fields(i).items)]
    BY <2>1, Zenon
  <2>3. read = [i \in 1..n |-> options[i]]
    BY <1>15, <2>2, Zenon
  <2> HIDE DEF read
  <2> QED BY <2>3
<1> HIDE DEF fails, read
<1> QED BY <1>16, <1>17, <1>18, Zenon DEF data

-----------------------------------------------------------------------------
(* Keys, and the nonces of two messages.                                   *)

\* The shared secret is cut or filled up to the length of the key (normalizeDHSecretLen).
LEMMA SecretIs ==
    ASSUME NEW b \in Seq(Byte), NEW size \in Nat
    PROVE  NormalizeDHSecretLen(b, size) \in Seq(Byte) /\ Len(NormalizeDHSecretLen(b, size)) = size
<1>1. Len(b) \in Nat /\ \A i \in 1..Len(b) : b[i] \in Byte
  BY ElementOfSeq
<1>2. CASE Len(b) > size
  <2> DEFINE s == SubSeq(b, Len(b) - size + 1, Len(b))
  <2>1. Len(b) - size + 1 \in Int /\ Len(b) \in Int /\ \A i \in (Len(b) - size + 1)..Len(b) : b[i] \in Byte
    BY <1>1, <1>2
  <2>2. s \in Seq(Byte) /\ Len(s) = IF Len(b) - size + 1 <= Len(b) THEN Len(b) - (Len(b) - size + 1) + 1 ELSE 0
    BY <2>1, SubSeqProperties
  <2> HIDE DEF s
  <2>3. Len(s) = size
    BY <1>1, <1>2, <2>2
  <2> QED BY <1>2, <2>2, <2>3, Zenon DEF NormalizeDHSecretLen, s
<1>3. CASE ~(Len(b) > size)
  <2> DEFINE z == Repeat(0, size - Len(b))
  <2>1. size - Len(b) \in Nat /\ 0 \in Byte
    BY <1>1, <1>3 DEF Byte
  <2>2. z \in Seq(Byte) /\ Len(z) = size - Len(b)
    BY <2>1, RepeatIs, Zenon
  <2> HIDE DEF z
  <2>3. b \o z \in Seq(Byte) /\ Len(b \o z) = Len(b) + Len(z)
    BY <2>2, ConcatProperties, Zenon
  <2>4. Len(b \o z) = size
    BY <1>1, <2>2, <2>3
  <2> QED BY <1>3, <2>3, <2>4, Zenon DEF NormalizeDHSecretLen, z
<1> QED BY <1>2, <1>3

\* An option whose key ends within the secret has a key of its length (qopKey).
LEMMA KeyIs ==
    ASSUME NEW options, NEW i, NEW master \in Seq(Byte), NEW keyLen \in Nat,
           KeyOffset(options, i) \in Nat, options[i].keyLength \div 8 \in Nat,
           KeyOffset(options, i) + options[i].keyLength \div 8 <= keyLen
    PROVE  /\ QopKey(options, i, master, keyLen).ok
           /\ Len(QopKey(options, i, master, keyLen).key) = options[i].keyLength \div 8
<1> DEFINE secret == NormalizeDHSecretLen(master, keyLen)
           n == options[i].keyLength \div 8
           off == KeyOffset(options, i)
           key == QopKey(options, i, master, keyLen)
<1>1. secret \in Seq(Byte) /\ Len(secret) = keyLen
  BY SecretIs, Zenon
<1>2. key = IF off + n > Len(secret) THEN Failed ELSE [ok |-> TRUE, key |-> At(secret, off, n)]
  BY Zenon DEF QopKey
<1>3. off \in Nat /\ n \in Nat /\ off + n <= keyLen
  OBVIOUS
<1> HIDE DEF secret, n, off, key
<1>4. key = [ok |-> TRUE, key |-> At(secret, off, n)]
  <2>1. ~(off + n > Len(secret))
    BY <1>1, <1>3
  <2> QED BY <1>2, <2>1, Zenon
<1>5. Len(At(secret, off, n)) = n
  <2>1. off + 1 \in Int /\ off + n \in Int /\ \A j \in (off + 1)..(off + n) : secret[j] \in Byte
    <3>1. \A j \in (off + 1)..(off + n) : j \in 1..Len(secret)
      BY <1>1, <1>3
    <3>2. \A j \in 1..Len(secret) : secret[j] \in Byte
      BY <1>1, ElementOfSeq, Zenon
    <3>3. off + 1 \in Int /\ off + n \in Int
      BY <1>3
    <3>4. \A j \in (off + 1)..(off + n) : secret[j] \in Byte
      BY <3>1, <3>2, Zenon
    <3> QED BY <3>3, <3>4, Zenon
  <2> DEFINE from == off + 1
             to == off + n
  <2>2. from \in Int /\ to \in Int /\ from = off + 1 /\ to = off + n
    BY <2>1, Zenon
  <2>3. \A j \in from..to : secret[j] \in Byte
    BY <2>1, Zenon
  <2>4. At(secret, off, n) = SubSeq(secret, from, to)
    BY Zenon DEF At
  <2> HIDE DEF from, to
  <2>5. Len(SubSeq(secret, from, to)) = IF from <= to THEN to - from + 1 ELSE 0
    BY <2>2, <2>3, SubSeqProperties
  <2>6. (IF from <= to THEN to - from + 1 ELSE 0) = n
    BY <1>3, <2>2
  <2> QED BY <2>4, <2>5, <2>6, Zenon
<1>6. key.ok /\ key.key = At(secret, off, n)
  BY <1>4
<1> QED BY <1>5, <1>6, Zenon DEF key, n

\* The keys of the options before one of the first three.
LEMMA OffsetIs ==
    ASSUME NEW options, NEW i \in 1..3, \A j \in 1..2 : j < i => options[j].keyLength \div 8 \in Int
    PROVE  /\ i = 1 => KeyOffset(options, i) = 0
           /\ i = 2 => KeyOffset(options, i) = options[1].keyLength \div 8
           /\ i = 3 => KeyOffset(options, i) = options[1].keyLength \div 8 + options[2].keyLength \div 8
<1> DEFINE s == [j \in 1..i - 1 |-> options[j].keyLength \div 8]
           k(j) == options[j].keyLength \div 8
<1>1. i - 1 \in Nat /\ DOMAIN s = 1..(i - 1) /\ \A j \in 1..(i - 1) : s[j] = k(j) /\ j \in 1..2 /\ j < i
  OBVIOUS
<1>2. KeyOffset(options, i) = SumSeq(s)
  BY Zenon DEF KeyOffset
<1>3. \A j \in 1..2 : j < i => k(j) \in Int
  OBVIOUS
<1> HIDE DEF s, k
<1>4. \A j \in 1..(i - 1) : s[j] \in Int
  BY <1>1, <1>3, Zenon
<1>5. PICK p : SumsTo(p, s, i - 1)
  BY <1>1, <1>4, SumIs, Zenon
<1>6. p[0] = 0 /\ SumSeq(s) = p[i - 1] /\ \A j \in 1..(i - 1) : p[j] = p[j - 1] + s[j]
  BY <1>5, Zenon DEF SumsTo
<1>7. i = 1 => SumSeq(s) = 0
  BY <1>6
<1>8. i = 2 => SumSeq(s) = k(1)
  BY <1>1, <1>3, <1>6
<1>9. i = 3 => SumSeq(s) = k(1) + k(2)
  BY <1>1, <1>3, <1>6
<1> QED BY <1>2, <1>7, <1>8, <1>9, Zenon DEF k

\* Some option of the kind looked for is enough for one to be chosen.
LEMMA ChosenExists ==
    ASSUME NEW options, Len(options) \in Nat, NEW i \in 1..Len(options), IsGcm(options[i])
    PROVE  SelectInSeq(options, IsGcm) # 0
<1> DEFINE U == {j \in 1..Len(options) : IsGcm(options[j])}
           q == SelectInSeq(options, IsGcm)
<1>1. q = IF U # {} THEN Min(U) ELSE 0
  BY Zenon DEF SelectInSeq
<1>2. U # {} /\ U \in SUBSET (1..Len(options))
  BY Zenon
<1> HIDE DEF q
<1>3. Min(U) \in 1..Len(options)
  <2> HIDE DEF U
  <2> QED BY <1>2, SmallestIsOne, Zenon
<1>4. q \in 1..Len(options)
  BY <1>1, <1>2, <1>3, Zenon
<1>5. q # 0
  BY <1>4
<1> QED BY <1>5 DEF q

\* wrap does not fail when it has an option, its key of a length AES takes, and a hash length,
\* whatever the data is.
LEMMA WrapWorks ==
    ASSUME NEW c, NEW data, SelectInSeq(c.options, IsGcm) # 0,
           QopKey(c.options, SelectInSeq(c.options, IsGcm), c.master, c.keyLen).ok,
           Len(QopKey(c.options, SelectInSeq(c.options, IsGcm), c.master, c.keyLen).key) \in AesKeyLengths,
           Td2HmacLen(c.options[SelectInSeq(c.options, IsGcm)].integAlg) # 0
    PROVE  Wrap(c, data).ok
<1> DEFINE q == SelectInSeq(c.options, IsGcm)
           key == QopKey(c.options, q, c.master, c.keyLen)
           hl == Td2HmacLen(c.options[q].integAlg)
           m == Len(data) + 16 + 16 + hl + 16
           nonce == Nonce(m, c.seqNum)
           env == EncodeDerConstructed(0, EnvelopeRecords(Padded(data, nonce), HeaderRecords(q, m, c.seqNum)))
           good == [ok |-> TRUE, key |-> key.key, nonce |-> nonce, envelope |-> env]
<1>1. Wrap(c, data) = IF q = 0 \/ ~key.ok \/ Len(key.key) \notin AesKeyLengths \/ hl = 0 THEN Failed ELSE good
  BY Zenon DEF Wrap, Padded, HeaderRecords, EnvelopeRecords
<1>2. q # 0 /\ key.ok /\ Len(key.key) \in AesKeyLengths /\ hl # 0
  OBVIOUS
<1>3. good.ok
  <2> HIDE DEF key, nonce, env
  <2> QED OBVIOUS
<1> HIDE DEF q, key, hl, good
<1> QED BY <1>1, <1>2, <1>3, Zenon

\* Two messages one after the other have different nonces, whatever their lengths (wrap).
LEMMA NoncesDiffer ==
    ASSUME NEW c, NEW d, Len(c.options) \in Below31, c.seqNum \in Int,
           d.options = c.options, d.seqNum = c.seqNum + 1,
           NEW x, Len(x) \in DataLengths, NEW y, Len(y) \in DataLengths, Wrap(c, x).ok, Wrap(d, y).ok
    PROVE  Wrap(d, y).nonce # Wrap(c, x).nonce
<1>1. PICK m \in Below31 : Wrap(c, x).nonce = Nonce(m, c.seqNum)
  BY WrapIs, Zenon
<1>2. PICK k \in Below31 : Wrap(d, y).nonce = Nonce(k, c.seqNum + 1)
  BY WrapIs, Zenon
<1>3. m \in Int /\ k \in Int /\ c.seqNum + 1 \in Int
  BY SMT DEF Below31
<1>4. Nonce(m, c.seqNum)[12] = c.seqNum % 256 /\ Nonce(k, c.seqNum + 1)[12] = (c.seqNum + 1) % 256
  <2>1. ASSUME NEW j \in Int, NEW s \in Int
        PROVE  Nonce(j, s)[12] = s % 256
    BY NonceIs, Zenon
  <2>2. ASSUME NEW j \in Int, NEW s \in Int, NEW w, w = Nonce(j, s)
        PROVE  w[12] = s % 256
    BY <2>1, <2>2, Zenon
  <2>3. m \in Int /\ k \in Int /\ c.seqNum \in Int /\ c.seqNum + 1 \in Int
    BY <1>3
  <2> DEFINE t == c.seqNum + 1
             r == c.seqNum
  <2>4. t \in Int /\ r \in Int
    BY <2>3
  <2> HIDE DEF t, r
  <2>5. Nonce(m, r)[12] = r % 256
    BY <2>1, <2>3, <2>4, Zenon
  <2>6. Nonce(k, t)[12] = t % 256
    BY <2>1, <2>3, <2>4, Zenon
  <2> QED BY <2>5, <2>6, Zenon DEF t, r
<1>5. \A s \in Int : s % 256 # (s + 1) % 256
  OBVIOUS
<1>6. c.seqNum % 256 # (c.seqNum + 1) % 256
  BY <1>5, Zenon
<1> QED BY <1>1, <1>2, <1>4, <1>6, Zenon

\* What a security context's options have: keys that end within a secret of keyLen bytes, for
\* AES-GCM of lengths it takes, hash lengths, and AES-GCM among them.
Keyed(options, keyLen) ==
    /\ \A i \in 1..Len(options) :
          /\ KeyOffset(options, i) \in Nat /\ options[i].keyLength \div 8 \in Nat
          /\ KeyOffset(options, i) + options[i].keyLength \div 8 <= keyLen
          /\ IsGcm(options[i]) => options[i].keyLength \div 8 \in AesKeyLengths
          /\ Td2HmacLen(options[i].integAlg) # 0
    /\ \E i \in 1..Len(options) : IsGcm(options[i])

\* An option of a form a server sends, whose key is n bytes.
FormOf(o, n) == o \in SentForms /\ o.keyLength \div 8 = n /\ Td2HmacLen(o.integAlg) # 0

\* The AES options of the lists, by their key's length and hash.
Aes256Sha256 == Aes(256, 6)
Aes256Sha512 == Aes(256, 7)
Aes128Sha1 == Aes(128, 4)
Aes128Sha256 == Aes(128, 6)

\* The options of the lists, one by one.
LEMMA FormsAre ==
    /\ FormOf(Blowfish, 16)
    /\ FormOf(Aes256Sha256, 32) /\ IsGcm(Aes256Sha256)
    /\ FormOf(Aes256Sha512, 32)
    /\ FormOf(Aes128Sha1, 16) /\ IsGcm(Aes128Sha1)
    /\ FormOf(Aes128Sha256, 16) /\ IsGcm(Aes128Sha256)
<1>1. \A alg \in {3, 4, 6, 7} : Td2HmacLen(alg) # 0
  BY DEF Td2HmacLen
<1>2. FormOf(Blowfish, 16)
  <2>1. Blowfish \in SentForms /\ Blowfish.keyLength \div 8 = 16 /\ Blowfish.integAlg \in {3, 4, 6, 7}
    BY DEF Blowfish, SentForms, Below7, Below15
  <2> QED BY <1>1, <2>1, Zenon DEF FormOf
<1>3. FormOf(Aes256Sha256, 32) /\ IsGcm(Aes256Sha256)
  <2>1. Aes256Sha256 \in SentForms /\ Aes256Sha256.keyLength \div 8 = 32 /\ Aes256Sha256.integAlg \in {3, 4, 6, 7}
    BY DEF Aes256Sha256, Aes, AES, GCM96, SentForms, Below7, Below15
  <2>2. IsGcm(Aes256Sha256)
    BY DEF Aes256Sha256, Aes, IsGcm
  <2> QED BY <1>1, <2>1, <2>2, Zenon DEF FormOf
<1>4. FormOf(Aes256Sha512, 32)
  <2>1. Aes256Sha512 \in SentForms /\ Aes256Sha512.keyLength \div 8 = 32 /\ Aes256Sha512.integAlg \in {3, 4, 6, 7}
    BY DEF Aes256Sha512, Aes, AES, GCM96, SentForms, Below7, Below15
  <2> QED BY <1>1, <2>1, Zenon DEF FormOf
<1>5. FormOf(Aes128Sha1, 16) /\ IsGcm(Aes128Sha1)
  <2>1. Aes128Sha1 \in SentForms /\ Aes128Sha1.keyLength \div 8 = 16 /\ Aes128Sha1.integAlg \in {3, 4, 6, 7}
    BY DEF Aes128Sha1, Aes, AES, GCM96, SentForms, Below7, Below15
  <2>2. IsGcm(Aes128Sha1)
    BY DEF Aes128Sha1, Aes, IsGcm
  <2> QED BY <1>1, <2>1, <2>2, Zenon DEF FormOf
<1>6. FormOf(Aes128Sha256, 16) /\ IsGcm(Aes128Sha256)
  <2>1. Aes128Sha256 \in SentForms /\ Aes128Sha256.keyLength \div 8 = 16 /\ Aes128Sha256.integAlg \in {3, 4, 6, 7}
    BY DEF Aes128Sha256, Aes, AES, GCM96, SentForms, Below7, Below15
  <2>2. IsGcm(Aes128Sha256)
    BY DEF Aes128Sha256, Aes, IsGcm
  <2> QED BY <1>1, <2>1, <2>2, Zenon DEF FormOf
<1> QED BY <1>2, <1>3, <1>4, <1>5, <1>6, Zenon

\* The option lists the codecs take are of the forms a server sends, and keyed.
LEMMA OptionListsAre ==
    ASSUME NEW options \in OptionLists
    PROVE  /\ \E n \in 1..3 : Len(options) = n /\ options \in [1..n -> SentForms]
           /\ Keyed(options, 64)
<1> DEFINE k(i) == options[i].keyLength \div 8
           fits(i) == KeyOffset(options, i) \in Nat /\ KeyOffset(options, i) + k(i) <= 64
<1>k. 16 \in AesKeyLengths /\ 32 \in AesKeyLengths
  BY DEF AesKeyLengths
<1>o. /\ fits(1) <=> 0 \in Nat /\ 0 + k(1) <= 64
      /\ k(1) \in Int => (fits(2) <=> k(1) \in Nat /\ k(1) + k(2) <= 64)
      /\ k(1) \in Int /\ k(2) \in Int
           => (fits(3) <=> k(1) + k(2) \in Nat /\ k(1) + k(2) + k(3) <= 64)
  <2>1. KeyOffset(options, 1) = 0
    <3>1. 1 \in 1..3 /\ (\A j \in 1..2 : j < 1 => k(j) \in Int)
      OBVIOUS
    <3> QED BY <3>1, OffsetIs, Zenon
  <2>2. k(1) \in Int => KeyOffset(options, 2) = k(1)
    <3>1. 2 \in 1..3 /\ (k(1) \in Int => \A j \in 1..2 : j < 2 => k(j) \in Int)
      <4> HIDE DEF k
      <4> QED OBVIOUS
    <3> QED BY <3>1, OffsetIs, Zenon
  <2>3. k(1) \in Int /\ k(2) \in Int => KeyOffset(options, 3) = k(1) + k(2)
    <3>1. 3 \in 1..3 /\ (k(1) \in Int /\ k(2) \in Int => \A j \in 1..2 : j < 3 => k(j) \in Int)
      <4> HIDE DEF k
      <4> QED OBVIOUS
    <3> QED BY <3>1, OffsetIs, Zenon
  <2> HIDE DEF k
  <2> QED BY <2>1, <2>2, <2>3
<1>1. CASE options = <<Aes256Sha256>>
  <2>1. Len(options) = 1 /\ options[1] = Aes256Sha256
    BY <1>1
  <2>2. FormOf(options[1], 32) /\ IsGcm(options[1])
    <3>1. FormOf(options[1], 32)
      BY <2>1, FormsAre, Zenon
    <3>2. IsGcm(options[1])
      BY <2>1, FormsAre, Zenon
    <3> QED BY <3>1, <3>2, Zenon
  <2>3. /\ options[1] \in SentForms
        /\ k(1) = 32 /\ Td2HmacLen(options[1].integAlg) # 0
    BY <2>2, Zenon DEF FormOf
  <2>4. options \in [1..1 -> SentForms]
    BY <1>1, <2>1, <2>3
  <2> HIDE DEF fits, k
  <2>5. fits(1) /\ k(1) \in Nat
    BY <1>o, <2>3
  <2>7. k(1) \in AesKeyLengths
    BY <1>k, <2>3
  <2>6. /\ \A i \in 1..1 : i = 1
        /\ 1 \in 1..1 /\ 1 \in 1..3
    OBVIOUS
  <2> QED BY <2>1, <2>2, <2>3, <2>4, <2>5, <2>6, <2>7, Zenon DEF Keyed, fits, k
<1>2. CASE options = <<Blowfish, Aes128Sha1>>
  <2>1. Len(options) = 2 /\ options[1] = Blowfish /\ options[2] = Aes128Sha1
    BY <1>2
  <2>2. FormOf(options[1], 16) /\ FormOf(options[2], 16) /\ IsGcm(options[2])
    <3>1. FormOf(options[1], 16)
      BY <2>1, FormsAre, Zenon
    <3>2. FormOf(options[2], 16)
      BY <2>1, FormsAre, Zenon
    <3>3. IsGcm(options[2])
      BY <2>1, FormsAre, Zenon
    <3> QED BY <3>1, <3>2, <3>3, Zenon
  <2>3. /\ options[1] \in SentForms /\ options[2] \in SentForms
        /\ k(1) = 16 /\ Td2HmacLen(options[1].integAlg) # 0
        /\ k(2) = 16 /\ Td2HmacLen(options[2].integAlg) # 0
    BY <2>2, Zenon DEF FormOf
  <2>4. options \in [1..2 -> SentForms]
    BY <1>2, <2>1, <2>3
  <2> HIDE DEF fits, k
  <2>5. fits(1) /\ fits(2) /\ k(1) \in Nat /\ k(2) \in Nat
    BY <1>o, <2>3
  <2>7. k(1) \in AesKeyLengths /\ k(2) \in AesKeyLengths
    BY <1>k, <2>3
  <2>6. /\ \A i \in 1..2 : i = 1 \/ i = 2
        /\ 2 \in 1..2 /\ 2 \in 1..3
    OBVIOUS
  <2> QED BY <2>1, <2>2, <2>3, <2>4, <2>5, <2>6, <2>7, Zenon DEF Keyed, fits, k
<1>3. CASE options = <<Blowfish, Aes256Sha512, Aes128Sha256>>
  <2>1. Len(options) = 3 /\ options[1] = Blowfish /\ options[2] = Aes256Sha512 /\ options[3] = Aes128Sha256
    BY <1>3
  <2>2. FormOf(options[1], 16) /\ FormOf(options[2], 32) /\ FormOf(options[3], 16) /\ IsGcm(options[3])
    <3>1. FormOf(options[1], 16)
      BY <2>1, FormsAre, Zenon
    <3>2. FormOf(options[2], 32)
      BY <2>1, FormsAre, Zenon
    <3>3. FormOf(options[3], 16)
      BY <2>1, FormsAre, Zenon
    <3>4. IsGcm(options[3])
      BY <2>1, FormsAre, Zenon
    <3> QED BY <3>1, <3>2, <3>3, <3>4, Zenon
  <2>3. /\ options[1] \in SentForms /\ options[2] \in SentForms /\ options[3] \in SentForms
        /\ k(1) = 16 /\ Td2HmacLen(options[1].integAlg) # 0
        /\ k(2) = 32 /\ Td2HmacLen(options[2].integAlg) # 0
        /\ k(3) = 16 /\ Td2HmacLen(options[3].integAlg) # 0
    BY <2>2, Zenon DEF FormOf
  <2>4. options \in [1..3 -> SentForms]
    BY <1>3, <2>1, <2>3
  <2> HIDE DEF fits, k
  <2>5. fits(1) /\ fits(2) /\ fits(3) /\ k(1) \in Nat /\ k(2) \in Nat /\ k(3) \in Nat
    BY <1>o, <2>3
  <2>7. k(1) \in AesKeyLengths /\ k(2) \in AesKeyLengths /\ k(3) \in AesKeyLengths
    BY <1>k, <2>3
  <2>6. /\ \A i \in 1..3 : i = 1 \/ i = 2 \/ i = 3
        /\ 3 \in 1..3 /\ 3 \in 1..3
    OBVIOUS
  <2> QED BY <2>1, <2>2, <2>3, <2>4, <2>5, <2>6, <2>7, Zenon DEF Keyed, fits, k
<1>4. options \in {<<Aes256Sha256>>, <<Blowfish, Aes128Sha1>>, <<Blowfish, Aes256Sha512, Aes128Sha256>>}
  BY DEF OptionLists, Aes256Sha256, Aes256Sha512, Aes128Sha1, Aes128Sha256
<1> QED BY <1>1, <1>2, <1>3, <1>4, Zenon

\* A ramp is bytes, as many as asked for.
LEMMA RampIs == \A n \in Nat : Ramp(n) \in Seq(Byte) /\ Len(Ramp(n)) = n
<1>1. TAKE n \in Nat
<1>2. \A i \in 1..n : i % 251 \in Byte
  BY DEF Byte
<1>3. Ramp(n) \in [1..n -> Byte]
  BY <1>2, Zenon DEF Ramp
<1> QED BY <1>3, FunctionIsSeq, Zenon

-----------------------------------------------------------------------------
(* Every message wrapped.                                                  *)

\* A security context the two sides hold.
SecurityContext(options, master, keyLen, seqNum) ==
    [options |-> options, master |-> master, keyLen |-> keyLen, seqNum |-> seqNum]

\* Its fields, and those of the contexts that differ in the sequence number only.
LEMMA ContextsAre ==
    ASSUME NEW options, NEW master, NEW keyLen, NEW seqNum, NEW c, NEW t,
           c = SecurityContext(options, master, keyLen, seqNum)
    PROVE  /\ c.options = options /\ c.master = master /\ c.keyLen = keyLen /\ c.seqNum = seqNum
           /\ [c EXCEPT !.seqNum = t] = SecurityContext(options, master, keyLen, t)
           /\ NextSeqNum(c) = SecurityContext(options, master, keyLen, seqNum + 1)
BY DEF SecurityContext, NextSeqNum

\* A message is wrapped under any keyed options, whatever the sequence number and the data are.
LEMMA KeyedWraps ==
    ASSUME NEW options, Len(options) \in Nat, NEW master \in Seq(Byte), NEW keyLen \in Nat,
           Keyed(options, keyLen), NEW seqNum, NEW c, NEW data,
           c = SecurityContext(options, master, keyLen, seqNum)
    PROVE  Wrap(c, data).ok
<1> DEFINE q == SelectInSeq(options, IsGcm)
<1>1. c.options = options /\ c.master = master /\ c.keyLen = keyLen
  BY DEF SecurityContext
<1>2. q # 0
  BY ChosenExists, Zenon DEF Keyed
<1>3. q \in 1..Len(options) /\ IsGcm(options[q])
  BY <1>2, ChosenIs, Zenon
<1> HIDE DEF q
<1>4. \A i \in 1..Len(options) :
         /\ QopKey(options, i, master, keyLen).ok
         /\ IsGcm(options[i]) => Len(QopKey(options, i, master, keyLen).key) \in AesKeyLengths
         /\ Td2HmacLen(options[i].integAlg) # 0
  BY KeyIs, Zenon DEF Keyed
<1>5. q = SelectInSeq(c.options, IsGcm)
  BY <1>1, Zenon DEF q
<1>6. /\ QopKey(c.options, q, c.master, c.keyLen).ok /\ Td2HmacLen(c.options[q].integAlg) # 0
      /\ Len(QopKey(c.options, q, c.master, c.keyLen).key) \in AesKeyLengths
  BY <1>1, <1>3, <1>4, Zenon
<1> QED BY <1>2, <1>5, <1>6, WrapWorks, Zenon

\* Numbers below 2^31, a sequence number and the length of a message's data.
LEMMA CodecInputs ==
    /\ \A s \in SeqNums : s \in Below31
    /\ \A n \in DataSizes : n \in Nat /\ n \in DataLengths
    /\ 0 \in DataLengths
<1>1. \A s \in Nat : s \div 16777216 < 128 => s < 128 * 16777216
  BY SMT
<1>2. \A s \in Nat : s \div 16777216 < 64 => s < 64 * 16777216
  BY SMT
<1>3. \A s \in SeqNums : s \in Below31
  BY SMT, <1>1, SeqNumsAssumption DEF Below31, Shift
<1>4. \A n \in DataSizes : n \in Nat /\ n \in DataLengths
  BY SMT, <1>2, DataSizesAssumption DEF DataLengths, Shift
<1>5. 0 \in DataLengths
  BY SMT DEF DataLengths
<1> QED BY <1>3, <1>4, <1>5, Zenon

\* What must become of a message wrapped in a security context.
RoundTrips(c, data) ==
    /\ DecodeTd2QOPOptions(SentOptions(c.options)) = [ok |-> TRUE, options |-> c.options]
    /\ \A i \in 1..Len(c.options) :
          Len(QopKey(c.options, i, c.master, c.keyLen).key) = c.options[i].keyLength \div 8
    /\ Wrap(c, data).ok
    /\ Unwrap([c EXCEPT !.seqNum = 1], Wrap(c, data).envelope, Wrap(c, data))
         = [ok |-> TRUE, data |-> data]
    /\ \A next \in Seq(Byte) :
          Len(next) \in DataLengths => Wrap(NextSeqNum(c), next).nonce # Wrap(c, data).nonce

\* Whatever options a server sends, as long as their keys fit the secret and AES-GCM is among
\* them, and whatever the secret, the sequence number and the data are: the options are read as
\* they were sent, the message wrapped is unwrapped to the same bytes by a peer that is at another
\* sequence number, and the next message has another nonce (decodeTd2QOPOptions, qopKey, wrap,
\* unwrap).
THEOREM ContextsRoundTrip ==
    ASSUME NEW n \in OptionCounts, NEW options \in [1..n -> SentForms],
           NEW master \in Seq(Byte), NEW keyLen \in Nat, Keyed(options, keyLen),
           NEW seqNum \in Below31, NEW data \in Seq(Byte), Len(data) \in DataLengths,
           NEW c, c = SecurityContext(options, master, keyLen, seqNum)
    PROVE  RoundTrips(c, data)
<1> DEFINE u == [c EXCEPT !.seqNum = 1]
           d == NextSeqNum(c)
<1>1. n \in Nat /\ n \in Below31
  BY SMT DEF OptionCounts, Below31
<1>2. Len(options) = n /\ Len(options) \in Nat
  BY <1>1
<1>3. seqNum \in Int /\ seqNum + 1 \in Int
  BY SMT DEF Below31
<1>4. c.options = options /\ c.master = master /\ c.keyLen = keyLen /\ c.seqNum = seqNum
  BY DEF SecurityContext
<1>5. u.options = c.options /\ u.master = c.master /\ u.keyLen = c.keyLen
  <2>1. u = SecurityContext(options, master, keyLen, 1)
    BY DEF SecurityContext
  <2> HIDE DEF u
  <2>2. u.options = options /\ u.master = master /\ u.keyLen = keyLen
    BY <2>1 DEF SecurityContext
  <2> QED BY <1>4, <2>2, Zenon
<1>6. d = SecurityContext(options, master, keyLen, seqNum + 1)
  BY DEF SecurityContext, NextSeqNum
<1> HIDE DEF u, d
<1>7. d.options = options /\ d.seqNum = seqNum + 1
  BY <1>6 DEF SecurityContext
<1>8. DecodeTd2QOPOptions(SentOptions(c.options)) = [ok |-> TRUE, options |-> c.options]
  BY <1>4, OptionsAreRead, Zenon
<1>9. /\ Wrap(c, data).ok
      /\ \A i \in 1..Len(c.options) :
            Len(QopKey(c.options, i, c.master, c.keyLen).key) = c.options[i].keyLength \div 8
  <2>1. c = SecurityContext(options, master, keyLen, seqNum)
    OBVIOUS
  <2>2. Wrap(c, data).ok
    BY <1>2, <2>1, KeyedWraps, Zenon
  <2>3. \A i \in 1..Len(c.options) :
           Len(QopKey(c.options, i, c.master, c.keyLen).key) = c.options[i].keyLength \div 8
    <3>1. \A i \in 1..Len(options) :
             Len(QopKey(options, i, master, keyLen).key) = options[i].keyLength \div 8
      BY KeyIs, Zenon DEF Keyed
    <3> QED BY <1>4, <3>1, Zenon
  <2> QED BY <2>2, <2>3, Zenon
<1>10. \A next : Wrap(d, next).ok
  BY <1>1, <1>2, <1>6, KeyedWraps, Zenon
<1>11. Unwrap(u, Wrap(c, data).envelope, Wrap(c, data)) = [ok |-> TRUE, data |-> data]
  <2>1. Len(c.options) \in Below31 /\ c.seqNum \in Below31
    BY <1>1, <1>2, <1>4, Zenon
  <2>2. data \in Seq(Byte) /\ Len(data) \in DataLengths /\ Wrap(c, data).ok
    BY <1>9, Zenon
  <2> QED BY <1>5, <2>1, <2>2, WrapIsUndone, Zenon
<1>12. ASSUME NEW next \in Seq(Byte), Len(next) \in DataLengths
       PROVE  Wrap(d, next).nonce # Wrap(c, data).nonce
  <2>1. Len(c.options) \in Below31 /\ c.seqNum \in Int /\ d.options = c.options
    BY <1>1, <1>2, <1>3, <1>4, <1>7, Zenon
  <2>2. d.seqNum = c.seqNum + 1
    BY <1>4, <1>7, Zenon
  <2> QED BY <1>9, <1>10, <1>12, <2>1, <2>2, NoncesDiffer, Zenon
<1> QED BY <1>8, <1>9, <1>11, <1>12, Zenon DEF RoundTrips, u, d

\* The contexts and data the messages are wrapped with.
WrapInputs ==
    Is("wrap") =>
        /\ input.x.options \in OptionLists /\ input.x.keyLen = 64
        /\ input.x.seqNum \in SeqNums
        /\ \E n \in Nat : input.x.master = Ramp(n)
        /\ \E n \in DataSizes : input.x.data = Ramp(n)

\* Only Secure leads to a message to be wrapped.
LEMMA OnlySecure ==
    ASSUME Next, Is("wrap")'
    PROVE  Secure
<1> DEFINE others == {"message", "options", "features", "mechanism", "status", "items",
                      "number", "decimal", "params", "layout", "loadrow", "dsn"}
           Taken == \E codec \in others : \E x : Take(codec, x)
<1>1. ~Taken
  <2>1. ASSUME NEW codec \in others, NEW x, Take(codec, x) PROVE ~Is("wrap")'
    BY <2>1 DEF Take, Is
  <2> QED BY <2>1, Zenon
<1>2. Send \/ Negotiate \/ Configure \/ Describe \/ Inform => Taken
  <2>1. Send => \E x : Take("message", x)
    BY Zenon DEF Send
  <2>2. Negotiate => \E x : Take("options", x)
    BY DEF Negotiate
  <2>3. Configure => \E x : Take("features", x)
    BY Zenon DEF Configure
  <2>4. Describe => (\E x : Take("mechanism", x)) \/ (\E x : Take("status", x))
    BY Zenon DEF Describe
  <2>5. Inform => \E x : Take("items", x)
    BY Zenon DEF Inform
  <2> QED BY <2>1, <2>2, <2>3, <2>4, <2>5, Zenon
<1>3. EncodeNum \/ Decimal \/ Bind => Taken
  <2>1. EncodeNum => \E x : Take("number", x)
    BY Zenon DEF EncodeNum
  <2>2. Decimal => \E x : Take("decimal", x)
    BY Zenon DEF Decimal
  <2>3. Bind => \E x : Take("params", x)
    BY Zenon DEF Bind
  <2> QED BY <2>1, <2>2, <2>3, Zenon
<1>4. LayOut \/ AddRow \/ Configured => Taken
  <2>1. LayOut => \E x : Take("layout", x)
    BY Zenon DEF LayOut
  <2>2. AddRow => \E x : Take("loadrow", x)
    BY Zenon DEF AddRow
  <2>3. Configured => \E x : Take("dsn", x)
    BY Zenon DEF Configured
  <2> QED BY <2>1, <2>2, <2>3, Zenon
<1>5. ~Finish
  <2>1. Finish => input' = NoInput
    BY Zenon DEF Finish
  <2>2. input' = NoInput => ~Is("wrap")'
    BY DEF NoInput, Is
  <2> QED BY <2>1, <2>2, Zenon
<1> HIDE DEF Taken
<1> QED BY <1>1, <1>2, <1>3, <1>4, <1>5, Zenon DEF Next

\* Every message the codecs wrap round-trips: its options are read, its keys have their length,
\* the peer unwraps the same bytes and the next message's nonce is another (wrap, unwrap).
THEOREM WrapAlwaysRoundTrips == Spec => []WrapRoundTrips
<1>1. Init => WrapInputs
  BY DEF Init, NoInput, WrapInputs, Is
<1>2. WrapInputs /\ [Next]_input => WrapInputs'
  <2>1. SUFFICES ASSUME WrapInputs, Next, Is("wrap")'
                 PROVE  /\ input'.x.options \in OptionLists /\ input'.x.keyLen = 64
                        /\ input'.x.seqNum \in SeqNums
                        /\ \E n \in Nat : input'.x.master = Ramp(n)
                        /\ \E n \in DataSizes : input'.x.data = Ramp(n)
    BY Zenon DEF WrapInputs, Is
  <2>2. Secure
    BY <2>1, OnlySecure, Zenon
  <2>3. PICK options \in OptionLists, seqNum \in SeqNums, n \in DataSizes, secret \in {60, 64, 70} :
          Take("wrap", [options |-> options, master |-> Ramp(secret),
                        keyLen |-> 64, seqNum |-> seqNum, data |-> Ramp(n)])
    BY <2>2, Zenon DEF Secure
  <2>4. /\ input'.x.options = options /\ input'.x.keyLen = 64 /\ input'.x.seqNum = seqNum
        /\ input'.x.master = Ramp(secret) /\ input'.x.data = Ramp(n)
    BY <2>3 DEF Take
  <2>5. secret \in Nat
    BY <2>3
  <2> QED BY <2>4, <2>5, Zenon
<1>3. WrapInputs => WrapRoundTrips
  <2>1. SUFFICES ASSUME WrapInputs, Is("wrap") PROVE WrapRoundTrips
    BY Zenon DEF WrapRoundTrips
  <2> DEFINE c == [options |-> input.x.options, master |-> input.x.master,
                   keyLen |-> input.x.keyLen, seqNum |-> input.x.seqNum]
             data == input.x.data
             options == input.x.options
  <2>2. c = SecurityContext(options, input.x.master, input.x.keyLen, input.x.seqNum)
    BY Zenon DEF SecurityContext
  <2>3. options \in OptionLists /\ input.x.keyLen = 64 /\ input.x.seqNum \in SeqNums
    BY <2>1, Zenon DEF WrapInputs
  <2>4. data \in Seq(Byte) /\ Len(data) \in DataLengths
    <3>1. PICK n \in DataSizes : data = Ramp(n)
      BY <2>1, Zenon DEF WrapInputs
    <3> QED BY <3>1, RampIs, CodecInputs, Zenon
  <2>5. input.x.master \in Seq(Byte) /\ input.x.seqNum \in Below31
    <3>1. PICK n \in Nat : input.x.master = Ramp(n)
      BY <2>1, Zenon DEF WrapInputs
    <3> QED BY <2>3, <3>1, RampIs, CodecInputs, Zenon
  <2>6. PICK n \in 1..3 : Len(options) = n /\ options \in [1..n -> SentForms]
    BY <2>3, OptionListsAre, Zenon
  <2>7. n \in OptionCounts
    BY SMT DEF OptionCounts
  <2>8. input.x.keyLen \in Nat /\ Keyed(options, input.x.keyLen)
    <3>1. 64 \in Nat /\ Keyed(options, 64)
      BY <2>3, OptionListsAre
    <3> QED BY <2>3, <3>1, Zenon
  <2>9. c.options = options
    OBVIOUS
  <2> HIDE DEF c, data, options
  <2>10. RoundTrips(c, data)
    BY <2>2, <2>4, <2>5, <2>6, <2>7, <2>8, ContextsRoundTrip, Zenon
  <2>11. \A n2 \in {0, Len(data)} : Wrap(NextSeqNum(c), Ramp(n2)).nonce # Wrap(c, data).nonce
    <3>1. TAKE n2 \in {0, Len(data)}
    <3>2. n2 \in Nat /\ n2 \in DataLengths
      <4>1. Len(data) \in Nat /\ 0 \in Nat
        BY <2>4
      <4> QED BY <2>4, <3>1, <4>1, CodecInputs, Zenon
    <3>3. Ramp(n2) \in Seq(Byte) /\ Len(Ramp(n2)) \in DataLengths
      BY <3>2, RampIs, Zenon
    <3> QED BY <2>10, <3>3, Zenon DEF RoundTrips
  <2> DEFINE w == Wrap(c, data)
  <2>12. /\ DecodeTd2QOPOptions(SentOptions(c.options)) = [ok |-> TRUE, options |-> c.options]
         /\ \A i \in 1..Len(c.options) :
               Len(QopKey(c.options, i, c.master, c.keyLen).key) = c.options[i].keyLength \div 8
         /\ w.ok
         /\ Unwrap([c EXCEPT !.seqNum = 1], w.envelope, w) = [ok |-> TRUE, data |-> data]
         /\ \A n2 \in {0, Len(data)} : Wrap(NextSeqNum(c), Ramp(n2)).nonce # w.nonce
    BY <2>10, <2>11, Zenon DEF RoundTrips
  <2> HIDE DEF w
  <2>13. w = Wrap(c, data)
    BY Zenon DEF w
  <2>14. \A w2 \in {Wrap(c, data)} : w2 = w
    BY <2>13, Zenon
  <2> QED BY <2>12, <2>14, Zenon DEF WrapRoundTrips, c, data
<1> QED BY <1>1, <1>2, <1>3, PTL DEF Spec
=============================================================================
