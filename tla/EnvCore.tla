------------------------------- MODULE EnvCore -------------------------------
(***************************************************************************)
(* The environment variables of env.c and lib/env_core.c, and their copy   *)
(* in the nvram, one `name=value' line after the other.                    *)
(*                                                                         *)
(* What comes back from the nvram depends on where lines begin and end, so *)
(* a text is a sequence of characters; a character is <<word, position>>,  *)
(* and only equality and length of texts matter.                           *)
(***************************************************************************)
EXTENDS Integers, Sequences, SequencesExt

CONSTANTS Words,        \* names and values of variables
          Size,         \* length of each word
          Number,       \* what strtoul(word, NULL, 16) returns
          MaxLen,       \* sizeof(env_ram)
          MaxKeySize    \* MAX_KEY_SIZE

ASSUME EnvAssumption ==
    /\ Size \in [Words -> Nat \ {0}] /\ Number \in [Words -> Nat]
    /\ MaxLen \in Nat \ {0} /\ MaxKeySize \in Nat \ {0}

EQ == <<"=", 0>>
NL == <<"newline", 0>>
NUL == <<"nul", 0>>

Text(w) == [i \in 1 .. Size[w] |-> <<w, i>>]
EmptyRam == [p \in 1 .. MaxLen |-> NUL]

\* env_find: the place of a variable
Find(env, name) == SelectInSeq(env, LAMBDA e : e.name = name)

EnvSet(env, name, value, overwrite) ==
    LET i == Find(env, name) IN
    IF i = 0 THEN Append(env, [name |-> name, value |-> value])
    ELSE IF overwrite THEN [env EXCEPT ![i].value = value]
    ELSE env

EnvUnset(env, name) == SelectSeq(env, LAMBDA e : e.name # name)

EnvStreq(env, name, value) ==
    LET i == Find(env, name) IN i # 0 /\ env[i].value = value

\* A value that is no number, or no value at all, counts as 0.
EnvGetul(env, name) ==
    LET i == Find(env, name) IN
    IF i # 0 /\ \E w \in Words : env[i].value = Text(w)
    THEN Number[CHOOSE w \in Words : env[i].value = Text(w)]
    ELSE 0

\* env_setint: the number as a text (base 16)
EnvSetint(env, name, n) ==
    EnvSet(env, name, Text(CHOOSE w \in Words : Number[w] = n /\ Size[w] = 1), TRUE)

----------------------------------------------------------------------------
\* strchr from position o: it stops at the end of the text.
StrChr(ram, o, c) ==
    LET S == {p \in o .. MaxLen : ram[p] \in {c, NUL}} IN
    IF S = {} \/ ram[Min(S)] = NUL THEN 0 ELSE Min(S)

\* env_ram_readline, called until it fails: the lines from position o on.
ReadLines(ram) ==
    LET from[o \in 1 .. MaxLen + 1] ==
          LET eq == StrChr(ram, o, EQ)
              nl == IF eq = 0 THEN 0 ELSE StrChr(ram, eq, NL)
          IN IF nl = 0 \/ eq - o > MaxKeySize \/ nl >= MaxLen THEN <<>>
             ELSE <<[name |-> SubSeq(ram, o, eq - 1), value |-> SubSeq(ram, eq + 1, nl - 1)]>>
                  \o from[nl + 1]
    IN from[1]

\* Mutant: a line found later in the nvram replaces an earlier one.
EnvLoadLast(ram) ==
    LET lines == ReadLines(ram) IN
    FlattenSeq([i \in DOMAIN lines |->
        IF \E j \in i + 1 .. Len(lines) : lines[j].name = lines[i].name THEN <<>> ELSE <<lines[i]>>])

\* env_load_ram: env_set with overwrite 0 for every line, so the first line of
\* a name counts.
EnvLoad(ram) ==
    LET lines == ReadLines(ram) IN
    FlattenSeq([i \in DOMAIN lines |->
        IF \E j \in 1 .. i - 1 : lines[j].name = lines[i].name THEN <<>> ELSE <<lines[i]>>])

\* env_flush_ram: the lines over what was there; what is behind them stays.
Lines(env) == FlattenSeq([i \in DOMAIN env |-> env[i].name \o <<EQ>> \o env[i].value \o <<NL>>])
EnvFlush(env, ram) ==
    LET text == Lines(env) IN
    SubSeq(text \o SubSeq(ram, Len(text) + 1, MaxLen), 1, MaxLen)
=============================================================================
