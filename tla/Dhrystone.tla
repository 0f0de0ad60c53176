----------------------------- MODULE Dhrystone ------------------------------
(***************************************************************************)
(* The Dhrystone benchmark as the repository builds it                     *)
(* (dhrystone/dhry_1.c, dhry_2.c) with its own library (stdlib.c, StdLib). *)
(*                                                                         *)
(* g holds the globals and the two heap records, l the locals of main, mem *)
(* the bytes of the string buffers and literals.  A procedure is a function*)
(* on g; main takes a step per statement group.  Where the compiler puts   *)
(* the buffers, what is in them and in fresh records, and what the strings *)
(* say after their first letters are free: the program must not care.      *)
(***************************************************************************)
EXTENDS Integers, Sequences, StdLib

CONSTANTS
    Number_Of_Runs,   \* 100 in the source
    Offsets,          \* places of a buffer relative to a word
    Texts,            \* what follows the common first letters of the strings
    Garbage,          \* memory nobody wrote holds its address plus one of these
    Times, Insns      \* cycles and instructions the measured loop may take

ASSUME RunsPositive == Number_Of_Runs \in Nat \ {0}

VARIABLES pc, g, l, mem, layout, heap_memory_used, printed

vars == <<pc, g, l, mem, layout, heap_memory_used, printed>>

Ident_1 == 0
Ident_2 == 1
Ident_3 == 2
Ident_4 == 3
Ident_5 == 4
Null == 0
A == 65
B == 66
C == 67
W == 87
Z == 90

-----------------------------------------------------------------------------
(* The strings: "DHRYSTONE PROGRAM, ..." is four letters and a text.       *)

Room == 16
Buffers == [Str_1 |-> 1, Str_2 |-> 2, Str_Comp |-> 3, First |-> 4, Second |-> 5,
            Third |-> 6, Some |-> 7]
Place(name) == (Room * Buffers[name]) + layout.at[name]
Letters == <<68, 72, 82, 89>>
Literal(name) == Letters \o layout.text[name] \o <<0>>
StringAt(m, a) ==
    LET n == Min({Room} \cup {i \in 0 .. Room - 1 : m[a + i] = 0}) IN [i \in 1 .. n |-> m[a + i - 1]]

-----------------------------------------------------------------------------
(* dhry_2.c and the procedures of dhry_1.c.  A reference to an integer is  *)
(* the value the call leaves in it.                                        *)

Func_3(e) == e = Ident_3
Proc_6(e) ==
    LET first == IF Func_3(e) THEN e ELSE Ident_4
    IN  CASE e = Ident_1 -> Ident_1
          [] e = Ident_2 -> IF g.Int_Glob > 100 THEN Ident_1 ELSE Ident_4
          [] e = Ident_3 -> Ident_2
          [] e = Ident_5 -> Ident_3
          [] OTHER -> first

\* Mutant: one of the two additions is lost.
Proc_7WithoutTwo(i, j) == j + i
Proc_7(i, j) == j + (i + 2)

\* Cells of the arrays that hold zero are left out.
Cells(arr, k) == IF k \in DOMAIN arr THEN arr[k] ELSE 0
Store(arr, k, v) == [x \in DOMAIN arr \cup {k} |-> IF x = k THEN v ELSE arr[x]]

Proc_8(h, i, j) ==
    LET loc == i + 5
        one == Store(Store(Store(h.Arr_1, loc, j), loc + 1, j), loc + 30, loc)
        two == Store(Store(h.Arr_2, <<loc, loc>>, loc), <<loc, loc + 1>>, loc)
        three == Store(two, <<loc, loc - 1>>, Cells(two, <<loc, loc - 1>>) + 1)
    IN  [h EXCEPT !.Arr_1 = one, !.Arr_2 = Store(three, <<loc + 20, loc>>, one[loc]),
                  !.Int_Glob = 5]

Func_1(ch1, ch2) == IF ch1 # ch2 THEN Ident_1 ELSE Ident_2
\* Two equal characters leave their mark.
Func_1_Glob(h, ch1, ch2) == IF ch1 # ch2 THEN h ELSE [h EXCEPT !.Ch_1_Glob = ch1]

\* The loop ends only if the characters it compares differ: it always compares
\* the same two.  Ch_Loc is 'A' from then on.
Func_2_Ends(m, s1, s2) == Func_1(m[s1 + 2], m[s2 + 3]) = Ident_1
Func_2(m, s1, s2) == strcmp(m, s1, s2) > 0
Func_2_Glob(h, m, s1, s2) ==
    IF Func_2(m, s1, s2) THEN [h EXCEPT !.Int_Glob = 3 + 7] ELSE h

Proc_3(h) ==
    [comp |-> h.rec[h.Ptr_Glob].Ptr_Comp,
     glob |-> [h EXCEPT !.rec[h.Ptr_Glob].Int_Comp = Proc_7(10, h.Int_Glob)]]

\* The else branch, *Ptr_Val_Par = *Ptr_Val_Par->Ptr_Comp, is in Proc_1Other.
Proc_1Other(h, p) == [h EXCEPT !.rec[p] = h.rec[h.rec[p].Ptr_Comp]]
Proc_1(h, p) ==
    LET next == h.rec[p].Ptr_Comp
        copied == [h EXCEPT !.rec[next] = h.rec[h.Ptr_Glob]]
        five == [copied EXCEPT !.rec[p].Int_Comp = 5]
        linked == [five EXCEPT !.rec[next].Int_Comp = 5,
                               !.rec[next].Ptr_Comp = five.rec[p].Ptr_Comp]
        three == [Proc_3(linked).glob EXCEPT !.rec[next].Ptr_Comp = Proc_3(linked).comp]
    IN  IF three.rec[next].Discr # Ident_1 THEN Proc_1Other(three, p)
        ELSE [three EXCEPT !.rec[next] =
                [@ EXCEPT !.Enum_Comp = Proc_6(three.rec[p].Enum_Comp),
                          !.Ptr_Comp = three.rec[three.Ptr_Glob].Ptr_Comp,
                          !.Int_Comp = Proc_7(6, 10)]]

\* Proc_2 loops for ever, reading an unset Enum_Loc, unless Ch_1_Glob is 'A'.
Proc_2_Ends == g.Ch_1_Glob = A
Proc_2(i) == (i + 10 - 1) - g.Int_Glob

Proc_4(h) ==
    [h EXCEPT !.Bool_Glob = h.Ch_1_Glob = A \/ @, !.Ch_2_Glob = B]
Proc_5(h) == [h EXCEPT !.Ch_1_Glob = A, !.Bool_Glob = FALSE]

-----------------------------------------------------------------------------
(* main                                                                    *)

sizeof_Rec_Type == 48
HeapBase == 4096
Fresh == [Ptr_Comp |-> Null, Discr |-> Ident_5, Enum_Comp |-> Ident_5,
          Int_Comp |-> 99, Str_Comp |-> <<>>]

Step(from, to) == pc = from /\ pc' = to
Quiet == UNCHANGED <<mem, layout, heap_memory_used, printed>>

Allocate ==
    /\ Step("init", "loop")
    /\ LET first == malloc(heap_memory_used, sizeof_Rec_Type)
           second == malloc(first.used, sizeof_Rec_Type)
           next == HeapBase + first.offset
           glob == HeapBase + second.offset
       IN  /\ ~second.ebreak
           /\ heap_memory_used' = second.used
           /\ mem' = strcpy(strcpy(mem, Place("Str_Comp"), Place("Some")),
                            Place("Str_1"), Place("First"))
           /\ g' = [g EXCEPT
                 !.Next_Ptr_Glob = next, !.Ptr_Glob = glob,
                 !.Arr_2 = Store(@, <<8, 7>>, 10),
                 !.rec = [p \in {next, glob} |-> IF p = next THEN Fresh
                          ELSE [Ptr_Comp |-> next, Discr |-> Ident_1,
                                Enum_Comp |-> Ident_3, Int_Comp |-> 40,
                                Str_Comp |-> StringAt(mem', Place("Str_Comp"))]]]
    /\ UNCHANGED <<l, layout, printed>>

LoopHead ==
    /\ \/ l.Run_Index <= Number_Of_Runs /\ Step("loop", "func2")
       \/ l.Run_Index > Number_Of_Runs /\ Step("loop", "report")
    /\ IF pc' = "report" THEN UNCHANGED <<g, l, mem>>
       ELSE /\ g' = Proc_4(Proc_5(g))
            /\ l' = [l EXCEPT !.Int_1 = 2, !.Int_2 = 3, !.Enum = Ident_2]
            /\ mem' = strcpy(mem, Place("Str_2"), Place("Second"))
    /\ UNCHANGED <<layout, heap_memory_used, printed>>

CallFunc2 ==
    /\ Step("func2", "while")
    /\ Func_2_Ends(mem, Place("Str_1"), Place("Str_2"))
    /\ g' = [Func_2_Glob(g, mem, Place("Str_1"), Place("Str_2")) EXCEPT
               !.Bool_Glob = ~Func_2(mem, Place("Str_1"), Place("Str_2"))]
    /\ UNCHANGED l /\ Quiet

While ==
    /\ \/ /\ l.Int_1 < l.Int_2 /\ Step("while", "while")
          /\ l' = [l EXCEPT !.Int_3 = Proc_7(l.Int_1, l.Int_2), !.Int_1 = @ + 1]
          /\ UNCHANGED g
       \/ /\ l.Int_1 >= l.Int_2 /\ Step("while", "for")
          /\ g' = Proc_1(Proc_8(g, l.Int_1, l.Int_3), g.Ptr_Glob)
          /\ l' = [l EXCEPT !.Ch_Index = A]
    /\ Quiet

\* The body of the if is not executed: no letter up to Ch_2_Glob is a 'C'.
For ==
    /\ \/ /\ l.Ch_Index <= g.Ch_2_Glob /\ Step("for", "for")
          /\ g' = Func_1_Glob(IF l.Enum = Func_1(l.Ch_Index, C)
                              THEN [g EXCEPT !.Int_Glob = l.Run_Index] ELSE g,
                              l.Ch_Index, C)
          /\ IF l.Enum = Func_1(l.Ch_Index, C)
             THEN /\ l' = [l EXCEPT !.Enum = Proc_6(Ident_1), !.Int_2 = l.Run_Index,
                                    !.Ch_Index = @ + 1]
                  /\ mem' = strcpy(mem, Place("Str_2"), Place("Third"))
             ELSE /\ l' = [l EXCEPT !.Ch_Index = @ + 1]
                  /\ UNCHANGED mem
       \/ /\ l.Ch_Index > g.Ch_2_Glob /\ Step("for", "proc2")
          /\ LET two == l.Int_2 * l.Int_1
                 one == two \div l.Int_3
             IN  l' = [l EXCEPT !.Int_1 = one, !.Int_2 = (7 * (two - l.Int_3)) - one]
          /\ UNCHANGED <<g, mem>>
    /\ UNCHANGED <<layout, heap_memory_used, printed>>

CallProc2 ==
    /\ Step("proc2", "loop")
    /\ Proc_2_Ends
    /\ l' = [l EXCEPT !.Int_1 = Proc_2(@), !.Run_Index = @ + 1]
    /\ UNCHANGED g /\ Quiet

\* A value times a thousand, printed with a point and three decimals.
Thousandths(x) ==
    printf_d(x \div 1000) \o <<Point>> \o printf_d((x \div 100) % 10)
    \o printf_d((x \div 10) % 10) \o printf_d(x % 10)
Report ==
    /\ Step("report", "done")
    /\ \E t \in Times, n \in Insns :
          LET dps == (Number_Of_Runs * 1000000) \div t
          IN  printed' = [time |-> t, insn |-> n, dps |-> dps,
                          cpi |-> Thousandths((1000 * t) \div n),
                          dmips |-> Thousandths((1000 * dps) \div 1757)]
    /\ UNCHANGED <<g, l, mem, layout, heap_memory_used>>

Done == pc = "done" /\ UNCHANGED vars

-----------------------------------------------------------------------------
Strings == {"First", "Second", "Third", "Some"}
Layouts ==
    [at : {[n \in DOMAIN Buffers |-> CASE n = "Str_Comp" -> 0
                                       [] n = "Str_1" -> o1
                                       [] n = "Str_2" -> o2
                                       [] OTHER -> o3] : o1, o2, o3 \in Offsets},
     text : {f \in [Strings -> Texts] :
               \* '1'ST, 2'ND, 3'RD, SOME
               /\ f["Third"] = f["Second"] /\ f["Some"] = f["First"]
               /\ \E i \in 1 .. Len(f["First"]) :
                     /\ i <= Len(f["Second"]) /\ f["First"][i] < f["Second"][i]
                     /\ \A j \in 1 .. i - 1 : f["First"][j] = f["Second"][j]}]

Init ==
    /\ pc = "init" /\ heap_memory_used = 0 /\ printed = <<>>
    /\ layout \in Layouts
    /\ g = [Int_Glob |-> 0, Bool_Glob |-> FALSE, Ch_1_Glob |-> 0, Ch_2_Glob |-> 0,
            Arr_1 |-> <<>>, Arr_2 |-> <<>>, rec |-> <<>>,
            Ptr_Glob |-> Null, Next_Ptr_Glob |-> Null]
    /\ l = [Int_1 |-> 0, Int_2 |-> 0, Int_3 |-> 0, Ch_Index |-> 0, Enum |-> 0,
            Run_Index |-> 1]
    /\ \E junk \in Garbage :
          mem = [a \in Room .. (8 * Room) + 16 |->
                   LET here == {n \in Strings : a - Place(n) \in 0 .. Len(Literal(n)) - 1}
                   IN  IF here = {} THEN (junk + a) % 256
                       ELSE LET n == CHOOSE x \in here : TRUE
                            IN  Literal(n)[a - Place(n) + 1]]

Next == Allocate \/ LoopHead \/ CallFunc2 \/ While \/ For \/ CallProc2 \/ Report \/ Done
Spec == Init /\ [][Next]_vars

-----------------------------------------------------------------------------
\* Reading back a number printed with a point.
Decimals(out) ==
    LET dot == CHOOSE i \in DOMAIN out : out[i] = Point
        value[i \in 0 .. Len(out)] ==
            IF i = 0 THEN 0
            ELSE IF i = dot THEN value[i - 1] ELSE (10 * value[i - 1]) + out[i]
    IN  [value |-> value[Len(out)], decimals |-> Len(out) - dot]

\* The final values are those the program prints as "should be", whatever the
\* layout, and the measurements are printed as the quotients they are.
FinalValues ==
    pc \in {"report", "done"} =>
        LET p == g.rec[g.Ptr_Glob]
            q == g.rec[g.Next_Ptr_Glob]
        IN  /\ g.Int_Glob = 5 /\ g.Bool_Glob /\ g.Ch_1_Glob = A /\ g.Ch_2_Glob = B
            /\ g.Arr_1[8] = 7 /\ g.Arr_2[<<8, 7>>] = Number_Of_Runs + 10
            /\ p.Ptr_Comp = q.Ptr_Comp
            /\ p.Discr = 0 /\ p.Enum_Comp = 2 /\ p.Int_Comp = 17
            /\ q.Discr = 0 /\ q.Enum_Comp = 1 /\ q.Int_Comp = 18
            /\ p.Str_Comp = Letters \o layout.text["Some"] /\ q.Str_Comp = p.Str_Comp
            /\ l.Int_1 = 5 /\ l.Int_2 = 13 /\ l.Int_3 = 7 /\ l.Enum = 1
            /\ StringAt(mem, Place("Str_1")) = Letters \o layout.text["First"]
            /\ StringAt(mem, Place("Str_2")) = Letters \o layout.text["Second"]
            /\ pc = "done" =>
                 /\ Decimals(printed.cpi) =
                      [value |-> (1000 * printed.time) \div printed.insn, decimals |-> 3]
                 /\ Decimals(printed.dmips) =
                      [value |-> (1000 * printed.dps) \div 1757, decimals |-> 3]

\* The values the comments of the source give in the middle of a run.
CommentsHold ==
    /\ pc = "func2" => g.Ch_1_Glob = A /\ g.Ch_2_Glob = B /\ g.Bool_Glob
    /\ pc = "while" => g.Bool_Glob /\ l.Int_1 \in {2, 3}
    /\ pc = "for" => /\ l.Int_1 = 3 /\ l.Int_2 = 3 /\ l.Int_3 = 7 /\ g.Int_Glob = 5
                     /\ g.rec[g.Next_Ptr_Glob].Ptr_Comp = g.rec[g.Ptr_Glob].Ptr_Comp
    /\ pc = "proc2" => l.Int_1 = 1 /\ l.Int_2 = 13 /\ l.Int_3 = 7

\* Copying a string writes its bytes and the zero after it, no byte more: only
\* the destination changes, only as far as the string goes.
OnlyTheCopy ==
    [][\A a \in DOMAIN mem : mem'[a] # mem[a] =>
          \E c \in {<<"Str_Comp", "Some">>, <<"Str_1", "First">>,
                    <<"Str_2", "Second">>, <<"Str_2", "Third">>} :
             a - Place(c[1]) \in 0 .. Len(Literal(c[2])) - 1]_vars

=============================================================================
