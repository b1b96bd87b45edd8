---------------------------- MODULE MCCpuIdX86 ----------------------------
(* Processors with up to two sets of cache descriptors, which hold up to two *)
(* descriptors, in any register.                                             *)
EXTENDS CpuIdX86

\* One descriptor or two of each level, one that is a reference to another leaf
\* and that, in a high byte, marks a register that holds nothing.
Descriptors == {\h08, \h2C, \h41, \h3C, \h22, \hD8, \hFF}

Places == {1, 3, 5, 8, 13, 16}

Register(f, n, base) == <<f[base + 1], f[base + 2], f[base + 3],
                          IF base = 0 THEN n ELSE f[base + 4]>>
SetOf(f, n) == <<Register(f, n, 0), Register(f, n, 4), Register(f, n, 8),
                 Register(f, n, 12)>>

Zero == [p \in 1 .. 16 |-> 0]
Two(p, d, q, e) == [[Zero EXCEPT ![p] = d] EXCEPT ![q] = e]

SetSequences ==
  {<<>>}
  \union {<<SetOf(Two(p, d, q, e), 1)>> :
            p \in Places, q \in Places, d \in Descriptors, e \in Descriptors}
  \union {<<SetOf(Two(p, d, p, d), 2), SetOf(Two(q, e, q, e), 2)>> :
            p \in Places, q \in Places, d \in Descriptors, e \in Descriptors}
  \union {<<SetOf(Zero, 2), SetOf(Two(p, d, q, e), 2)>> :
            p \in {1, 5, 16}, q \in {3, 8}, d \in Descriptors, e \in Descriptors}

Plain == [cpuid |-> TRUE, vendor |-> "intel", sets |-> <<>>, extended |-> 0,
          basic |-> {}, more |-> {},
          amd |-> [l1i |-> 0, l1d |-> 0, line |-> 0, l2 |-> 0]]

MCMachines ==
  {[Plain EXCEPT !.sets = s] : s \in SetSequences}
  \union {[Plain EXCEPT !.basic = {"mmx", "sse"}, !.extended = x, !.more = {"mmx"}] :
            x \in {0, 1}}
  \union {[Plain EXCEPT !.vendor = "amd", !.extended = x, !.more = {"mmx2", "3dnow"},
             !.amd = [l1i |-> 64, l1d |-> 32, line |-> 64, l2 |-> 1024]] :
            x \in {0, 1, 5, 6}}
  \union {[Plain EXCEPT !.cpuid = FALSE], [Plain EXCEPT !.vendor = "cyrix"]}

MCLongLimit == 4194304
============================================================================
