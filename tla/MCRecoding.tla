----------------------------- MODULE MCRecoding -----------------------------
EXTENDS Recoding

\* Prefixes: none, operand size, REX bits, repeat prefixes, a segment.
PrefixForms == { << >>, << \h66 >>, << \h48 >>, << \h45 >>, << \h40 >>,
              << \h66, \h49 >>, << \hF2 >>, << \hF3 >>, << \hF3, \h4C >>, << \h64 >>,
                 << \h2E >> }

\* ModRM and SIB: registers, [rax], [rsp], [rbp + disp8], RIP, absolute.
RegForms  == { << \hC1 >>, << \hEE >>, << \hDF >> }
MemForms  == { << \h01 >>, << \h0C, \h24 >>, << \h55, \h7F >>, << \h05 >>, << \h04, \h25 >> }
SomeForms == { << \hC1 >>, << \hEE >>, << \hE6 >>, << \h0C, \h24 >>, << \h53, \hF0 >> }
Digits    == { << \hC0 + 8 * d + 3 >> : d \in 0 .. 7 } \cup { << 8 * d + 6 >> : d \in 0 .. 7 }

OneByte ==
  { 8 * k + n : k \in 0 .. 7, n \in 0 .. 5 }
  \cup { \h84, \h85, \h88, \h89, \h8A, \h8B, \hA8, \hA9, \hC4 }
NoModRM ==
  { \h50, \h57, \h5B, \h68, \h6A, \h90, \h98, \h99, \h9C, \h9D, \hB3, \hB8, \hBD, \hC9, \hC3, \h06 }
WithModRM == { \h63, \h69, \h6B, \h8D, \h8F, \hC6, \hD2 }
Groups    == { \h80, \h81, \h83, \hC0, \hC1, \hC7, \hD0, \hD1, \hD3, \hF6, \hF7, \hFE, \hFF }
After0F   == (DOMAIN opcTable0F \ ((\h42 .. \h4E) \cup (\h82 .. \h8F))) \cup { \h0B }

Opcodes ==
  { p \o << o >> \o m : p \in PrefixForms, o \in OneByte, m \in SomeForms }
  \cup { p \o << o >> : p \in PrefixForms, o \in NoModRM }
  \cup { p \o << o >> \o m : p \in PrefixForms, o \in WithModRM, m \in RegForms \cup MemForms }
  \cup { p \o << o >> \o m : p \in PrefixForms, o \in Groups, m \in Digits }
  \cup { p \o << \h0F, o >> \o m : p \in PrefixForms, o \in After0F, m \in SomeForms }

\* Addressing: mod, base, index and scale, with REX bits and displacements.
Displacements == { << 0, 0, 0, 0 >>, << \h7F, 0, 0, 0 >>, << \h80, \hFF, \hFF, \hFF >>,
                   << \h80, 0, 0, 0 >> }
Addressing ==
  { << r, o, 64 * mod + 8 * 5 + rm >> \o (IF rm = 4 THEN << sib >> ELSE << >>) \o d :
      r \in { \h40, \h49, \h4E }, o \in { \h03, \h8D }, mod \in 0 .. 2, rm \in { 0, 4, 5 },
      sib \in { \h24, \h65, \hC8, \h2D, \hA5 }, d \in Displacements }

\* Immediates at the limits of shorter ones.
Limits == { << 0, 0, 0, 0 >>, << 1, 0, 0, 0 >>, << \h7F, 0, 0, 0 >>, << \h80, 0, 0, 0 >>,
            << \h80, \hFF, \hFF, \hFF >>, << \h81, \hFF, \hFF, \hFF >>, << \hFF, \hFF, 0, 0 >>,
            << 0, 0, 0, \h80 >>, << \hFF, \hFF, \hFF, \h7F >>, << \hFF, \h7F, 0, 0 >>,
            << \h80, \hFF, 0, 0 >> }
Immediates ==
  { p \o m \o v : p \in { << >>, << \h48 >>, << \h66 >> }, v \in Limits,
      m \in { << \h05 >>, << \h81, \hC3 >>, << \h81, \hEB >>, << \h81, \hE0 >>, << \hF7, \hC3 >>,
              << \hC7, \hC3 >>, << \hC7, \h03 >>, << \h69, \hC3 >>, << \h83, \hFB >>, << \h6B, \hC3 >>,
              << \hC1, \hEB >>, << \hA9 >> } }
  \cup { << r, \hB8 >> \o v \o w : r \in { \h48, \h49 }, v \in Limits,
                                   w \in { << 0, 0, 0, 0 >>, << \hFF, \hFF, \hFF, \hFF >> } }

\* VEX prefixes of 2 and 3 bytes.
Vex ==
  { v \o << o >> \o m :
      v \in { << \hC5, b >> : b \in { \hF8, \hF9, \hFA, \hFB, \hFC, \h7D, \hE8, \h05 } }
            \cup { << \hC4, b, \h78 >> : b \in { \hE1, \h41, \h02 } }
            \cup { << \h2E, \hC5, \hF8 >>, << \hC4, \hC1, \hF9 >>, << \hC4, \h01, \h04 >> },
      o \in { \h10, \h11, \h28, \h29, \h57, \h58, \h59, \h6F, \h7F, \h77, \hE7, \h51 },
      m \in { << \hC1 >>, << \h5C, \h88, \h10 >> } }

\* Branches, several blocks, full buffers.
Mov64   == << \h48, \hB8, 1, 2, 3, 4, 5, 6, 7, 8 >>
Nops(n) == [k \in 1 .. n |-> \h98]
Branches ==
  { << o, d >> \o Nops(3) : o \in { \h70, \h7C, \hEB }, d \in { 0, 1, \hFE, 2 } }
  \cup { << o, 1, 0, 0, 0 >> \o Nops(3) : o \in { \hE8, \hE9 } }
  \cup { << \h0F, \h8F, 1, 0, 0, 0 >> \o Nops(3), << \hFF, \hE0 >>, << \hFF, \hD0 >> }
Long ==
  { Mov64 \o Mov64 \o Mov64 } \cup { Nops(n) : n \in 3 .. 12 } \cup { Nops(n) \o << \h75, 1, \h98, \hC3 >> : n \in 5 .. 10 }
  \cup { Nops(n) \o i : n \in {9, 10},
            i \in { << \h68, 1, 0, 0, 0 >>, << \h0F, \h58, \hC1 >>, << \h06 >>, << \h0F, \h10, \hC1 >> } }

MCAgain    == { << \h98 >>, << \h48, \h01, \hC3 >>, << \h01, \hC3 >> }
MCCMovs    == { << \h48, \h0F, o, \hC1 >> : o \in \h40 .. \h4F } \cup MCAgain
MCPrograms == Opcodes \cup Addressing \cup Immediates \cup Vex \cup Branches \cup Long \cup MCAgain
=============================================================================
