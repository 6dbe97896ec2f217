------------------------------ MODULE InstInfo ------------------------------
(***************************************************************************)
(* The rows that InstTree leads to (insts.c): flags, operand types and     *)
(* flow control of every instruction, through the three levels of sharing  *)
(* that instructions.h describes.  Mnemonics are not spelled: an opcode is *)
(* the row and which of its mnemonics was taken.                           *)
(***************************************************************************)
EXTENDS InstTree

\* _OpType, in the order of the enumeration.
OpTypes == <<"IMM8", "IMM16", "IMM_FULL", "IMM32", "SEIMM8", "IMM16_1", "IMM8_1", "IMM8_2", "REG8",
  "REG16", "REG_FULL", "REG32", "REG32_64", "FREG32_64_RM", "RM8", "RM16", "RM_FULL", "RM32_64",
  "RM16_32", "FPUM16", "FPUM32", "FPUM64", "FPUM80", "R32_M8", "R32_M16", "R32_64_M8", "R32_64_M16",
  "RFULL_M16", "CREG", "DREG", "SREG", "SEG", "ACC8", "ACC16", "ACC_FULL", "ACC_FULL_NOT64",
  "MEM16_FULL", "PTR16_FULL", "MEM16_3264", "RELCB", "RELC_FULL", "MEM", "MEM_OPT", "MEM32",
  "MEM32_64", "MEM64", "MEM128", "MEM64_128", "MOFFS8", "MOFFS_FULL", "CONST1", "REGCL", "IB_RB",
  "IB_R_FULL", "REGI_ESI", "REGI_EDI", "REGI_EBXAL", "REGI_EAX", "REGDX", "REGECX", "FPU_SI",
  "FPU_SSI", "FPU_SIS", "MM", "MM_RM", "MM32", "MM64", "XMM", "XMM_RM", "XMM16", "XMM32", "XMM64",
  "XMM128", "REGXMM0", "RM32", "REG32_64_M8", "REG32_64_M16", "WREG32_64", "WRM32_64", "WXMM32_64",
  "VXMM", "XMM_IMM", "YXMM", "YXMM_IMM", "YMM", "YMM256", "VYMM", "VYXMM", "YXMM64_256",
  "YXMM128_256", "LXMM64_128", "LMEM128_256">>

\* FlagsTable: the flags of an instruction as a set of names (INST_ and PRE_ left out).
FlagsTable == <<{"MODRM_REQUIRED", "LOCK", "DST_WR"}, {"DST_WR"}, {"ES", "INVALID_64BITS"},
  {"ES", "INVALID_64BITS", "DST_WR"}, {"CS", "INVALID_64BITS"}, {"SS", "INVALID_64BITS"},
  {"SS", "INVALID_64BITS", "DST_WR"}, {"DS", "INVALID_64BITS"}, {"DS", "INVALID_64BITS", "DST_WR"},
  {"INVALID_64BITS"}, {"MODRM_REQUIRED"}, {}, {"INVALID_64BITS", "DST_WR"}, {"64BITS"},
  {"64BITS", "DST_WR"}, {"NATIVE", "INVALID_64BITS"}, {"MODRM_REQUIRED", "INVALID_64BITS"},
  {"MODRM_REQUIRED", "USE_OP3", "DST_WR"}, {"OP_SIZE", "64BITS"}, {"REPNZ", "REP"},
  {"16BITS", "REPNZ", "REP"}, {"MODRM_REQUIRED", "DST_WR"}, {"USE_EXMNEMONIC", "USE_EXMNEMONIC2"},
  {"NATIVE", "64BITS"}, {"REPNZ", "REP", "DST_WR"},
  {"16BITS", "REPNZ", "REP", "64BITS", "REX", "DST_WR"},
  {"16BITS", "REPNZ", "REP", "64BITS", "REX"}, {"64BITS", "REX", "DST_WR"},
  {"NATIVE", "64BITS", "REX"}, {"DS"}, {"ADDR_SIZE", "NATIVE"},
  {"ADDR_SIZE", "USE_EXMNEMONIC", "USE_EXMNEMONIC2"}, {"32BITS"},
  {"MODRM_REQUIRED", "32BITS", "64BITS", "DST_WR"}, {"MODRM_REQUIRED", "32BITS"},
  {"MODRM_REQUIRED", "32BITS", "DST_WR"}, {"32BITS", "FS", "64BITS"},
  {"32BITS", "FS", "64BITS", "DST_WR"}, {"MODRM_REQUIRED", "32BITS", "USE_OP3", "DST_WR"},
  {"32BITS", "GS", "64BITS"}, {"32BITS", "GS", "64BITS", "DST_WR"},
  {"MODRM_REQUIRED", "32BITS", "LOCK", "DST_WR"}, {"MODRM_REQUIRED", "32BITS", "64BITS", "REX"},
  {"MODRM_REQUIRED", "32BITS", "64BITS", "REX", "DST_WR"}, {"32BITS", "64BITS", "REX", "DST_WR"},
  {"MODRM_REQUIRED", "LOCK", "MODRM_INCLUDED", "DST_WR"}, {"MODRM_REQUIRED", "MODRM_INCLUDED"},
  {"MODRM_REQUIRED", "LOCK", "INVALID_64BITS", "MODRM_INCLUDED", "DST_WR"},
  {"MODRM_REQUIRED", "INVALID_64BITS", "MODRM_INCLUDED"},
  {"MODRM_REQUIRED", "32BITS", "LOCK", "MODRM_INCLUDED", "DST_WR"},
  {"MODRM_REQUIRED", "64BITS", "MODRM_INCLUDED", "DST_WR"},
  {"MODRM_REQUIRED", "MODRM_INCLUDED", "DST_WR"}, {"MODRM_INCLUDED"}, {"32BITS", "MODRM_INCLUDED"},
  {"MODRM_REQUIRED", "32BITS", "MODRM_INCLUDED"}, {"MODRM_REQUIRED", "64BITS", "MODRM_INCLUDED"},
  {"MODRM_REQUIRED", "64BITS", "REX", "MODRM_INCLUDED"},
  {"MODRM_REQUIRED", "NOT_DIVIDED", "MODRM_INCLUDED", "DST_WR"},
  {"MODRM_REQUIRED", "NOT_DIVIDED", "MODRM_INCLUDED"}, {"64BITS_FETCH", "MODRM_INCLUDED"},
  {"MODRM_REQUIRED", "32BITS", "3DNOW_FETCH"}, {"MODRM_REQUIRED", "32BITS", "VEX"},
  {"MODRM_REQUIRED", "32BITS", "USE_OP3", "VEX", "MODRM_INCLUDED"},
  {"MODRM_REQUIRED", "32BITS", "VEX", "MODRM_INCLUDED"},
  {"MODRM_REQUIRED", "32BITS", "USE_EXMNEMONIC", "MNEMONIC_MODRM_BASED", "DST_WR"},
  {"MODRM_REQUIRED", "32BITS", "USE_EXMNEMONIC", "USE_OP3", "MNEMONIC_MODRM_BASED", "VEX"},
  {"MODRM_REQUIRED", "32BITS", "USE_OP3", "VEX"},
  {"MODRM_REQUIRED", "32BITS", "MODRR_REQUIRED", "DST_WR"},
  {"MODRM_REQUIRED", "32BITS", "MODRR_REQUIRED", "64BITS", "VEX"},
  {"MODRM_REQUIRED", "32BITS", "64BITS", "REX", "USE_EXMNEMONIC2", "DST_WR"},
  {"MODRM_REQUIRED", "32BITS", "USE_OP3"}, {"32BITS", "VEX"},
  {"MODRM_REQUIRED", "32BITS", "64BITS"}, {"MODRM_REQUIRED", "32BITS", "USE_OP3", "FORCE_REG0"},
  {"MODRM_REQUIRED", "32BITS", "USE_OP3", "USE_OP4", "MODRR_REQUIRED"},
  {"MODRM_REQUIRED", "32BITS", "MODRR_REQUIRED"},
  {"MODRM_REQUIRED", "32BITS", "64BITS", "REX", "USE_EXMNEMONIC2", "MODRM_INCLUDED"},
  {"MODRM_REQUIRED", "32BITS", "USE_EXMNEMONIC", "MNEMONIC_MODRM_BASED", "64BITS", "REX", "USE_EXMNEMONIC2", "MODRM_INCLUDED"},
  {"MODRM_REQUIRED", "32BITS", "USE_EXMNEMONIC", "MNEMONIC_MODRM_BASED", "MODRM_INCLUDED"},
  {"MODRM_REQUIRED", "32BITS", "OP_SIZE", "DST_WR"},
  {"MODRM_REQUIRED", "32BITS", "MODRM_INCLUDED", "DST_WR"}, {"MODRM_REQUIRED", "OP_SIZE"},
  {"MODRM_REQUIRED", "OP_SIZE", "DST_WR"},
  {"MODRM_REQUIRED", "32BITS", "USE_EXMNEMONIC", "PSEUDO_OPCODE"},
  {"MODRM_REQUIRED", "32BITS", "USE_OP3", "PSEUDO_OPCODE", "VEX"},
  {"MODRM_REQUIRED", "32BITS", "USE_OP3", "USE_OP4", "VEX"},
  {"MODRM_REQUIRED", "32BITS", "USE_OP3", "MODRR_REQUIRED"},
  {"MODRM_REQUIRED", "32BITS", "USE_OP3", "64BITS", "VEX"},
  {"MODRM_REQUIRED", "32BITS", "LOCK", "64BITS", "REX", "USE_EXMNEMONIC2", "MODRM_INCLUDED", "DST_WR"},
  {"MODRM_REQUIRED", "32BITS", "MODRR_REQUIRED", "VEX"},
  {"MODRM_REQUIRED", "32BITS", "OP_SIZE", "MODRM_INCLUDED"},
  {"32BITS", "OP_SIZE", "MODRM_INCLUDED"},
  {"MODRM_REQUIRED", "32BITS", "USE_OP3", "USE_EXMNEMONIC2"},
  {"MODRM_REQUIRED", "32BITS", "MODRR_REQUIRED", "MODRM_INCLUDED"},
  {"MODRM_REQUIRED", "32BITS", "USE_OP3", "MODRR_REQUIRED", "VEX", "MODRM_INCLUDED"},
  {"MODRM_REQUIRED", "32BITS", "64BITS", "MODRM_INCLUDED"},
  {"MODRM_REQUIRED", "64BITS", "REX", "DST_WR"}, {"MODRM_REQUIRED", "3DNOW_FETCH"}>>

\* InstSharedInfoTable: <<flagsIndex, s, d, meta>>.
InstSharedInfoTable_0 == <<<<0, 9, 15, 8>>, <<0, 11, 17, 8>>, <<0, 15, 9, 8>>, <<0, 17, 11, 8>>,
  <<1, 1, 33, 8>>, <<1, 3, 35, 8>>, <<2, 0, 32, 8>>, <<3, 0, 32, 8>>, <<0, 9, 15, 8>>,
  <<0, 11, 17, 8>>, <<0, 15, 9, 8>>, <<0, 17, 11, 8>>, <<1, 1, 33, 8>>, <<1, 3, 35, 8>>,
  <<4, 0, 32, 8>>, <<0, 9, 15, 8>>, <<0, 11, 17, 8>>, <<0, 15, 9, 8>>, <<0, 17, 11, 8>>,
  <<1, 1, 33, 8>>, <<1, 3, 35, 8>>, <<5, 0, 32, 8>>, <<6, 0, 32, 8>>, <<7, 0, 32, 8>>,
  <<8, 0, 32, 8>>, <<0, 9, 15, 8>>, <<0, 11, 17, 8>>, <<0, 15, 9, 8>>, <<0, 17, 11, 8>>,
  <<1, 1, 33, 8>>, <<1, 3, 35, 8>>, <<9, 0, 0, 8>>, <<0, 9, 15, 8>>, <<0, 11, 17, 8>>,
  <<0, 15, 9, 8>>, <<0, 17, 11, 8>>, <<1, 1, 33, 8>>, <<1, 3, 35, 8>>, <<9, 0, 0, 8>>,
  <<10, 9, 15, 8>>, <<10, 11, 17, 8>>, <<10, 15, 9, 8>>, <<10, 17, 11, 8>>, <<11, 1, 33, 8>>,
  <<11, 3, 35, 8>>, <<12, 0, 54, 8>>, <<13, 0, 54, 8>>, <<14, 0, 54, 8>>, <<15, 0, 0, 8>>,
  <<16, 42, 11, 8>>, <<10, 10, 16, 8>>, <<13, 0, 3, 8>>, <<17, 17, 11, 8>>, <<18, 0, 5, 8>>,
  <<19, 59, 56, 8>>, <<20, 59, 56, 8>>, <<19, 55, 59, 8>>, <<20, 55, 59, 8>>, <<13, 0, 40, 13>>,
  <<13, 0, 40, 13>>, <<13, 0, 40, 13>>, <<13, 0, 40, 13>>, <<13, 0, 40, 13>>, <<13, 0, 40, 13>>,
  <<13, 0, 40, 13>>, <<13, 0, 40, 13>>, <<10, 9, 15, 8>>, <<10, 11, 17, 8>>, <<0, 9, 15, 8>>,
  <<0, 11, 17, 8>>, <<21, 9, 15, 8>>, <<21, 11, 17, 8>>, <<21, 15, 9, 8>>, <<21, 17, 11, 8>>,
  <<21, 31, 28, 8>>, <<21, 42, 11, 8>>, <<21, 28, 31, 8>>, <<1, 35, 54, 8>>, <<22, 0, 0, 8>>,
  <<9, 0, 38, 9>>, <<23, 0, 0, 8>>, <<23, 0, 0, 8>>, <<11, 0, 0, 8>>, <<11, 0, 0, 8>>,
  <<1, 49, 33, 8>>, <<1, 50, 35, 8>>, <<1, 33, 49, 8>>, <<1, 35, 50, 8>>, <<24, 55, 56, 8>>,
  <<25, 55, 56, 8>>, <<19, 56, 55, 8>>, <<26, 56, 55, 8>>, <<11, 1, 33, 8>>, <<11, 3, 35, 8>>,
  <<19, 33, 56, 8>>, <<26, 35, 56, 8>>, <<19, 55, 33, 8>>, <<26, 55, 35, 8>>, <<19, 33, 56, 8>>,
  <<26, 35, 56, 8>>, <<1, 1, 53, 8>>, <<27, 3, 54, 8>>, <<13, 0, 2, 10>>, <<13, 0, 0, 10>>,
  <<16, 37, 11, 8>>, <<13, 8, 6, 8>>, <<13, 0, 0, 8>>, <<28, 0, 2, 10>>, <<28, 0, 0, 10>>,
  <<11, 0, 0, 14>>, <<11, 0, 1, 14>>, <<9, 0, 0, 14>>, <<28, 0, 0, 10>>, <<9, 0, 1, 8>>,
  <<9, 0, 0, 8>>, <<29, 0, 57, 8>>, <<30, 0, 40, 13>>, <<30, 0, 40, 13>>, <<31, 0, 40, 13>>,
  <<1, 1, 33, 8>>, <<1, 1, 36, 8>>, <<11, 33, 1, 8>>, <<11, 36, 1, 8>>, <<13, 0, 41, 9>>,
  <<13, 0, 41, 12>>, <<9, 0, 38, 12>>, <<13, 0, 40, 12>>, <<1, 59, 33, 8>>, <<1, 59, 36, 8>>,
  <<11, 33, 59, 8>>, <<11, 36, 59, 8>>, <<11, 0, 0, 8>>, <<11, 0, 0, 8>>, <<11, 0, 0, 8>>,
  <<10, 16, 11, 8>>, <<32, 0, 0, 27>>, <<32, 0, 0, 8>>, <<32, 0, 0, 14>>, <<11, 0, 0, 96>>,
  <<10, 0, 17, 8>>, <<33, 29, 14, 8>>, <<33, 30, 14, 8>>, <<33, 14, 29, 8>>, <<33, 14, 30, 8>>,
  <<34, 0, 0, 8>>, <<35, 17, 11, 31>>, <<35, 17, 11, 31>>, <<35, 17, 11, 31>>, <<35, 17, 11, 31>>,
  <<35, 17, 11, 31>>>>
InstSharedInfoTable_150 == <<<<35, 17, 11, 31>>, <<35, 17, 11, 31>>, <<35, 17, 11, 31>>,
  <<32, 0, 41, 13>>, <<32, 0, 41, 13>>, <<32, 0, 41, 13>>, <<32, 0, 41, 13>>, <<32, 0, 41, 13>>,
  <<32, 0, 41, 13>>, <<32, 0, 41, 13>>, <<32, 0, 41, 13>>, <<35, 0, 15, 8>>, <<35, 0, 15, 8>>,
  <<35, 0, 15, 8>>, <<35, 0, 15, 8>>, <<35, 0, 15, 8>>, <<35, 0, 15, 8>>, <<35, 0, 15, 8>>,
  <<35, 0, 15, 8>>, <<36, 0, 32, 8>>, <<37, 0, 32, 8>>, <<35, 11, 17, 8>>, <<38, 11, 17, 8>>,
  <<39, 0, 32, 8>>, <<40, 0, 32, 8>>, <<32, 0, 0, 8>>, <<41, 11, 17, 8>>, <<35, 17, 11, 8>>,
  <<41, 9, 15, 8>>, <<41, 11, 17, 8>>, <<42, 37, 11, 8>>, <<35, 15, 11, 8>>, <<43, 16, 11, 8>>,
  <<43, 13, 45, 48>>, <<44, 0, 54, 8>>, <<45, 1, 15, 8>>, <<45, 1, 15, 8>>, <<45, 1, 15, 8>>,
  <<45, 1, 15, 8>>, <<45, 1, 15, 8>>, <<46, 1, 15, 8>>, <<45, 3, 17, 8>>, <<45, 3, 17, 8>>,
  <<45, 3, 17, 8>>, <<45, 3, 17, 8>>, <<45, 3, 17, 8>>, <<46, 3, 17, 8>>, <<47, 1, 15, 8>>,
  <<47, 1, 15, 8>>, <<47, 1, 15, 8>>, <<47, 1, 15, 8>>, <<47, 1, 15, 8>>, <<48, 1, 15, 8>>,
  <<45, 5, 17, 8>>, <<49, 5, 17, 8>>, <<45, 5, 17, 8>>, <<49, 5, 17, 8>>, <<49, 5, 17, 8>>,
  <<46, 5, 17, 8>>, <<50, 0, 17, 8>>, <<51, 1, 15, 8>>, <<51, 1, 15, 8>>, <<51, 1, 15, 8>>,
  <<51, 1, 15, 8>>, <<51, 1, 17, 8>>, <<51, 1, 17, 8>>, <<51, 1, 17, 8>>, <<51, 1, 17, 8>>,
  <<51, 3, 17, 8>>, <<51, 51, 15, 8>>, <<51, 51, 15, 8>>, <<51, 51, 15, 8>>, <<51, 51, 15, 8>>,
  <<51, 51, 17, 8>>, <<51, 51, 17, 8>>, <<51, 51, 17, 8>>, <<51, 51, 17, 8>>, <<51, 52, 15, 8>>,
  <<51, 52, 15, 8>>, <<51, 52, 15, 8>>, <<51, 52, 15, 8>>, <<51, 52, 17, 8>>, <<51, 52, 17, 8>>,
  <<51, 52, 17, 8>>, <<51, 52, 17, 8>>, <<46, 0, 21, 16>>, <<52, 0, 62, 16>>, <<52, 0, 61, 16>>,
  <<52, 0, 0, 16>>, <<46, 0, 42, 16>>, <<53, 0, 62, 24>>, <<53, 0, 62, 24>>, <<53, 0, 62, 24>>,
  <<53, 0, 62, 24>>, <<54, 0, 21, 56>>, <<46, 0, 23, 16>>, <<53, 0, 62, 16>>, <<53, 0, 62, 24>>,
  <<46, 0, 22, 16>>, <<52, 0, 63, 16>>, <<54, 0, 22, 56>>, <<46, 0, 20, 16>>, <<54, 0, 20, 56>>,
  <<46, 1, 15, 8>>, <<45, 0, 15, 8>>, <<45, 0, 15, 8>>, <<51, 0, 15, 8>>, <<51, 0, 15, 8>>,
  <<46, 3, 17, 8>>, <<45, 0, 17, 8>>, <<45, 0, 17, 8>>, <<51, 0, 17, 8>>, <<51, 0, 17, 8>>,
  <<45, 0, 15, 8>>, <<45, 0, 17, 8>>, <<55, 0, 17, 9>>, <<56, 0, 37, 9>>, <<55, 0, 17, 12>>,
  <<56, 0, 37, 12>>, <<55, 0, 17, 8>>, <<46, 0, 17, 8>>, <<46, 0, 16, 8>>, <<54, 0, 16, 8>>,
  <<46, 0, 16, 8>>, <<55, 0, 39, 8>>, <<57, 0, 28, 8>>, <<58, 0, 16, 8>>, <<54, 0, 42, 8>>,
  <<53, 0, 0, 112>>, <<53, 0, 0, 8>>, <<54, 0, 58, 120>>, <<53, 0, 0, 120>>, <<53, 0, 58, 120>>,
  <<53, 60, 58, 120>>, <<59, 0, 0, 8>>, <<54, 0, 42, 96>>, <<60, 67, 64, 104>>, <<60, 67, 64, 96>>,
  <<35, 73, 68, 40>>, <<35, 73, 68, 48>>, <<35, 71, 68, 40>>, <<35, 72, 68, 48>>,
  <<61, 90, 83, 128>>, <<62, 81, 68, 128>>, <<63, 44, 68, 128>>, <<63, 46, 68, 128>>,
  <<35, 68, 73, 40>>, <<35, 68, 73, 48>>, <<35, 68, 71, 40>>, <<35, 68, 72, 48>>>>
InstSharedInfoTable_300 == <<<<61, 83, 90, 128>>, <<63, 68, 44, 128>>, <<63, 68, 46, 128>>,
  <<64, 72, 68, 40>>, <<35, 46, 68, 48>>, <<35, 72, 68, 56>>, <<65, 81, 68, 128>>,
  <<66, 81, 68, 128>>, <<61, 89, 83, 128>>, <<35, 68, 46, 40>>, <<35, 68, 46, 48>>,
  <<61, 68, 46, 128>>, <<34, 73, 68, 40>>, <<34, 73, 68, 48>>, <<66, 88, 83, 128>>,
  <<35, 73, 68, 56>>, <<54, 0, 42, 40>>, <<34, 67, 68, 40>>, <<34, 67, 68, 48>>, <<42, 18, 68, 40>>,
  <<42, 18, 68, 48>>, <<35, 68, 47, 40>>, <<35, 68, 47, 48>>, <<35, 68, 44, 88>>,
  <<35, 68, 46, 88>>, <<61, 83, 92, 128>>, <<34, 72, 64, 40>>, <<34, 73, 64, 48>>,
  <<42, 71, 13, 40>>, <<42, 72, 13, 48>>, <<61, 80, 78, 128>>, <<34, 71, 68, 40>>,
  <<34, 72, 68, 48>>, <<61, 71, 68, 128>>, <<61, 72, 68, 128>>, <<67, 69, 12, 40>>,
  <<67, 69, 12, 48>>, <<68, 83, 13, 128>>, <<34, 71, 68, 40>>, <<34, 71, 68, 48>>,
  <<61, 91, 83, 128>>, <<61, 90, 68, 128>>, <<34, 66, 64, 32>>, <<34, 67, 64, 32>>,
  <<69, 18, 64, 32>>, <<69, 18, 68, 48>>, <<61, 79, 68, 128>>, <<35, 67, 64, 32>>,
  <<70, 67, 64, 40>>, <<70, 73, 68, 48>>, <<66, 73, 68, 128>>, <<32, 0, 0, 32>>, <<71, 0, 0, 128>>,
  <<72, 13, 18, 112>>, <<73, 7, 69, 88>>, <<74, 69, 68, 88>>, <<72, 18, 13, 112>>,
  <<34, 69, 68, 88>>, <<75, 69, 68, 88>>, <<32, 72, 68, 112>>, <<32, 68, 72, 112>>,
  <<34, 73, 68, 56>>, <<69, 64, 18, 32>>, <<69, 68, 18, 48>>, <<61, 68, 79, 128>>,
  <<35, 64, 67, 32>>, <<76, 0, 42, 8>>, <<77, 0, 43, 8>>, <<78, 0, 43, 8>>, <<79, 17, 11, 80>>,
  <<80, 1, 17, 8>>, <<49, 1, 17, 8>>, <<34, 17, 11, 8>>, <<81, 17, 11, 112>>, <<82, 17, 11, 8>>,
  <<83, 73, 68, 40>>, <<83, 73, 68, 48>>, <<83, 71, 68, 40>>, <<83, 72, 68, 48>>,
  <<84, 88, 83, 128>>, <<84, 81, 68, 128>>, <<70, 25, 64, 40>>, <<70, 25, 68, 48>>,
  <<85, 81, 68, 128>>, <<86, 65, 12, 40>>, <<70, 69, 12, 48>>, <<87, 68, 13, 128>>,
  <<70, 73, 68, 40>>, <<85, 88, 83, 128>>, <<88, 0, 48, 8>>, <<54, 0, 46, 112>>, <<67, 65, 68, 48>>,
  <<67, 69, 64, 48>>, <<61, 68, 72, 128>>, <<75, 65, 12, 40>>, <<75, 69, 12, 48>>,
  <<68, 68, 13, 128>>, <<34, 67, 64, 40>>, <<35, 64, 46, 40>>, <<34, 42, 68, 56>>,
  <<61, 92, 83, 128>>, <<34, 67, 64, 48>>, <<75, 65, 64, 40>>, <<75, 69, 68, 48>>,
  <<89, 69, 68, 128>>, <<90, 0, 42, 16>>, <<91, 0, 0, 16>>, <<52, 0, 34, 16>>, <<91, 0, 34, 16>>,
  <<34, 67, 64, 64>>, <<34, 73, 68, 64>>, <<70, 73, 68, 72>>, <<34, 73, 68, 80>>,
  <<61, 44, 83, 128>>, <<61, 46, 85, 128>>, <<61, 47, 85, 128>>, <<61, 73, 68, 128>>,
  <<34, 72, 68, 72>>, <<34, 71, 68, 72>>, <<34, 70, 68, 72>>, <<61, 70, 68, 128>>,
  <<34, 73, 68, 72>>, <<35, 47, 68, 72>>, <<61, 47, 68, 128>>, <<66, 88, 92, 128>>,
  <<72, 47, 13, 112>>, <<66, 88, 83, 136>>, <<66, 81, 68, 136>>, <<34, 73, 68, 152>>,
  <<61, 73, 68, 152>>, <<66, 81, 68, 152>>, <<35, 17, 11, 8>>, <<35, 15, 13, 80>>,
  <<35, 11, 17, 8>>, <<35, 17, 13, 80>>, <<66, 90, 83, 128>>, <<85, 87, 85, 128>>,
  <<70, 71, 68, 72>>, <<70, 72, 68, 72>>, <<70, 67, 64, 64>>, <<70, 73, 68, 64>>,
  <<70, 68, 26, 72>>, <<87, 68, 76, 128>>, <<70, 68, 27, 72>>, <<87, 68, 77, 128>>,
  <<92, 68, 18, 72>>, <<66, 68, 79, 128>>, <<70, 68, 18, 72>>, <<66, 68, 75, 128>>,
  <<66, 85, 73, 128>>>>
InstSharedInfoTable_450 == <<<<70, 24, 68, 72>>, <<92, 18, 68, 72>>, <<70, 73, 68, 144>>,
  <<85, 81, 68, 144>>, <<70, 73, 68, 80>>, <<70, 73, 68, 152>>, <<66, 73, 68, 152>>,
  <<93, 1, 65, 32>>, <<54, 1, 69, 48>>, <<94, 69, 81, 128>>, <<95, 0, 13, 112>>, <<63, 0, 44, 128>>,
  <<78, 0, 43, 112>>, <<96, 75, 13, 8>>, <<97, 67, 64, 96>>>>
InstSharedInfoTable == InstSharedInfoTable_0 \o InstSharedInfoTable_150 \o
  InstSharedInfoTable_300 \o InstSharedInfoTable_450

\* InstInfos: the index into InstSharedInfoTable of each row.
InstInfos_0 == <<0, 1, 2, 3, 4, 5, 6, 7, 8, 9, 10, 11, 12, 13, 14, 15, 16, 17, 18, 19, 20, 21, 22,
  15, 16, 17, 18, 19, 20, 23, 24, 25, 26, 27, 28, 29, 30, 31, 0, 1, 2, 3, 4, 5, 31, 32, 33, 34, 35,
  36, 37, 38, 39, 40, 41, 42, 43, 44, 38, 45, 45, 45, 45, 45, 45, 45, 45, 45, 45, 45, 45, 45, 45,
  45, 45, 46, 46, 46, 46, 46, 46, 46, 46, 47, 47, 47, 47, 47, 47, 47, 47, 48, 48, 49, 50, 51, 53,
  54, 55, 56, 57, 58, 58, 59, 59, 60, 60, 61, 61, 62, 62, 63, 63, 64, 64, 65, 65, 66, 67, 68, 69,
  70, 71, 72, 73, 74, 75, 76, 77, 77, 77, 77, 77, 77, 77, 77, 79, 80, 81, 82, 83, 84, 85, 86, 87,
  88, 89, 90, 91, 92>>
InstInfos_150 == <<93, 94, 95, 96, 97, 98, 99, 100, 100, 100, 100, 100, 100, 100, 100, 101, 101,
  101, 101, 101, 101, 101, 101, 102, 103, 104, 104, 105, 106, 107, 108, 109, 110, 111, 112, 113,
  113, 114, 115, 116, 116, 117, 119, 120, 121, 122, 123, 124, 125, 126, 127, 128, 129, 130, 109, 83,
  131, 131, 131, 132, 132, 133, 133, 134, 134, 135, 136, 135, 136, 136, 137, 138, 139, 140, 141,
  142, 143, 136, 136, 136, 136, 135, 135, 144, 145, 145, 146, 146, 147, 147, 148, 148, 149, 149,
  150, 150, 151, 151, 152, 152, 153, 153, 154, 154, 155, 155, 156, 156, 157, 157, 158, 158, 159,
  159, 160, 160, 161, 161, 162, 162, 163, 163, 164, 164, 165, 165, 166, 166, 167, 167, 168, 168,
  169, 170, 136, 171, 173, 174, 175, 176, 177, 178, 179, 180, 176, 180, 180, 181, 182, 137>>
InstInfos_300 == <<176, 181, 182, 178, 179, 183, 184, 184, 184, 184, 184, 184, 184, 184, 185, 186,
  187, 187, 188, 185, 189, 190, 191, 192, 193, 193, 194, 191, 195, 196, 197, 198, 199, 199, 200,
  197, 201, 202, 203, 204, 205, 205, 206, 203, 207, 208, 209, 210, 210, 211, 211, 212, 212, 213,
  213, 214, 214, 215, 215, 216, 216, 217, 217, 213, 218, 219, 219, 220, 220, 221, 221, 222, 222,
  223, 223, 224, 224, 225, 225, 226, 226, 227, 227, 228, 228, 229, 229, 230, 230, 231, 231, 232,
  232, 233, 233, 234, 234, 235, 235, 235, 235, 235, 235, 235, 235, 236, 236, 236, 236, 236, 236,
  236, 236, 236, 236, 236, 236, 236, 236, 236, 236, 237, 237, 237, 237, 237, 237, 237, 237, 237,
  238, 237, 237, 237, 237, 237, 237, 236, 236, 236, 236, 236, 236, 236, 236, 236, 236, 236, 236, 236>>
InstInfos_450 == <<236, 236, 236, 236, 236, 236, 236, 236, 236, 236, 236, 236, 236, 236, 236, 236,
  236, 236, 236, 235, 235, 235, 239, 239, 237, 237, 237, 237, 237, 237, 237, 237, 237, 238, 237,
  237, 237, 237, 237, 237, 238, 238, 238, 238, 238, 238, 238, 238, 238, 238, 238, 238, 238, 238,
  238, 238, 238, 238, 238, 238, 238, 238, 238, 238, 238, 238, 238, 238, 235, 235, 235, 235, 235,
  235, 235, 235, 240, 240, 240, 240, 240, 240, 240, 240, 241, 241, 241, 241, 241, 241, 241, 241,
  242, 242, 242, 242, 242, 242, 242, 242, 243, 243, 243, 243, 243, 243, 243, 243, 238, 235, 244,
  235, 235, 245, 245, 240, 240, 240, 240, 240, 240, 240, 240, 241, 241, 241, 241, 241, 241, 241,
  241, 242, 242, 242, 242, 242, 242, 242, 242, 243, 243, 243, 243, 243, 243, 243, 243, 238, 238, 238>>
InstInfos_600 == <<246, 246, 246, 246, 246, 246, 246, 246, 247, 247, 247, 247, 247, 247, 247, 247,
  248, 248, 248, 248, 248, 248, 248, 248, 249, 249, 249, 249, 249, 249, 249, 249, 249, 249, 249,
  249, 249, 249, 249, 249, 249, 249, 249, 249, 249, 249, 249, 249, 249, 249, 249, 249, 249, 249,
  249, 249, 249, 249, 249, 249, 249, 249, 249, 249, 249, 249, 249, 249, 249, 249, 249, 249, 248,
  250, 248, 248, 239, 237, 237, 237, 237, 237, 237, 237, 237, 237, 237, 237, 237, 237, 237, 237,
  237, 237, 237, 237, 237, 237, 237, 237, 237, 249, 238, 249, 249, 249, 249, 249, 249, 237, 238,
  237, 237, 237, 237, 237, 237, 251, 251, 251, 251, 251, 251, 251, 251, 249, 238, 249, 249, 249,
  249, 249, 249, 249, 238, 249, 249, 249, 249, 249, 249, 238, 249, 238, 249, 249, 249, 249, 249, 249>>
InstInfos_750 == <<249, 238, 249, 249, 249, 249, 249, 249, 249, 238, 249, 249, 249, 249, 249, 249,
  249, 238, 249, 249, 249, 249, 249, 249, 251, 252, 251, 251, 245, 248, 245, 248, 246, 246, 246,
  246, 246, 246, 246, 246, 246, 246, 246, 246, 246, 246, 246, 246, 253, 254, 255, 256, 256, 257,
  257, 258, 259, 260, 261, 261, 262, 262, 263, 263, 264, 264, 265, 266, 267, 268, 269, 270, 271,
  271, 272, 273, 273, 274, 274, 274, 274, 275, 276, 277, 278, 278, 278, 278, 279, 279, 136, 136,
  278, 280, 281, 282, 282, 281, 281, 282, 283, 284, 284, 285, 285, 286, 287, 286, 287, 286, 286,
  287, 287, 287, 287, 287, 287, 287, 287, 287, 287, 287, 287, 287, 287, 287, 287, 286, 287, 288,
  289, 290, 291, 296, 297, 298, 299, 304, 305, 305, 309, 310, 312, 313, 312, 313, 304, 315, 309, 310>>
InstInfos_900 == <<316, 316, 316, 316, 288, 289, 296, 297, 317, 318, 319, 320, 321, 322, 323, 324,
  326, 327, 328, 329, 326, 313, 328, 329, 331, 332, 331, 332, 335, 336, 312, 313, 338, 332, 312,
  338, 312, 338, 312, 313, 312, 313, 312, 313, 312, 313, 312, 313, 338, 332, 312, 313, 338, 332,
  332, 313, 339, 332, 313, 313, 313, 312, 313, 338, 332, 312, 313, 338, 332, 312, 313, 338, 332,
  312, 313, 338, 332, 342, 313, 342, 313, 342, 313, 343, 313, 343, 313, 343, 313, 343, 313, 343,
  313, 343, 313, 343, 313, 343, 313, 343, 313, 313, 313, 347, 289, 289, 343, 313, 343, 313, 343,
  313, 351, 353, 356, 357, 358, 359, 360, 361, 361, 361, 361, 291, 365, 297, 297, 369, 370, 371,
  371, 371, 372, 373, 372, 374, 390, 361, 361, 343, 313, 343, 313, 343, 313, 332, 313, 343, 313, 299>>
InstInfos_1050 == <<391, 392, 394, 395, 343, 313, 343, 313, 397, 313, 343, 313, 343, 313, 343, 313,
  397, 313, 343, 313, 397, 313, 343, 313, 343, 313, 397, 313, 397, 313, 343, 313, 313, 332, 313,
  398, 322, 343, 313, 343, 313, 397, 313, 343, 313, 343, 313, 343, 313, 397, 313, 343, 313, 399,
  343, 313, 343, 313, 343, 313, 401, 313, 343, 313, 397, 313, 402, 403, 343, 313, 343, 313, 343,
  313, 401, 313, 343, 313, 343, 313, 343, 313, 239, 405, 239, 405, 238, 406, 238, 406, 239, 405,
  239, 405, 407, 408, 409, 410, 409, 410, 409, 410, 409, 410, 409, 410, 409, 410, 409, 410, 409,
  410, 409, 410, 409, 410, 409, 410, 409, 410, 412, 409, 410, 409, 410, 409, 410, 417, 418, 419,
  417, 418, 417, 421, 421, 422, 421, 417, 418, 419, 417, 418, 417, 412, 421, 421, 421, 421, 421, 421>>
InstInfos_1200 == <<421, 421, 421, 421, 425, 425, 425, 428, 428, 428, 428, 428, 431, 432, 433, 434,
  457, 458, 457, 458, 457, 458, 457, 458, 457, 458, 457, 458, 457, 458, 458, 457, 458, 458, 460,
  460, 277, 460, 277, 460, 390, 390>>
InstInfos == InstInfos_0 \o InstInfos_150 \o InstInfos_300 \o InstInfos_450 \o InstInfos_600 \o
  InstInfos_750 \o InstInfos_900 \o InstInfos_1050 \o InstInfos_1200

\* InstInfosEx: <<sharedIndex, flagsEx, op3, op4, second mnemonic?, third mnemonic?>>.
InstInfosEx_0 == <<<<52, 0, 3, 0, 0, 0>>, <<52, 0, 5, 0, 0, 0>>, <<78, 0, 0, 0, 1, 1>>,
  <<78, 0, 0, 0, 1, 1>>, <<118, 0, 0, 0, 1, 1>>, <<172, 0, 1, 0, 0, 0>>, <<172, 0, 52, 0, 0, 0>>,
  <<172, 0, 1, 0, 0, 0>>, <<172, 0, 52, 0, 0, 0>>, <<292, 65, 0, 0, 0, 0>>, <<292, 65, 0, 0, 0, 0>>,
  <<293, 32, 69, 0, 0, 0>>, <<293, 32, 69, 0, 0, 0>>, <<294, 96, 0, 0, 0, 0>>,
  <<295, 96, 0, 0, 0, 0>>, <<300, 65, 0, 0, 0, 0>>, <<300, 65, 0, 0, 0, 0>>,
  <<293, 32, 69, 0, 0, 0>>, <<293, 32, 69, 0, 0, 0>>, <<301, 96, 0, 0, 0, 0>>,
  <<302, 96, 0, 0, 0, 0>>, <<303, 0, 0, 0, 1, 0>>, <<306, 0, 72, 0, 1, 0>>, <<307, 0, 46, 0, 0, 0>>,
  <<292, 65, 0, 0, 0, 0>>, <<308, 65, 0, 0, 0, 0>>, <<311, 64, 0, 0, 0, 0>>,
  <<311, 64, 0, 0, 0, 0>>, <<314, 1, 90, 0, 0, 0>>, <<314, 1, 90, 0, 0, 0>>,
  <<314, 1, 90, 0, 0, 0>>, <<314, 1, 90, 0, 0, 0>>, <<303, 0, 0, 0, 1, 0>>, <<306, 0, 72, 0, 1, 0>>,
  <<307, 0, 46, 0, 0, 0>>, <<292, 65, 0, 0, 0, 0>>, <<311, 64, 0, 0, 0, 0>>,
  <<311, 64, 0, 0, 0, 0>>, <<292, 65, 0, 0, 0, 0>>, <<292, 65, 0, 0, 0, 0>>,
  <<300, 65, 0, 0, 0, 0>>, <<300, 65, 0, 0, 0, 0>>, <<307, 2, 79, 0, 0, 0>>,
  <<307, 2, 79, 0, 0, 0>>, <<325, 65, 0, 0, 0, 0>>, <<325, 65, 0, 0, 0, 0>>,
  <<330, 66, 0, 0, 0, 0>>, <<330, 66, 0, 0, 0, 0>>, <<330, 66, 0, 0, 0, 0>>,
  <<330, 66, 0, 0, 0, 0>>, <<333, 64, 0, 0, 0, 0>>, <<334, 64, 0, 0, 0, 0>>,
  <<333, 64, 0, 0, 0, 0>>, <<334, 64, 0, 0, 0, 0>>, <<337, 65, 0, 0, 0, 0>>,
  <<337, 65, 0, 0, 0, 0>>, <<292, 65, 0, 0, 0, 0>>, <<292, 65, 0, 0, 0, 0>>,
  <<307, 0, 71, 0, 0, 0>>, <<307, 0, 72, 0, 0, 0>>, <<292, 65, 0, 0, 0, 0>>,
  <<307, 0, 71, 0, 0, 0>>, <<292, 65, 0, 0, 0, 0>>, <<307, 0, 71, 0, 0, 0>>,
  <<314, 1, 90, 0, 0, 0>>, <<314, 1, 90, 0, 0, 0>>, <<314, 1, 90, 0, 0, 0>>,
  <<314, 1, 90, 0, 0, 0>>, <<314, 1, 90, 0, 0, 0>>, <<314, 1, 90, 0, 0, 0>>,
  <<314, 1, 90, 0, 0, 0>>, <<314, 1, 90, 0, 0, 0>>, <<314, 1, 90, 0, 0, 0>>,
  <<314, 1, 90, 0, 0, 0>>, <<307, 0, 71, 0, 0, 0>>, <<307, 0, 72, 0, 0, 0>>,
  <<314, 1, 90, 0, 0, 0>>, <<314, 1, 90, 0, 0, 0>>, <<307, 0, 71, 0, 0, 0>>,
  <<307, 0, 72, 0, 0, 0>>, <<340, 65, 0, 0, 0, 0>>, <<341, 65, 0, 0, 0, 0>>,
  <<307, 0, 71, 0, 0, 0>>, <<307, 0, 72, 0, 0, 0>>, <<292, 65, 0, 0, 0, 0>>,
  <<292, 65, 0, 0, 0, 0>>, <<292, 65, 0, 0, 0, 0>>, <<314, 1, 90, 0, 0, 0>>,
  <<314, 1, 90, 0, 0, 0>>, <<307, 0, 71, 0, 0, 0>>, <<307, 0, 72, 0, 0, 0>>,
  <<314, 1, 90, 0, 0, 0>>, <<314, 1, 90, 0, 0, 0>>, <<307, 0, 71, 0, 0, 0>>,
  <<307, 0, 72, 0, 0, 0>>, <<314, 1, 90, 0, 0, 0>>, <<314, 1, 90, 0, 0, 0>>,
  <<307, 0, 71, 0, 0, 0>>, <<307, 0, 72, 0, 0, 0>>, <<314, 1, 90, 0, 0, 0>>,
  <<314, 1, 90, 0, 0, 0>>, <<307, 0, 71, 0, 0, 0>>, <<307, 0, 72, 0, 0, 0>>,
  <<307, 0, 73, 0, 0, 0>>, <<307, 0, 73, 0, 0, 0>>, <<307, 0, 73, 0, 0, 0>>,
  <<307, 0, 73, 0, 0, 0>>, <<307, 0, 73, 0, 0, 0>>, <<307, 0, 73, 0, 0, 0>>,
  <<307, 0, 73, 0, 0, 0>>, <<307, 0, 73, 0, 0, 0>>, <<307, 0, 73, 0, 0, 0>>,
  <<307, 0, 73, 0, 0, 0>>, <<307, 0, 73, 0, 0, 0>>, <<307, 0, 73, 0, 0, 0>>,
  <<307, 0, 73, 0, 0, 0>>, <<307, 0, 73, 0, 0, 0>>, <<344, 0, 0, 0, 0, 1>>, <<345, 0, 0, 0, 0, 1>>,
  <<346, 70, 0, 0, 1, 0>>, <<292, 65, 0, 0, 0, 0>>, <<292, 65, 0, 0, 0, 0>>, <<348, 0, 1, 0, 0, 0>>,
  <<349, 0, 1, 0, 0, 0>>, <<349, 0, 1, 0, 0, 0>>, <<349, 0, 1, 0, 0, 0>>, <<350, 64, 1, 0, 0, 0>>,
  <<350, 64, 1, 0, 0, 0>>>>
InstInfosEx_128 == <<<<350, 64, 1, 0, 0, 0>>, <<307, 0, 73, 0, 0, 0>>, <<307, 0, 73, 0, 0, 0>>,
  <<307, 0, 73, 0, 0, 0>>, <<352, 73, 0, 0, 1, 0>>, <<354, 0, 8, 0, 0, 0>>, <<355, 0, 7, 8, 0, 0>>,
  <<314, 1, 90, 0, 0, 0>>, <<314, 1, 90, 0, 0, 0>>, <<314, 1, 90, 0, 0, 0>>,
  <<314, 1, 90, 0, 0, 0>>, <<362, 0, 0, 0, 0, 1>>, <<363, 0, 0, 0, 0, 1>>, <<364, 70, 0, 0, 1, 0>>,
  <<334, 64, 0, 0, 0, 0>>, <<300, 65, 0, 0, 0, 0>>, <<300, 65, 0, 0, 0, 0>>, <<366, 0, 0, 0, 0, 1>>,
  <<367, 0, 0, 0, 1, 1>>, <<367, 0, 0, 0, 1, 1>>, <<368, 0, 0, 0, 1, 0>>, <<375, 0, 0, 0, 1, 1>>,
  <<376, 0, 0, 0, 1, 1>>, <<377, 0, 0, 0, 1, 1>>, <<378, 0, 0, 0, 1, 1>>, <<379, 1, 90, 0, 1, 1>>,
  <<379, 1, 90, 0, 1, 1>>, <<380, 0, 71, 0, 1, 1>>, <<380, 0, 72, 0, 1, 1>>, <<381, 0, 1, 0, 0, 0>>,
  <<382, 0, 1, 0, 0, 0>>, <<383, 0, 25, 1, 0, 0>>, <<384, 0, 1, 0, 0, 0>>, <<385, 0, 1, 0, 0, 0>>,
  <<386, 64, 1, 0, 0, 0>>, <<387, 0, 1, 0, 0, 0>>, <<349, 0, 1, 0, 0, 0>>, <<388, 1, 90, 1, 0, 0>>,
  <<388, 1, 90, 1, 0, 0>>, <<389, 0, 0, 0, 0, 1>>, <<314, 1, 90, 0, 0, 0>>, <<314, 1, 90, 0, 0, 0>>,
  <<307, 0, 73, 0, 0, 0>>, <<307, 0, 73, 0, 0, 0>>, <<307, 0, 73, 0, 0, 0>>,
  <<307, 0, 73, 0, 0, 0>>, <<307, 0, 73, 0, 0, 0>>, <<393, 64, 0, 0, 0, 0>>,
  <<396, 64, 0, 0, 0, 0>>, <<307, 0, 73, 0, 0, 0>>, <<307, 0, 73, 0, 0, 0>>,
  <<307, 0, 73, 0, 0, 0>>, <<307, 0, 73, 0, 0, 0>>, <<307, 0, 73, 0, 0, 0>>,
  <<307, 0, 73, 0, 0, 0>>, <<307, 0, 73, 0, 0, 0>>, <<307, 0, 73, 0, 0, 0>>,
  <<307, 0, 73, 0, 0, 0>>, <<307, 0, 73, 0, 0, 0>>, <<307, 0, 73, 0, 0, 0>>,
  <<307, 0, 73, 0, 0, 0>>, <<307, 0, 73, 0, 0, 0>>, <<307, 0, 73, 0, 0, 0>>,
  <<341, 65, 0, 0, 0, 0>>, <<340, 65, 0, 0, 0, 0>>, <<341, 65, 0, 0, 0, 0>>,
  <<325, 65, 0, 0, 0, 0>>, <<307, 0, 73, 0, 0, 0>>, <<307, 0, 73, 0, 0, 0>>,
  <<307, 0, 73, 0, 0, 0>>, <<307, 0, 73, 0, 0, 0>>, <<307, 0, 73, 0, 0, 0>>,
  <<307, 0, 73, 0, 0, 0>>, <<307, 0, 73, 0, 0, 0>>, <<307, 0, 73, 0, 0, 0>>,
  <<400, 65, 0, 0, 0, 0>>, <<307, 0, 73, 0, 0, 0>>, <<307, 0, 73, 0, 0, 0>>,
  <<307, 0, 73, 0, 0, 0>>, <<307, 0, 73, 0, 0, 0>>, <<307, 0, 73, 0, 0, 0>>,
  <<307, 0, 73, 0, 0, 0>>, <<404, 64, 0, 0, 0, 0>>, <<307, 0, 73, 0, 0, 0>>,
  <<307, 0, 73, 0, 0, 0>>, <<307, 0, 73, 0, 0, 0>>, <<307, 0, 73, 0, 0, 0>>,
  <<307, 0, 73, 0, 0, 0>>, <<307, 0, 73, 0, 0, 0>>, <<307, 0, 73, 0, 0, 0>>,
  <<307, 0, 73, 0, 0, 0>>, <<307, 0, 73, 0, 0, 0>>, <<307, 0, 73, 0, 0, 0>>,
  <<307, 0, 73, 0, 0, 0>>, <<307, 0, 73, 0, 0, 0>>, <<307, 0, 73, 0, 0, 0>>,
  <<307, 0, 73, 0, 0, 0>>, <<307, 0, 73, 0, 0, 0>>, <<307, 0, 73, 0, 0, 0>>,
  <<307, 0, 73, 0, 0, 0>>, <<307, 0, 73, 0, 0, 0>>, <<307, 0, 73, 0, 0, 0>>,
  <<314, 1, 90, 0, 0, 0>>, <<314, 1, 90, 0, 0, 0>>, <<292, 65, 0, 0, 0, 0>>,
  <<292, 65, 0, 0, 0, 0>>, <<411, 0, 74, 0, 0, 0>>, <<411, 0, 74, 0, 0, 0>>,
  <<411, 0, 74, 0, 0, 0>>, <<292, 65, 0, 0, 0, 0>>, <<413, 65, 0, 0, 0, 0>>,
  <<414, 80, 0, 0, 0, 0>>, <<415, 80, 0, 0, 0, 0>>, <<416, 64, 0, 0, 0, 0>>,
  <<416, 64, 0, 0, 0, 0>>, <<416, 64, 0, 0, 0, 0>>, <<334, 64, 0, 0, 0, 0>>,
  <<333, 64, 0, 0, 0, 0>>, <<420, 64, 0, 0, 0, 0>>, <<334, 64, 0, 0, 0, 0>>,
  <<333, 64, 0, 0, 0, 0>>, <<334, 64, 0, 0, 0, 0>>, <<307, 0, 73, 0, 0, 0>>,
  <<307, 0, 73, 0, 0, 0>>, <<423, 64, 0, 0, 0, 0>>, <<307, 0, 73, 0, 0, 0>>,
  <<314, 1, 92, 0, 0, 0>>, <<314, 1, 92, 0, 0, 0>>>>
InstInfosEx_256 == <<<<424, 1, 83, 0, 0, 0>>, <<424, 1, 83, 0, 0, 0>>, <<334, 64, 0, 0, 0, 0>>,
  <<333, 64, 0, 0, 0, 0>>, <<420, 64, 0, 0, 0, 0>>, <<334, 64, 0, 0, 0, 0>>,
  <<333, 64, 0, 0, 0, 0>>, <<334, 64, 0, 0, 0, 0>>, <<307, 0, 73, 0, 0, 0>>,
  <<307, 0, 73, 0, 0, 0>>, <<307, 0, 73, 0, 0, 0>>, <<307, 0, 73, 0, 0, 0>>,
  <<307, 0, 73, 0, 0, 0>>, <<307, 0, 73, 0, 0, 0>>, <<307, 0, 73, 0, 0, 0>>,
  <<307, 0, 73, 0, 0, 0>>, <<307, 0, 73, 0, 0, 0>>, <<307, 0, 73, 0, 0, 0>>,
  <<416, 64, 0, 0, 0, 0>>, <<426, 7, 90, 0, 1, 0>>, <<426, 7, 90, 0, 1, 0>>,
  <<426, 7, 90, 0, 1, 0>>, <<427, 6, 80, 0, 1, 0>>, <<426, 7, 90, 0, 1, 0>>,
  <<427, 6, 80, 0, 1, 0>>, <<426, 7, 90, 0, 1, 0>>, <<427, 6, 80, 0, 1, 0>>,
  <<426, 7, 90, 0, 1, 0>>, <<427, 6, 80, 0, 1, 0>>, <<426, 7, 90, 0, 1, 0>>,
  <<426, 7, 90, 0, 1, 0>>, <<426, 7, 90, 0, 1, 0>>, <<427, 6, 80, 0, 1, 0>>,
  <<426, 7, 90, 0, 1, 0>>, <<427, 6, 80, 0, 1, 0>>, <<426, 7, 90, 0, 1, 0>>,
  <<427, 6, 80, 0, 1, 0>>, <<426, 7, 90, 0, 1, 0>>, <<427, 6, 80, 0, 1, 0>>,
  <<426, 7, 90, 0, 1, 0>>, <<426, 7, 90, 0, 1, 0>>, <<426, 7, 90, 0, 1, 0>>,
  <<427, 6, 80, 0, 1, 0>>, <<426, 7, 90, 0, 1, 0>>, <<427, 6, 80, 0, 1, 0>>,
  <<426, 7, 90, 0, 1, 0>>, <<427, 6, 80, 0, 1, 0>>, <<426, 7, 90, 0, 1, 0>>,
  <<427, 6, 80, 0, 1, 0>>, <<429, 64, 0, 0, 0, 0>>, <<430, 0, 73, 0, 0, 0>>,
  <<430, 0, 73, 0, 0, 0>>, <<430, 0, 73, 0, 0, 0>>, <<430, 0, 73, 0, 0, 0>>,
  <<435, 65, 1, 0, 0, 0>>, <<435, 65, 1, 0, 0, 0>>, <<436, 16, 86, 1, 0, 0>>,
  <<411, 0, 1, 0, 0, 0>>, <<435, 65, 1, 0, 0, 0>>, <<411, 0, 1, 0, 0, 0>>, <<435, 65, 1, 0, 0, 0>>,
  <<437, 0, 1, 0, 0, 0>>, <<383, 0, 71, 1, 0, 0>>, <<438, 0, 1, 0, 0, 0>>, <<383, 0, 72, 1, 0, 0>>,
  <<411, 0, 1, 0, 0, 0>>, <<388, 1, 90, 1, 0, 0>>, <<411, 0, 1, 0, 0, 0>>, <<388, 1, 90, 1, 0, 0>>,
  <<411, 0, 1, 0, 0, 0>>, <<383, 0, 73, 1, 0, 0>>, <<439, 0, 1, 0, 0, 0>>, <<440, 0, 1, 0, 0, 0>>,
  <<383, 0, 73, 1, 0, 0>>, <<441, 0, 1, 0, 0, 0>>, <<442, 64, 1, 0, 0, 0>>, <<443, 0, 1, 0, 0, 0>>,
  <<444, 64, 1, 0, 0, 0>>, <<445, 0, 1, 0, 0, 1>>, <<446, 70, 1, 0, 1, 0>>, <<447, 0, 1, 0, 0, 0>>,
  <<448, 64, 1, 0, 0, 0>>, <<436, 16, 73, 1, 0, 0>>, <<449, 80, 1, 0, 0, 0>>,
  <<450, 0, 1, 0, 0, 0>>, <<383, 0, 76, 1, 0, 0>>, <<437, 0, 1, 0, 0, 0>>, <<383, 0, 71, 1, 0, 0>>,
  <<451, 0, 1, 0, 0, 1>>, <<383, 6, 79, 1, 1, 0>>, <<411, 0, 1, 0, 0, 0>>, <<388, 1, 90, 1, 0, 0>>,
  <<411, 0, 1, 0, 0, 0>>, <<383, 0, 73, 1, 0, 0>>, <<411, 0, 1, 0, 0, 0>>, <<383, 0, 73, 1, 0, 0>>,
  <<452, 0, 1, 0, 0, 0>>, <<453, 0, 73, 1, 0, 0>>, <<388, 1, 90, 84, 0, 0>>,
  <<388, 1, 90, 84, 0, 0>>, <<383, 0, 73, 82, 0, 0>>, <<454, 0, 1, 0, 0, 0>>,
  <<350, 64, 1, 0, 0, 0>>, <<454, 0, 1, 0, 0, 0>>, <<350, 64, 1, 0, 0, 0>>, <<454, 0, 1, 0, 0, 0>>,
  <<350, 64, 1, 0, 0, 0>>, <<454, 0, 1, 0, 0, 0>>, <<350, 64, 1, 0, 0, 0>>, <<455, 0, 1, 0, 0, 0>>,
  <<456, 64, 1, 0, 0, 0>>, <<459, 0, 1, 0, 0, 0>>, <<459, 0, 1, 0, 0, 0>>, <<459, 0, 1, 0, 0, 0>>,
  <<459, 0, 1, 0, 0, 0>>, <<459, 0, 1, 0, 0, 0>>, <<459, 0, 1, 0, 0, 0>>, <<459, 0, 1, 0, 0, 0>>,
  <<459, 0, 1, 0, 0, 0>>, <<459, 0, 1, 0, 0, 0>>, <<459, 0, 1, 0, 0, 0>>, <<366, 0, 0, 0, 0, 1>>,
  <<366, 0, 0, 0, 0, 1>>, <<461, 64, 0, 0, 0, 0>>, <<461, 64, 0, 0, 0, 0>>, <<462, 0, 0, 0, 1, 0>>>>
InstInfosEx == InstInfosEx_0 \o InstInfosEx_128 \o InstInfosEx_256
JccRows == (101 .. 116) \cup (250 .. 265)   \* I_JO .. I_JG


-----------------------------------------------------------------------------
\* What inst_lookup returns: a row of one of the two tables, one of the rows that
\* have a variable of their own, or NULL; a row with all that is shared of it.
Row(table, n) == [table |-> table, row |-> n]
Null == Row("NULL", 0)
TypeAt(index) == IF index = 0 THEN "NONE" ELSE OpTypes[index]
Described(table, n, shared, ex) ==
  [table |-> table, row |-> n, flags |-> FlagsTable[shared[1] + 1], meta |-> shared[4],
   ops |-> <<TypeAt(shared[3]), TypeAt(shared[2]), TypeAt(ex[2]), TypeAt(ex[3])>>,
   flagsEx |-> ex[1], mnemonics |-> {1} \cup {m \in {2, 3} : ex[m + 2] = 1}]
NoEx == <<0, 0, 0, 0, 0>>
SharedAt(index) == InstSharedInfoTable[index + 1]
InfoRow(n)   == Described("InstInfos", n, SharedAt(InstInfos[n + 1]), NoEx)
InfoExRow(n) == Described("InstInfosEx", n, SharedAt(InstInfosEx[n + 1][1]), Tail(InstInfosEx[n + 1]))
\* A node that is no row but is taken for a row of InstInfosEx.
Wild == Described("WILD", 0, SharedAt(0), NoEx)
OwnRows == [MOVSXD |-> 463, NOP |-> 83, PAUSE |-> 136, NOW3D |-> 464]
OwnRow(named) == Described(named, 0, SharedAt(OwnRows[named]), NoEx)

-----------------------------------------------------------------------------
\* The tree with its nodes <<type, row or table>>.  Rows and tables are numbered in
\* the order of the nodes: how many of some types come before each table?
CountIn(table, types) == Len(SelectSeq(table, LAMBDA type : type \in types))
NumbersFrom(first, tables, types) ==
  FoldLeft(LAMBDA numbers, table : Append(numbers, Last(numbers) + CountIn(table, types)), <<first>>, tables)

Joined(tables, infos, infoExs, lists) ==
  LET number(from, types, t, k) == from[t] + CountIn(SubSeq(tables[t], 1, k - 1), types)
      table[t \in DOMAIN tables] == [k \in DOMAIN tables[t] |-> <<tables[t][k],
        CASE tables[t][k] = INFO      -> InfoRow(number(infos, {INFO}, t, k))
          [] tables[t][k] = INFOEX    -> InfoExRow(number(infoExs, {INFOEX}, t, k))
          [] tables[t][k] \in Lists   -> table[number(lists, Lists, t, k)]
          [] tables[t][k] = NOTEXISTS -> Null>>]
  IN  [named \in {Table_First, Table_0F, Table_0F_0F, Table_0F_38, Table_0F_3A} |-> table[named + 1]]
Join(tables) ==
  Joined(tables, NumbersFrom(0, tables, {INFO}), NumbersFrom(0, tables, {INFOEX}), NumbersFrom(2, tables, Lists))
InstructionsTree == Join(Tables)
=============================================================================
