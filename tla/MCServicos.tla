----------------------------- MODULE MCServicos -----------------------------
(***************************************************************************)
(* Instance for TLC of the attendance queue and of four services of the    *)
(* API that share no state with it: the tree of territories, where people  *)
(* live and vote, the files, and the registration of people.  A behaviour  *)
(* is one of the queue, of a single service or of a part of one, with the  *)
(* others as they are at the start.                                        *)
(***************************************************************************)
EXTENDS FilaAtendimento, TerritorioHierarquia, PessoaTerritorio, ArquivosAnexos,
        CadastroPessoas, TLC

CONSTANTS
    p1, p2, b1, b2, d1, d2,   \* people, neighbourhoods, owners of files
    m2                        \* the municipality of b2

VARIABLE area

varsServicos == <<vars, varsTerritorio, varsPessoaT, arqVars, varsCadastro, area>>

Codigos == [t \in Territorios |-> IF t \in {m2, b2} THEN 2 ELSE 1]

\* A photo, the logo of a tenant and the evidence of an execution.
Origens0 == [d \in Donos |-> CASE d = d1 -> "pessoa" [] d = d2 -> "tenant" [] OTHER -> "execucao"]

\* One address of p2 already there, or the links somebody made for p1 by hand.
InitPessoaMC ==
    /\ vivas = PessoasT
    /\ item = [i \in Itens |->
          IF i = 1 /\ area = "endereco"
            THEN [dono |-> p2, tipo |-> "residencial", principal |-> "sim", bairro |-> b2]
            ELSE ItemLivre]
    /\ eleitor = [p \in PessoasT |-> "semEleitor"] /\ votacao = [p \in PessoasT |-> {}]
    /\ alteracao = [r \in Alteracoes0 |-> AlteracaoLivre]
    /\ operacoes = 0 /\ ligacoes = 0
    /\ votoMexido = [p \in PessoasT |-> "nao"]
    /\ \E manuais \in IF area = "endereco" THEN {{}, {b1}, {b1, b2}} ELSE {{}} :
          /\ mexida = [p \in PessoasT |-> IF p = p1 /\ manuais # {} THEN "sim" ELSE "nao"]
          /\ moradia = [p \in PessoasT |-> [e \in Elos |->
                CASE p = p1 /\ e = 1 /\ b1 \in manuais -> b1
                  [] p = p1 /\ e = 2 /\ b2 \in manuais -> b2
                  [] p = p2 /\ e = 1 /\ area = "endereco" -> b2
                  [] OTHER -> Nenhum]]

InitServicos ==
    /\ area \in {"fila", "territorio", "endereco", "contato", "voto", "arquivo",
                 "registro", "familia", "tipos"}
    /\ Init /\ InitTerritorio /\ InitPessoaMC /\ InitArquivos /\ InitCadastro
    /\ area # "fila" => (\A p \in Pessoas : telefone[p] = Nada) /\ \A l \in Limites : limite <= l

\* The requests of the area "endereco" are about p1; p2 is merged into it, or it into p2.
NextPessoaMC ==
    \/ area = "endereco" /\ NextEnderecos /\ \A r \in Alteracoes0 : alteracao'[r].novo.dono # p2
    \/ area = "contato" /\ NextContatos
    \/ area = "voto" /\ NextVotos

NextCadastroMC ==
    \/ area = "registro" /\ NextRegistro
    \/ area = "familia" /\ NextFamilia
    \/ area = "tipos" /\ NextTroca

NextServicos ==
    /\ UNCHANGED area
    /\ \/ /\ area = "fila" /\ Next
          /\ UNCHANGED <<varsTerritorio, varsPessoaT, arqVars, varsCadastro>>
       \/ /\ area = "territorio" /\ NextTerritorio
          /\ UNCHANGED <<vars, varsPessoaT, arqVars, varsCadastro>>
       \/ /\ NextPessoaMC
          /\ UNCHANGED <<vars, varsTerritorio, arqVars, varsCadastro>>
       \/ /\ area = "arquivo" /\ NextArquivos
          /\ UNCHANGED <<vars, varsTerritorio, varsPessoaT, varsCadastro>>
       \/ /\ NextCadastroMC
          /\ UNCHANGED <<vars, varsTerritorio, varsPessoaT, arqVars>>

SpecServicos == InitServicos /\ [][NextServicos]_varsServicos

\* The requests of a service have the names of the operators or of the requests
\* of the queue: nothing tells them apart.
SimetriaServicos == Permutations(Operadores) \cup Permutations(Requisicoes)
=============================================================================
