-------------------------- MODULE PessoaTerritorio --------------------------
(***************************************************************************)
(* Where a person lives and votes (mod_cadastro, mod_territorio and the    *)
(* triggers of migrations 022 and 023).  Addresses and contacts have one   *)
(* principal of each type, kept by the handlers without a lock or an       *)
(* index.  A trigger on the addresses keeps the "moradia" link of the      *)
(* person to a territory, another on the voter the "votacao" link; people  *)
(* also make links by hand, and a merge copies those of the source.        *)
(*                                                                         *)
(* A territory is named by its neighbourhood: migration 022 has one for    *)
(* each.  A handler is a read, the writes of its flush with their trigger, *)
(* and the commit; what it has written is seen by nobody else until then.  *)
(***************************************************************************)
EXTENDS Integers, FiniteSets

CONSTANTS
    PessoasT,         \* ids of cadastro.pessoa (bound)
    Itens,            \* ids of pessoa_endereco and pessoa_contato (bound)
    BairrosT,         \* neighbourhoods
    Elos,             \* ids of the "moradia" links of a person, in their order (bound)
    Alteracoes0,      \* requests under way (bound)
    MaxAlteracoes,    \* operations in all (bound)
    MaxLigacoes,      \* links made or removed by hand (bound)
    Nenhum            \* no person, no neighbourhood, no link

ASSUME IdsNumerados == Elos \subseteq Nat /\ Itens \subseteq Nat
ASSUME NenhumFora == Nenhum \notin BairrosT \cup PessoasT \cup Elos
ASSUME BairroNaoEhMarca == {"semEleitor", "semLocal"} \cap BairrosT = {}

TiposEndereco == {"residencial", "comercial"}

VARIABLES
    vivas,            \* people that are not excluido_em
    item,             \* id -> address or contact
    eleitor,          \* person -> "semEleitor", "semLocal" or the neighbourhood of the place
    moradia,          \* person -> link -> neighbourhood of the territory, or Nenhum
    votacao,          \* person -> the neighbourhoods of the "votacao" links
    alteracao,        \* the requests under way
    operacoes, ligacoes,  \* how many so far
    mexida,           \* history: person -> the last address change was not alone
    votoMexido        \* history: person -> linked by hand or merged since the last voter change

varsPessoaT == <<vivas, item, eleitor, moradia, votacao, alteracao, operacoes, ligacoes,
                 mexida, votoMexido>>

ItemLivre == [dono |-> Nenhum, tipo |-> "livre", principal |-> "nao", bairro |-> Nenhum]

AlteracaoLivre == [passo |-> "livre", item |-> Nenhum, novo |-> ItemLivre, campos |-> {},
                   limpar |-> {}, op |-> "nada", elo |-> Nenhum, destino |-> Nenhum,
                   tocados |-> {}, fresca |-> "sim"]

InitPessoaT ==
    /\ vivas = PessoasT
    /\ item = [i \in Itens |-> ItemLivre]
    /\ eleitor = [p \in PessoasT |-> "semEleitor"]
    /\ moradia = [p \in PessoasT |-> [e \in Elos |-> Nenhum]]
    /\ votacao = [p \in PessoasT |-> {}]
    /\ alteracao = [r \in Alteracoes0 |-> AlteracaoLivre]
    /\ operacoes = 0 /\ ligacoes = 0
    /\ mexida = [p \in PessoasT |-> "nao"] /\ votoMexido = [p \in PessoasT |-> "nao"]

Operar == operacoes < MaxAlteracoes /\ operacoes' = operacoes + 1

Primeiro(S) == CHOOSE x \in S : \A y \in S : x <= y

DoDono(itens, p) == {i \in Itens : itens[i].dono = p}

Principais(itens, p, tipo) ==
    {i \in DoDono(itens, p) : itens[i].tipo = tipo /\ itens[i].principal = "sim"}

-----------------------------------------------------------------------------
\* fn_sincroniza_pessoa_territorio_moradia: the residential address that
\* counts is the principal one, or the first.
Residenciais(itens, p) == {i \in DoDono(itens, p) : itens[i].tipo = "residencial"}

BairroDe(itens, p) ==
    LET todos == Residenciais(itens, p)
        principais == Principais(itens, p, "residencial")
    IN IF todos = {} THEN Nenhum
       ELSE itens[Primeiro(IF principais # {} THEN principais ELSE todos)].bairro

EmUso(p) == {e \in Elos : moradia[p][e] # Nenhum}

ElosLivres(p) ==
    {e \in Elos \ EmUso(p) :
        \A r \in Alteracoes0 : ~(alteracao[r].op = "novo" /\ alteracao[r].elo = e)}

EloNovo(p) == Primeiro(ElosLivres(p))

\* There is an id for the link a trigger would insert (bound).
CabeElo(p) == EmUso(p) = {} => ElosLivres(p) # {}

\* What is done with the links: delete them, leave the one that is right, change
\* the first one, or insert one.
Decisao(p, destino) ==
    LET certos == {e \in EmUso(p) : moradia[p][e] = destino}
    IN IF destino = Nenhum THEN [op |-> "nenhum", elo |-> Nenhum, destino |-> Nenhum]
       ELSE IF certos # {} THEN [op |-> "manter", elo |-> Primeiro(certos), destino |-> destino]
       ELSE IF EmUso(p) # {} THEN [op |-> "trocar", elo |-> Primeiro(EmUso(p)), destino |-> destino]
       ELSE [op |-> "novo", elo |-> EloNovo(p), destino |-> destino]

\* The function for who has the person's rows for himself: one link, or none.
Sincronizada(itens, p) ==
    LET d == Decisao(p, BairroDe(itens, p))
    IN [e \in Elos |-> IF e = d.elo THEN d.destino ELSE Nenhum]

-----------------------------------------------------------------------------
\* A request to add item i to p or to change some columns of it: the check
\* that the person and the item are there, and the current principals.
Comum(r) == alteracao[r].passo # "livre"

OutrasDe(p) == {r \in Alteracoes0 : Comum(r) /\ alteracao[r].novo.dono = p}

Envelhecer(m, p) ==
    [r \in Alteracoes0 |-> IF r \in OutrasDe(p) THEN [m[r] EXCEPT !.fresca = "nao"] ELSE m[r]]

LerItem(r, i, novo, campos) ==
    LET p == novo.dono
        pede == "principal" \in campos /\ novo.principal = "sim"
    IN /\ alteracao[r].passo = "livre" /\ p \in vivas
       /\ alteracao' = [Envelhecer(alteracao, p) EXCEPT ![r] =
              [AlteracaoLivre EXCEPT
                 !.passo = "lido", !.item = i, !.novo = novo, !.campos = campos,
                 !.limpar = IF pede THEN Principais(item, p, novo.tipo) \ {i} ELSE {},
                 !.fresca = IF OutrasDe(p) = {} THEN "sim" ELSE "nao"]]
       /\ UNCHANGED <<vivas, item, eleitor, moradia, votacao, ligacoes, mexida, votoMexido>>

TodosCampos == {"dono", "tipo", "principal", "bairro"}

Adicionar(r, tipos) ==
    \E p \in vivas, tipo \in tipos, principal \in {"sim", "nao"} :
    \E b \in IF tipo = "telefone" THEN {Nenhum} ELSE BairrosT \cup {Nenhum} :
    LET livres == {i \in Itens : item[i] = ItemLivre /\ \A q \in Alteracoes0 : alteracao[q].item # i}
    IN /\ livres # {} /\ Operar
       /\ LerItem(r, Primeiro(livres),
                  [dono |-> p, tipo |-> tipo, principal |-> principal, bairro |-> b], TodosCampos)

\* PATCH: the principal flag, the type or the neighbourhood; contacts keep their type.
Mudar(r) ==
    \E i \in Itens :
    /\ item[i].dono # Nenhum /\ Operar
    /\ \/ \E v \in {"sim", "nao"} \ {item[i].principal} :
             LerItem(r, i, [item[i] EXCEPT !.principal = v], {"principal"})
       \/ /\ item[i].tipo \in TiposEndereco
          /\ \/ \E t \in TiposEndereco \ {item[i].tipo} :
                   LerItem(r, i, [item[i] EXCEPT !.tipo = t], {"tipo"})
             \/ \E b \in (BairrosT \cup {Nenhum}) \ {item[i].bairro} :
                   LerItem(r, i, [item[i] EXCEPT !.bairro = b], {"bairro"})

-----------------------------------------------------------------------------
\* The flush.  cadastro.endereco and pessoa_endereco are two rows with a lock each.
Linhas(r) ==
    {<<i, "vinculo">> : i \in alteracao[r].limpar}
    \cup {<<alteracao[r].item, IF alteracao[r].campos = {"bairro"} THEN "endereco" ELSE "vinculo">>}

Escreveu(r) == alteracao[r].passo \in {"gravado", "ligado"}

\* A row with the columns a request writes.
Escrita(linha, novo, campos) ==
    [dono |-> IF "dono" \in campos THEN novo.dono ELSE linha.dono,
     tipo |-> IF "tipo" \in campos THEN novo.tipo ELSE linha.tipo,
     principal |-> IF "principal" \in campos THEN novo.principal ELSE linha.principal,
     bairro |-> IF "bairro" \in campos THEN novo.bairro ELSE linha.bairro]

\* Mutant: the other principals stay.
DepoisSemLimpar(r, itens) ==
    [itens EXCEPT ![alteracao[r].item] = Escrita(@, alteracao[r].novo, alteracao[r].campos)]

Depois(r, itens) ==
    LET a == alteracao[r]
    IN [i \in Itens |->
          IF i = a.item THEN Escrita(itens[i], a.novo, a.campos)
          ELSE IF i \in a.limpar THEN [itens[i] EXCEPT !.principal = "nao"] ELSE itens[i]]

DoEndereco(r) == alteracao[r].novo.tipo \in TiposEndereco

Resto == <<vivas, item, eleitor, moradia, votacao, operacoes, ligacoes, mexida, votoMexido>>

\* The rows, and what the trigger finds after them.
GravarItens(r) ==
    LET p == alteracao[r].novo.dono
        d == Decisao(p, BairroDe(Depois(r, item), p))
    IN /\ alteracao[r].passo = "lido" /\ (DoEndereco(r) => CabeElo(p))
       /\ \A q \in Alteracoes0 \ {r} : Escreveu(q) => Linhas(q) \cap Linhas(r) = {}
       /\ alteracao' = [alteracao EXCEPT ![r] =
              IF DoEndereco(r)
                THEN [@ EXCEPT !.passo = "gravado", !.op = d.op, !.elo = d.elo, !.destino = d.destino]
                ELSE [@ EXCEPT !.passo = "ligado"]]
       /\ UNCHANGED Resto

DeOutras(r) ==
    {q \in OutrasDe(alteracao[r].novo.dono) \ {r} : DoEndereco(q) /\ alteracao[q].passo = "ligado"}

\* What the trigger does with the links it sees now: it waits for the rows
\* another transaction has written and for a territory it is linking to.
GravarMoradia(r) ==
    LET a == alteracao[r]
        p == a.novo.dono
        escreve == a.op \in {"trocar", "novo"}
        existe == a.op # "trocar" \/ a.elo \in EmUso(p)
        tocados == {e \in EmUso(p) : e # a.elo \/ a.op = "trocar"}
        repetido == escreve /\ existe /\ \E e \in EmUso(p) \ {a.elo} : moradia[p][e] = a.destino
    IN /\ a.passo = "gravado"
       /\ \A q \in DeOutras(r) :
             /\ alteracao[q].tocados \cap tocados = {}
             /\ escreve /\ alteracao[q].op \in {"trocar", "novo"} => alteracao[q].destino # a.destino
       /\ alteracao' = [alteracao EXCEPT ![r] =
              IF repetido THEN [@ EXCEPT !.passo = "falhou"]
              ELSE [@ EXCEPT !.passo = "ligado", !.tocados = tocados,
                             !.op = IF existe THEN a.op ELSE "nenhum"]]
       /\ UNCHANGED Resto

\* Mutant: the other links stay.
MoradiaSemApagar(r) ==
    [e \in Elos |->
        IF e = alteracao[r].elo /\ alteracao[r].op \in {"trocar", "novo"} THEN alteracao[r].destino
        ELSE moradia[alteracao[r].novo.dono][e]]

MoradiaDepois(r) ==
    LET a == alteracao[r]
        p == a.novo.dono
    IN [e \in Elos |->
          IF e = a.elo /\ a.op \in {"trocar", "novo"} THEN a.destino
          ELSE IF e \in a.tocados THEN Nenhum ELSE moradia[p][e]]

\* The rows it changes are still there.
Presentes(r) ==
    \A i \in alteracao[r].limpar \cup (IF alteracao[r].campos = TodosCampos THEN {} ELSE {alteracao[r].item}) :
        item[i].dono # Nenhum

ConfirmarItens(r) ==
    LET a == alteracao[r]
        p == a.novo.dono
    IN /\ a.passo = "ligado" /\ Presentes(r)
       /\ item' = Depois(r, item)
       /\ IF DoEndereco(r)
            THEN /\ moradia' = [moradia EXCEPT ![p] = MoradiaDepois(r)]
                 /\ mexida' = [mexida EXCEPT ![p] = IF a.fresca = "sim" THEN "nao" ELSE "sim"]
            ELSE UNCHANGED <<moradia, mexida>>
       /\ alteracao' = [alteracao EXCEPT ![r] = AlteracaoLivre]
       /\ UNCHANGED <<vivas, eleitor, votacao, operacoes, ligacoes, votoMexido>>

\* The unique index of the links, or a contact that is gone.
Falhar(r) ==
    /\ \/ alteracao[r].passo = "falhou"
       \/ alteracao[r].passo = "ligado" /\ ~Presentes(r)
    /\ alteracao' = [alteracao EXCEPT ![r] = AlteracaoLivre]
    /\ UNCHANGED Resto

ExcluirContato(i) ==
    /\ item[i].tipo = "telefone" /\ item[i].dono \in vivas /\ Operar
    /\ \A q \in Alteracoes0 : Escreveu(q) => <<i, "vinculo">> \notin Linhas(q)
    /\ item' = [item EXCEPT ![i] = [ItemLivre EXCEPT !.tipo = "excluido"]]
    /\ alteracao' = Envelhecer(alteracao, item[i].dono)
    /\ UNCHANGED <<vivas, eleitor, moradia, votacao, ligacoes, mexida, votoMexido>>

-----------------------------------------------------------------------------
\* fn_sincroniza_eleitor_territorio_votacao: it runs with the row of the voter
\* locked, and leaves the link of the polling place only.
VotacaoDe(local) == IF local \in BairrosT THEN {local} ELSE {}

Votar(p, local) ==
    /\ eleitor' = [eleitor EXCEPT ![p] = local]
    /\ votacao' = [votacao EXCEPT ![p] = VotacaoDe(local)]
    /\ votoMexido' = [votoMexido EXCEPT ![p] = "nao"]

\* set_voter: the ORM writes the polling place only if it changes.
DefinirEleitor(p, local) ==
    /\ p \in vivas /\ Operar
    /\ IF eleitor[p] = local THEN UNCHANGED <<eleitor, votacao, votoMexido>> ELSE Votar(p, local)
    /\ UNCHANGED <<vivas, item, moradia, alteracao, ligacoes, mexida>>

\* The attendance screen writes it whatever it was.
DefinirEleitorNoAtendimento(p, local) ==
    /\ p \in vivas /\ Operar /\ Votar(p, local)
    /\ UNCHANGED <<vivas, item, moradia, alteracao, ligacoes, mexida>>

-----------------------------------------------------------------------------
\* Links made and removed by hand (mod_territorio), of either kind.
Ligar(p, b) ==
    /\ ligacoes < MaxLigacoes /\ ligacoes' = ligacoes + 1
    /\ \/ /\ \A r \in OutrasDe(p) : alteracao[r].destino # b
          /\ \A e \in Elos : moradia[p][e] # b
          /\ ElosLivres(p) # {}
          /\ moradia' = [moradia EXCEPT ![p][EloNovo(p)] = b]
          /\ mexida' = [mexida EXCEPT ![p] = "sim"]
          /\ UNCHANGED <<votacao, votoMexido>>
       \/ /\ votacao' = [votacao EXCEPT ![p] = @ \cup {b}]
          /\ votoMexido' = [votoMexido EXCEPT ![p] = "sim"]
          /\ UNCHANGED <<moradia, mexida>>
    /\ alteracao' = Envelhecer(alteracao, p)
    /\ UNCHANGED <<vivas, item, eleitor, operacoes>>

Desligar(p) ==
    /\ ligacoes < MaxLigacoes /\ ligacoes' = ligacoes + 1
    /\ \/ \E e \in EmUso(p) :
             /\ \A r \in OutrasDe(p) : e \notin alteracao[r].tocados
             /\ moradia' = [moradia EXCEPT ![p][e] = Nenhum]
             /\ mexida' = [mexida EXCEPT ![p] = "sim"]
             /\ UNCHANGED <<votacao, votoMexido>>
       \/ \E b \in votacao[p] :
             /\ votacao' = [votacao EXCEPT ![p] = @ \ {b}]
             /\ votoMexido' = [votoMexido EXCEPT ![p] = "sim"]
             /\ UNCHANGED <<moradia, mexida>>
    /\ alteracao' = Envelhecer(alteracao, p)
    /\ UNCHANGED <<vivas, item, eleitor, operacoes>>

-----------------------------------------------------------------------------
\* merge_people: the contacts and addresses go to the one that stays, with
\* their principal flags; the trigger runs for the two people.  Here no other
\* request of the two is under way.
ItensMovidos(p, origem) ==
    [i \in Itens |-> IF item[i].dono = origem THEN [item[i] EXCEPT !.dono = p] ELSE item[i]]

\* The links the source has left are then copied.
Copiados(de, para) ==
    LET novos == {b \in BairrosT : (\E e \in Elos : de[e] = b) /\ \A e \in Elos : para[e] # b}
        livres == {e \in Elos : para[e] = Nenhum}
    IN CHOOSE m \in [Elos -> BairrosT \cup {Nenhum}] :
          /\ \A e \in Elos \ livres : m[e] = para[e]
          /\ {m[e] : e \in livres} \ {Nenhum} = novos
          /\ Cardinality({e \in livres : m[e] # Nenhum}) = Cardinality(novos)

\* A voter with no polling place takes the one of the source, which runs its
\* trigger; the row of the source moves to a person who is not a voter.
EleitorMesclado(p, origem) ==
    IF eleitor[p] \in {"semEleitor", "semLocal"} /\ eleitor[origem] # "semEleitor"
      THEN eleitor[origem] ELSE eleitor[p]

RodaGatilho(p, origem) == eleitor[p] = "semLocal" /\ eleitor[origem] \notin {"semEleitor", "semLocal"}

Mesclar(p, origem) ==
    LET movem == {i \in Itens : item[i].dono = origem /\ item[i].tipo \in TiposEndereco} # {}
        depois == ItensMovidos(p, origem)
        moradiaP == IF movem THEN Sincronizada(depois, p) ELSE moradia[p]
        moradiaO == IF movem THEN Sincronizada(depois, origem) ELSE moradia[origem]
    IN /\ {p, origem} \subseteq vivas /\ p # origem /\ Operar /\ (movem => CabeElo(p))
       /\ OutrasDe(p) \cup OutrasDe(origem) = {}
       /\ vivas' = vivas \ {origem}
       /\ item' = depois
       /\ moradia' = [moradia EXCEPT ![p] = Copiados(moradiaO, moradiaP), ![origem] = moradiaO]
       /\ mexida' = [mexida EXCEPT
             ![p] = IF movem THEN "nao" ELSE IF mexida[origem] = "sim" THEN "sim" ELSE @,
             ![origem] = IF movem THEN "nao" ELSE @]
       /\ eleitor' = [eleitor EXCEPT ![p] = EleitorMesclado(p, origem),
                                     ![origem] = IF eleitor[p] = "semEleitor" THEN "semEleitor" ELSE @]
       /\ votacao' = [votacao EXCEPT ![p] =
             IF RodaGatilho(p, origem) THEN VotacaoDe(eleitor[origem]) ELSE @ \cup votacao[origem]]
       /\ votoMexido' = [votoMexido EXCEPT
             ![p] = IF RodaGatilho(p, origem) THEN "nao"
                    ELSE IF votoMexido[origem] = "sim" \/ eleitor[p] \notin {"semEleitor", "semLocal"}
                      THEN "sim" ELSE @,
             ![origem] = "sim"]
       /\ UNCHANGED <<alteracao, ligacoes>>

Locais == BairrosT \cup {"semLocal", Nenhum}

Mesclas == \E p, origem \in PessoasT : Mesclar(p, origem)

Manuais == \E p \in PessoasT : Desligar(p) \/ \E b \in BairrosT : Ligar(p, b)

Alterar(tipos) ==
    \E r \in Alteracoes0 :
       Adicionar(r, tipos) \/ Mudar(r) \/ GravarItens(r) \/ GravarMoradia(r) \/ ConfirmarItens(r) \/ Falhar(r)

NextEnderecos == Alterar(TiposEndereco) \/ Mesclas

NextContatos == Alterar({"telefone"}) \/ Mesclas \/ \E i \in Itens : ExcluirContato(i)

NextVotos ==
    \/ \E p \in PessoasT, l \in Locais : DefinirEleitor(p, l) \/ DefinirEleitorNoAtendimento(p, l)
    \/ Mesclas \/ Manuais

NextPessoaT == NextEnderecos \/ NextContatos \/ NextVotos

SpecPessoaT == InitPessoaT /\ [][NextPessoaT]_varsPessoaT

-----------------------------------------------------------------------------
\* A change of address, or a merge that moves one, that nobody else's change
\* overlaps leaves the one "moradia" link of the address that counts, whatever
\* links it found: it repairs what overlapping changes and hands left behind.
MoradiaConfere ==
    \A p \in PessoasT : mexida[p] = "nao" =>
        {moradia[p][e] : e \in EmUso(p)} = {BairroDe(item, p)} \ {Nenhum}
            /\ Cardinality(EmUso(p)) <= 1

\* The same for the place of voting, after the last change of the voter.
VotacaoConfere ==
    \A p \in PessoasT : votoMexido[p] = "nao" => votacao[p] = VotacaoDe(eleitor[p])

\* What the two triggers say of a person.
LocaisConferem == MoradiaConfere /\ VotacaoConfere

\* A request for a principal address or contact leaves it the only one of its
\* type, unless another request or a merge of the person overlapped it.
PrincipalUnico ==
    [][\A r \in Alteracoes0 :
          LET a == alteracao[r]
          IN (ConfirmarItens(r) /\ a.fresca = "sim" /\ "principal" \in a.campos
                /\ a.novo.principal = "sim")
             => Principais(item', a.novo.dono, a.novo.tipo) = {a.item}]_varsPessoaT

\* What migration 022 says of the links it keeps: a person votes in one place.
VotacaoUnica == \A p \in vivas : Cardinality(votacao[p]) <= 1
=============================================================================
