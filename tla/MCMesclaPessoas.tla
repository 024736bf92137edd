-------------------------- MODULE MCMesclaPessoas --------------------------
(***************************************************************************)
(* Instance of MesclaPessoas for TLC: three people who are suspected of    *)
(* being the same, with one part of the registry filled in at a time and   *)
(* the operations of the bound from there.                                 *)
(***************************************************************************)
EXTENDS MesclaPessoas, TLC

CONSTANTS p1, p2, p3, l1, l2, l3, v1, v2

Simetria == Permutations(Vinculos) \cup Permutations(Requisicoes)

DonoDe == l1 :> p1 @@ l2 :> p2 @@ l3 :> p3

Vazio ==
    /\ req = [r \in Requisicoes |-> Ociosa]
    /\ mescla = [p \in Pessoas |-> Nada]
    /\ ficha = [r \in Requisicoes |-> SemFicha]
    /\ tarde = [r \in Requisicoes |-> SemTarde]
    /\ ops = 0

SemDados == contatos = [p \in Pessoas |-> {}] /\ titulo = [p \in Pessoas |-> "semEleitor"]
SemIndicacao == indicou = [p \in Pessoas |-> Nada]
SemHierarquia == vinculo = [v \in Vinculos |-> SemVinculo]
TodasVivas ==
    /\ pessoa = [p \in Pessoas |-> "viva"]
    /\ suspeita = [s \in Pares |-> "pendente"]

\* Three leaders and any two links of an acyclic hierarchy; nobody is linked to
\* a leadership of its own, on or off, as add_hierarchy refuses it.
InitLinks ==
    /\ TodasVivas /\ lidera = DonoDe
    /\ \E a, b \in [sup : Liderancas, sub : Pessoas, ativo : {"sim", "nao"}] :
          /\ a.sub # DonoDe[a.sup] /\ b.sub # DonoDe[b.sup]
          /\ vinculo = [x \in Vinculos |-> IF x = v1 THEN a ELSE IF x = v2 THEN b ELSE SemVinculo]
    /\ UmAtivoPorPessoa(vinculo) /\ SemCiclo
    /\ SemDados /\ SemIndicacao

\* Contacts, voters or indications, without links, and one leader at most.
InitDados ==
    /\ lidera \in {[l \in Liderancas |-> IF l = l1 THEN p1 ELSE Nada], [l \in Liderancas |-> Nada]}
    /\ SemHierarquia
    /\ \/ /\ TodasVivas /\ SemIndicacao
          /\ contatos \in [Pessoas -> SUBSET Valores]
          /\ titulo = [p \in Pessoas |-> "semEleitor"]
       \/ /\ TodasVivas /\ SemIndicacao /\ lidera[l1] = Nada
          /\ contatos = [p \in Pessoas |-> {}]
          /\ titulo \in [Pessoas -> {"semEleitor", "semTitulo"} \cup Titulos]
          /\ \A p \in Pessoas : TemTitulo(p) => ~TituloUsado(titulo[p], p)
       \/ /\ TodasVivas /\ SemDados /\ lidera[l1] = Nada
          /\ indicou \in [Pessoas -> Pessoas \cup {Nada, "anonima"}]
          /\ \A p \in Pessoas : indicou[p] # p
       \/ /\ pessoa = [p \in Pessoas |-> IF p = p3 THEN "livre" ELSE "viva"]
          /\ suspeita = [s \in Pares |-> "nenhuma"]
          /\ SemDados /\ SemIndicacao

InitMC == Vazio /\ (InitLinks \/ InitDados)

SpecMC == InitMC /\ [][Next]_vars

\* One active link, p1 above p2, and nothing else.
InitCiclo ==
    /\ Vazio /\ TodasVivas /\ lidera = DonoDe /\ SemDados /\ SemIndicacao
    /\ \E v \in Vinculos : vinculo =
          [x \in Vinculos |-> IF x = v THEN [sup |-> l1, sub |-> p2, ativo |-> "sim"] ELSE SemVinculo]

SpecCiclo == InitCiclo /\ [][Next]_vars
=============================================================================
