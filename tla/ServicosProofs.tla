---------------------------- MODULE ServicosProofs ----------------------------
(***************************************************************************)
(* Proofs about the registration of people (CadastroPessoas), the files    *)
(* and attachments (ArquivosAnexos), the tree of territories               *)
(* (TerritorioHierarquia) and the addresses, contacts and votes of people  *)
(* (PessoaTerritorio), for every number of requests, identities, owners,   *)
(* uploads, deliveries, territories, people and rows.                      *)
(*                                                                         *)
(* CadastroConfere and ArquivoConfere speak of what is committed.  Their   *)
(* inductive invariants add what a request on its way has read and the     *)
(* others have not changed since: who is inserting the tag, the count a    *)
(* lone request has loaded, the photos a lone upload has listed, the texts *)
(* a delivery has deleted.  The invariant of the tree adds that what a     *)
(* handler has checked still holds until somebody commits; that of the     *)
(* addresses, what a request nobody overlapped found in the rows and the   *)
(* links of its person.                                                    *)
(***************************************************************************)
EXTENDS CadastroPessoas, ArquivosAnexos, TerritorioHierarquia, PessoaTerritorio, FiniteSetTheorems,
        TLAPS

(***************************************************************************)
(* Registration.                                                           *)
(***************************************************************************)
PassosRegistro == {"novo", "semTag", "criaTag", "releTag", "pronto", "feito", "recusado", "falhouTag"}
Registro == [pc : PassosRegistro, origem : {"painel", "site"}, id : Identidades \cup {Nenhuma},
             lider : {"sim", "nao"}]
TipoRegistro ==
    /\ registro \in [Registros -> Registro]
    /\ identidade \in [Registros -> Identidades \cup {Nenhuma}]
    /\ ficha \in [Registros -> {"sem", "viva", "excluida"}]
    /\ tagSite \in Registros \cup {"nao", "sim"}
    /\ comTagSite \subseteq Registros /\ semLider \subseteq Registros
    /\ renomeada \in {"nao", "sim"}

\* Two people never hold one identity.
IdentidadesDistintas ==
    \A r, s \in Registros : identidade[r] # Nenhuma /\ identidade[r] = identidade[s] => r = s

\* Until the tag is renamed, who goes on has it, or is inserting it himself.
TagOK ==
    renomeada = "nao" =>
        /\ \A r \in Registros :
              /\ registro[r].pc # "falhouTag"
              /\ registro[r].pc = "releTag" => tagSite = "sim"
              /\ registro[r].pc = "pronto" /\ registro[r].origem = "site" => tagSite \in {"sim", r}
        /\ comTagSite # {} => tagSite = "sim"
IInvRegistro == TipoRegistro /\ IdentidadesDistintas /\ TagOK

\* A request on the nucleus that is alone has loaded the count in force.
Pedido == [pc : {"nova", "lida", "contada", "feita"}, op : {"incluir", "retirar"},
           pessoa : Registros \cup {Nenhuma}, lida : Nat, nova : Nat]
TipoFamilia ==
    /\ membros \subseteq Registros /\ IsFiniteSet(membros)
    /\ quantidade \in Nat
    /\ familia \in [Familias -> Pedido]
    /\ famCruzada \in {"nao", "sim"}
    /\ \A f \in FamEmCurso : familia[f].pessoa \in Registros
FamiliaOK ==
    famCruzada = "nao" =>
        /\ quantidade = Cardinality(membros)
        /\ \A f, g \in FamEmCurso : f = g
        /\ \A f \in FamEmCurso :
              /\ familia[f].lida = quantidade
              /\ familia[f].pc = "contada" => familia[f].nova = Cardinality(MembrosCom(f))
IInvFamilia == TipoFamilia /\ FamiliaOK

\* A replacement of types that is alone has deleted what is there.
Substituicao == [pc : {"nova", "apagou", "feita", "falhou"}, tipos : SUBSET TiposPessoa,
                 apagados : SUBSET TiposPessoa]
TipoTroca ==
    /\ tiposP \subseteq TiposPessoa
    /\ troca \in [Trocas -> Substituicao]
    /\ trocaCruzada \in {"nao", "sim"}
TrocaOK ==
    trocaCruzada = "nao" =>
        \A t \in Trocas : troca[t].pc = "apagou" =>
            troca[t].apagados = tiposP /\ \A o \in Trocas : troca[o].pc = "apagou" => o = t
IInvTroca == TipoTroca /\ TrocaOK /\ TiposPedidos

IInvCadastro == IInvRegistro /\ IInvFamilia /\ IInvTroca

(***************************************************************************)
(* Files.                                                                  *)
(***************************************************************************)
PassosEnvio == {"novo", "guardado", "listado", "gravado", "logo", "feito", "falhou"}
Envio == [pc : PassosEnvio, dono : Donos \cup {SemArquivo}, unico : {"sim", "nao"}, lista : SUBSET Envios]
Remocao == [pc : {"nova", "lido", "feita"}, anexo : Envios \cup {SemArquivo}]
Extracao == [pc : {"nova", "lido", "apagou", "feita", "falhou"}, anexo : Envios \cup {SemArquivo},
             apagados : SUBSET Extracoes]
TipoArquivos ==
    /\ objetos \subseteq Envios /\ despachados \subseteq Envios /\ incerto \subseteq Envios
    /\ anexos \in [Envios -> {"sem", "vivo", "removido"}]
    /\ retrato \in [Donos -> Envios \cup {SemArquivo}]
    /\ textos \in [Envios -> SUBSET Extracoes]
    /\ envio \in [Envios -> Envio]
    /\ remocao \in [Remocoes -> Remocao]
    /\ extracao \in [Extracoes -> Extracao]
    /\ juntos \in [Donos -> {"nao", "sim"}]

\* What an upload has done says whether its row and its object are there; the
\* attachments it has listed are of its owner.
EnvioOK ==
    \A e \in Envios :
        /\ envio[e].pc # "novo" => envio[e].dono \in Donos
        /\ envio[e].pc \in {"novo", "guardado", "listado"} => anexos[e] = "sem"
        /\ envio[e].pc \in {"gravado", "logo", "feito"} => anexos[e] # "sem"
        /\ envio[e].pc \in {"guardado", "listado"} => e \in objetos
        /\ envio[e].pc = "logo" => Origem[envio[e].dono] = "tenant"
        /\ \A a \in envio[e].lista : anexos[a] # "sem" /\ envio[a].dono = envio[e].dono
RemocaoOK == \A r \in Remocoes : remocao[r].pc = "lido" => remocao[r].anexo \in Envios /\ anexos[remocao[r].anexo] # "sem"

\* An upload alone with its owner has listed every live photo of his.
FotosOK ==
    \A d \in ComFoto : juntos[d] = "nao" =>
        /\ \A e, f \in Vivos(d) : e = f
        /\ Vivos(d) # {} => retrato[d] \in Vivos(d)
        /\ \A e, f \in Envios : EmCurso(e) /\ EmCurso(f) /\ DonoDe(e) = d /\ DonoDe(f) = d => e = f
        /\ \A e \in Envios : DonoDe(e) = d => envio[e].unico = "sim"
        /\ \A e \in Envios : DonoDe(e) = d /\ envio[e].pc = "listado" => Vivos(d) \subseteq envio[e].lista

\* A delivery is of a dispatched file, and before it writes nobody has seen a
\* text of its.
ExtracaoOK ==
    /\ \A e \in despachados : anexos[e] # "sem"
    /\ \A x \in Extracoes :
          /\ extracao[x].pc \in {"lido", "apagou"} => extracao[x].anexo \in despachados
          /\ extracao[x].pc \in {"nova", "lido", "apagou"} =>
                /\ \A e \in Envios : x \notin textos[e]
                /\ \A y \in Extracoes : x \notin extracao[y].apagados

IInvArquivos ==
    /\ TipoArquivos
    /\ EnvioOK /\ RemocaoOK /\ FotosOK /\ ExtracaoOK
    /\ RetratoVivo /\ ObjetoGuardado /\ TextoDoDespachado

-----------------------------------------------------------------------------
(***************************************************************************)
(* Registration.                                                           *)
(***************************************************************************)
LEMMA RegistroMuda ==
    ASSUME NEW g \in Registro, NEW p \in PassosRegistro
    PROVE  /\ [g EXCEPT !.pc = p] \in Registro
           /\ [g EXCEPT !.pc = p].pc = p
           /\ [g EXCEPT !.pc = p].origem = g.origem /\ [g EXCEPT !.pc = p].id = g.id
           /\ [g EXCEPT !.pc = p].lider = g.lider
  BY DEF Registro

\* A registration goes on to p.
LEMMA PassarRegistro ==
    ASSUME TipoRegistro, NEW r \in Registros, NEW p \in PassosRegistro, registro' = [registro EXCEPT ![r].pc = p]
    PROVE  /\ registro' \in [Registros -> Registro]
           /\ registro'[r].pc = p /\ registro'[r].origem = registro[r].origem
           /\ \A s \in Registros \ {r} : registro'[s] = registro[s]
<1> DEFINE g == [registro[r] EXCEPT !.pc = p]
<1>1. g \in Registro /\ g.pc = p /\ g.origem = registro[r].origem
  BY RegistroMuda DEF TipoRegistro
<1>2. registro' = [registro EXCEPT ![r] = g]
  OBVIOUS
<1> HIDE DEF g
<1> QED
  BY <1>1, <1>2 DEF TipoRegistro

LEMMA RegistroPasso ==
    ASSUME IInvRegistro, NextRegistro
    PROVE  IInvRegistro'
<1> USE CadastroAssumption, TagSemDono
<1>1. ASSUME NEW r \in Registros, NEW origem \in {"painel", "site"}, NEW i \in Identidades \cup {Nenhuma},
             NEW lider \in {"sim", "nao"}, Registrar(r, origem, i, lider)
      PROVE  IInvRegistro'
  <2> DEFINE p == IF DonoDa(i) # {} THEN "recusado" ELSE IF origem = "site" THEN "semTag" ELSE "pronto"
             g == [pc |-> p, origem |-> origem, id |-> i, lider |-> lider]
  <2>1. g \in Registro /\ g.pc = p /\ g.origem = origem /\ (p = "pronto" => origem = "painel")
        /\ p \notin {"falhouTag", "releTag"}
    BY DEF Registro, PassosRegistro
  <2>2. registro' = [registro EXCEPT ![r] = g]
        /\ UNCHANGED <<identidade, ficha, tagSite, comTagSite, semLider, renomeada>>
    BY <1>1 DEF Registrar
  <2> HIDE DEF g, p
  <2>3. TipoRegistro'
    BY <2>1, <2>2 DEF IInvRegistro, TipoRegistro
  <2>4. IdentidadesDistintas'
    BY <2>2 DEF IInvRegistro, IdentidadesDistintas
  <2>5. registro'[r] = g /\ (\A s \in Registros \ {r} : registro'[s] = registro[s])
    BY <2>2 DEF IInvRegistro, TipoRegistro
  <2>6. TagOK'
    BY <2>1, <2>2, <2>5 DEF IInvRegistro, TagOK
  <2> QED
    BY <2>3, <2>4, <2>6 DEF IInvRegistro
<1>2. ASSUME NEW r \in Registros, ProcurarTag(r) PROVE IInvRegistro'
  <2> DEFINE p == IF tagSite = "sim" THEN "pronto" ELSE "criaTag"
  <2>1. p \in PassosRegistro /\ registro' = [registro EXCEPT ![r].pc = p]
        /\ UNCHANGED <<identidade, ficha, tagSite, comTagSite, semLider, renomeada>>
    BY <1>2 DEF ProcurarTag, PassosRegistro
  <2>2. (p = "pronto" => tagSite = "sim") /\ p \notin {"falhouTag", "releTag"}
    OBVIOUS
  <2> HIDE DEF p
  <2>3. /\ registro' \in [Registros -> Registro] /\ registro'[r].pc = p
        /\ \A s \in Registros \ {r} : registro'[s] = registro[s]
    BY <2>1, PassarRegistro DEF IInvRegistro
  <2> QED
    BY <2>1, <2>2, <2>3 DEF IInvRegistro, TipoRegistro, IdentidadesDistintas, TagOK
<1>3. ASSUME NEW r \in Registros, InserirTag(r) PROVE IInvRegistro'
  <2> DEFINE p == IF tagSite = "nao" THEN "pronto" ELSE "releTag"
  <2>1. /\ p \in PassosRegistro /\ registro' = [registro EXCEPT ![r].pc = p]
        /\ UNCHANGED <<identidade, ficha, comTagSite, semLider, renomeada>>
        /\ tagSite \in {"nao", "sim"} /\ tagSite' = (IF tagSite = "nao" THEN r ELSE tagSite)
    BY <1>3 DEF InserirTag, PassosRegistro, DepoisDoConflito
  <2>2. /\ p = "pronto" => tagSite = "nao" /\ tagSite' = r
        /\ p = "releTag" => tagSite = "sim" /\ tagSite' = "sim"
        /\ p \in {"pronto", "releTag"}
    BY <2>1
  <2> HIDE DEF p
  <2>3. /\ registro' \in [Registros -> Registro] /\ registro'[r].pc = p
        /\ \A s \in Registros \ {r} : registro'[s] = registro[s]
    BY <2>1, PassarRegistro DEF IInvRegistro
  <2>4. TipoRegistro' /\ IdentidadesDistintas'
    BY <2>1, <2>3 DEF IInvRegistro, TipoRegistro, IdentidadesDistintas
  <2>5. TagOK'
    <3>1. CASE p = "pronto"
      BY <2>1, <2>2, <2>3, <3>1 DEF IInvRegistro, TagOK
    <3>2. CASE p = "releTag"
      BY <2>1, <2>2, <2>3, <3>2 DEF IInvRegistro, TagOK
    <3> QED  BY <2>2, <3>1, <3>2
  <2> QED
    BY <2>4, <2>5 DEF IInvRegistro
<1>4. ASSUME NEW r \in Registros, RelerTag(r) PROVE IInvRegistro'
  <2> DEFINE p == IF tagSite = "sim" THEN "pronto" ELSE "falhouTag"
  <2>1. p \in PassosRegistro /\ registro' = [registro EXCEPT ![r].pc = p] /\ registro[r].pc = "releTag"
        /\ UNCHANGED <<identidade, ficha, tagSite, comTagSite, semLider, renomeada>>
    BY <1>4 DEF RelerTag, PassosRegistro
  <2>2. renomeada = "nao" => tagSite = "sim" /\ p = "pronto"
    BY <2>1 DEF IInvRegistro, TagOK
  <2> HIDE DEF p
  <2>3. /\ registro' \in [Registros -> Registro] /\ registro'[r].pc = p
        /\ \A s \in Registros \ {r} : registro'[s] = registro[s]
    BY <2>1, PassarRegistro DEF IInvRegistro
  <2> QED
    BY <2>1, <2>2, <2>3 DEF IInvRegistro, TipoRegistro, IdentidadesDistintas, TagOK
<1>5. ASSUME NEW r \in Registros, ConfirmarCadastro(r) PROVE IInvRegistro'
  <2> DEFINE i == registro[r].id
             p == IF DonoDa(i) = {} THEN "feito" ELSE "recusado"
  <2>1. /\ registro[r] \in Registro /\ registro[r].pc = "pronto" /\ i \in Identidades \cup {Nenhuma}
        /\ p \in PassosRegistro /\ registro' = [registro EXCEPT ![r].pc = p] /\ renomeada' = renomeada
    BY <1>5 DEF ConfirmarCadastro, PassosRegistro, IInvRegistro, TipoRegistro, Registro
  <2>2. /\ registro' \in [Registros -> Registro] /\ registro'[r].pc = p
        /\ \A s \in Registros \ {r} : registro'[s] = registro[s]
    BY <2>1, PassarRegistro DEF IInvRegistro
  <2>3. /\ tagSite' = (IF tagSite = r THEN IF p = "feito" THEN "sim" ELSE "nao" ELSE tagSite)
        /\ comTagSite' = (IF p = "feito" /\ registro[r].origem = "site" THEN comTagSite \cup {r} ELSE comTagSite)
    BY <1>5 DEF ConfirmarCadastro, TagDepois
  <2>4. /\ ficha' \in [Registros -> {"sem", "viva", "excluida"}] /\ semLider' \subseteq Registros
        /\ identidade' = (IF p = "feito" THEN [identidade EXCEPT ![r] = i] ELSE identidade)
    BY <1>5 DEF ConfirmarCadastro, IInvRegistro, TipoRegistro
  <2>5. p = "feito" /\ i # Nenhuma => \A s \in Registros : identidade[s] # i
    BY DEF DonoDa
  <2>6. p \in {"feito", "recusado"}
    OBVIOUS
  <2> HIDE DEF p, i
  <2>7. TipoRegistro'
    BY <2>1, <2>2, <2>3, <2>4 DEF IInvRegistro, TipoRegistro
  <2>8. IdentidadesDistintas'
    BY <2>1, <2>4, <2>5 DEF IInvRegistro, TipoRegistro, IdentidadesDistintas
  <2>9. TagOK'
    BY <2>1, <2>2, <2>3, <2>6 DEF IInvRegistro, TagOK
  <2> QED
    BY <2>7, <2>8, <2>9 DEF IInvRegistro
<1>6. ASSUME NEW r \in Registros, NEW i \in Identidades, TrocarIdentidade(r, i) PROVE IInvRegistro'
  <2>1. /\ identidade' = [identidade EXCEPT ![r] = i] /\ UNCHANGED <<registro, ficha, tagSite, comTagSite, semLider, renomeada>>
        /\ \A s \in Registros \ {r} : identidade[s] # i
    BY <1>6 DEF TrocarIdentidade, DonoDa
  <2> QED
    BY <2>1 DEF IInvRegistro, TipoRegistro, IdentidadesDistintas, TagOK
<1>7. ASSUME NEW r \in Registros, Excluir(r) \/ ResolverValidacao(r) PROVE IInvRegistro'
  BY <1>7 DEF Excluir, ResolverValidacao, IInvRegistro, TipoRegistro, IdentidadesDistintas, TagOK
<1>8. ASSUME CriarTagSite \/ RenomearTagSite PROVE IInvRegistro'
  BY <1>8 DEF CriarTagSite, RenomearTagSite, IInvRegistro, TipoRegistro, IdentidadesDistintas, TagOK
<1> QED
  BY <1>1, <1>2, <1>3, <1>4, <1>5, <1>6, <1>7, <1>8 DEF NextRegistro

(***************************************************************************)
(* The nucleus.                                                            *)
(***************************************************************************)
LEMMA MembrosComTipo ==
    ASSUME TipoFamilia, NEW f \in Familias, familia[f].pessoa \in Registros
    PROVE  MembrosCom(f) \subseteq Registros /\ IsFiniteSet(MembrosCom(f)) /\ Cardinality(MembrosCom(f)) \in Nat
<1>1. IsFiniteSet(membros \cup {familia[f].pessoa}) /\ IsFiniteSet(membros \ {familia[f].pessoa})
  BY FS_AddElement, FS_RemoveElement DEF TipoFamilia
<1>2. MembrosCom(f) \subseteq Registros /\ IsFiniteSet(MembrosCom(f))
  BY <1>1 DEF MembrosCom, TipoFamilia
<1> QED
  BY <1>2, FS_CardinalityType

\* A request on the nucleus goes on: the others are as they were.
LEMMA PassarFamilia ==
    ASSUME TipoFamilia, NEW f \in Familias, NEW g \in Pedido, familia' = [familia EXCEPT ![f] = g],
           g.pc \in {"lida", "contada"} => g.pessoa \in Registros
    PROVE  /\ familia' \in [Familias -> Pedido] /\ familia'[f] = g
           /\ \A h \in Familias \ {f} : familia'[h] = familia[h]
           /\ FamEmCurso' \subseteq FamEmCurso \cup {f}
           /\ f \in FamEmCurso' <=> g.pc \in {"lida", "contada"}
           /\ \A h \in FamEmCurso' : familia'[h].pessoa \in Registros
<1>1. /\ familia' \in [Familias -> Pedido] /\ familia'[f] = g
      /\ \A h \in Familias \ {f} : familia'[h] = familia[h]
  BY DEF TipoFamilia
<1>2. g.pc \in {"nova", "lida", "contada", "feita"}
  BY DEF Pedido
<1> QED
  BY <1>1, <1>2 DEF FamEmCurso, TipoFamilia

LEMMA FamiliaPasso ==
    ASSUME IInvFamilia, NextFamilia
    PROVE  IInvFamilia'
<1>1. ASSUME NEW f \in Familias, NEW op \in {"incluir", "retirar"}, NEW p \in Registros, CarregarNucleo(f, op, p)
      PROVE  IInvFamilia'
  <2> DEFINE g == [pc |-> "lida", op |-> op, pessoa |-> p, lida |-> quantidade, nova |-> quantidade]
  <2>1. /\ g \in Pedido /\ g.pc = "lida" /\ g.pessoa = p /\ g.lida = quantidade
        /\ familia' = [familia EXCEPT ![f] = g] /\ UNCHANGED <<membros, quantidade>>
        /\ famCruzada' = (IF FamEmCurso # {} THEN "sim" ELSE famCruzada)
    BY <1>1 DEF CarregarNucleo, Pedido, IInvFamilia, TipoFamilia
  <2> HIDE DEF g
  <2>2. /\ familia' \in [Familias -> Pedido] /\ familia'[f] = g
        /\ FamEmCurso' \subseteq FamEmCurso \cup {f}
        /\ \A h \in FamEmCurso' : familia'[h].pessoa \in Registros
    BY <2>1, PassarFamilia DEF IInvFamilia
  <2>3. TipoFamilia'
    BY <2>1, <2>2 DEF IInvFamilia, TipoFamilia
  <2>4. FamiliaOK'
    <3> SUFFICES ASSUME famCruzada' = "nao" PROVE FamiliaOK'
      BY DEF FamiliaOK
    <3>1. FamEmCurso = {} /\ famCruzada = "nao" /\ FamEmCurso' \subseteq {f}
      BY <2>1, <2>2
    <3> QED
      BY <2>1, <2>2, <3>1 DEF IInvFamilia, FamiliaOK
  <2> QED
    BY <2>3, <2>4 DEF IInvFamilia
<1>2. ASSUME NEW f \in Familias, ContarMembros(f) PROVE IInvFamilia'
  <2> DEFINE n == Cardinality(MembrosCom(f))
             g == IF MembrosCom(f) = membros THEN [familia[f] EXCEPT !.pc = "feita"]
                  ELSE [familia[f] EXCEPT !.pc = "contada", !.nova = n]
  <2>1. /\ familia[f] \in Pedido /\ familia[f].pc = "lida" /\ f \in FamEmCurso /\ familia[f].pessoa \in Registros
        /\ UNCHANGED <<membros, quantidade, famCruzada>>
    BY <1>2 DEF ContarMembros, IInvFamilia, TipoFamilia, FamEmCurso
  <2>2. n \in Nat
    BY <2>1, MembrosComTipo DEF IInvFamilia
  <2>3. familia' = [familia EXCEPT ![f] = g]
    BY <1>2 DEF ContarMembros
  <2>4. /\ g \in Pedido /\ g.pc \in {"feita", "contada"} /\ g.pessoa = familia[f].pessoa /\ g.op = familia[f].op
        /\ g.lida = familia[f].lida /\ (g.pc = "contada" => g.nova = n)
    <3> HIDE DEF n
    <3> QED  BY <2>1, <2>2 DEF Pedido
  <2> HIDE DEF g
  <2>5. /\ familia' \in [Familias -> Pedido] /\ familia'[f] = g
        /\ \A h \in Familias \ {f} : familia'[h] = familia[h]
        /\ FamEmCurso' \subseteq FamEmCurso
        /\ \A h \in FamEmCurso' : familia'[h].pessoa \in Registros
    <3>1. TipoFamilia /\ g.pessoa \in Registros
      BY <2>1, <2>4 DEF IInvFamilia
    <3>2. /\ familia' \in [Familias -> Pedido] /\ familia'[f] = g
          /\ \A h \in Familias \ {f} : familia'[h] = familia[h]
          /\ FamEmCurso' \subseteq FamEmCurso \cup {f}
          /\ \A h \in FamEmCurso' : familia'[h].pessoa \in Registros
      BY <3>1, <2>3, <2>4, PassarFamilia
    <3> QED
      BY <3>2, <2>1
  <2>6. TipoFamilia'
    BY <2>1, <2>5 DEF IInvFamilia, TipoFamilia
  <2>7. MembrosCom(f)' = MembrosCom(f)
    BY <2>1, <2>4, <2>5 DEF MembrosCom
  <2>8. FamiliaOK'
    BY <2>1, <2>4, <2>5, <2>7 DEF IInvFamilia, FamiliaOK, FamEmCurso
  <2> QED
    BY <2>6, <2>8 DEF IInvFamilia
<1>3. ASSUME NEW f \in Familias, ConfirmarNucleo(f) PROVE IInvFamilia'
  <2> DEFINE g == [familia[f] EXCEPT !.pc = "feita"]
  <2>1. /\ familia[f] \in Pedido /\ familia[f].pc = "contada" /\ f \in FamEmCurso /\ familia[f].pessoa \in Registros
        /\ membros' = MembrosCom(f) /\ quantidade' = QuantidadeDepois(f) /\ UNCHANGED famCruzada
        /\ familia' = [familia EXCEPT ![f] = g]
    BY <1>3 DEF ConfirmarNucleo, IInvFamilia, TipoFamilia, FamEmCurso
  <2>2. g \in Pedido /\ g.pc = "feita"
    BY <2>1 DEF Pedido
  <2> HIDE DEF g
  <2>3. /\ familia' \in [Familias -> Pedido]
        /\ FamEmCurso' \subseteq FamEmCurso \ {f}
        /\ \A h \in FamEmCurso' : familia'[h].pessoa \in Registros
    BY <2>1, <2>2, PassarFamilia DEF IInvFamilia
  <2>4. membros' \subseteq Registros /\ IsFiniteSet(membros')
    BY <2>1, MembrosComTipo DEF IInvFamilia
  <2>5. quantidade' \in Nat
    BY <2>1 DEF QuantidadeDepois, Pedido, IInvFamilia, TipoFamilia
  <2>6. TipoFamilia'
    BY <2>1, <2>3, <2>4, <2>5 DEF IInvFamilia, TipoFamilia
  <2>7. FamiliaOK'
    <3> SUFFICES ASSUME famCruzada = "nao" PROVE quantidade' = Cardinality(membros') /\ FamEmCurso' = {}
      BY <2>1 DEF FamiliaOK
    <3>1. \A h \in FamEmCurso : h = f
      BY <2>1 DEF IInvFamilia, FamiliaOK
    <3>2. familia[f].nova = Cardinality(MembrosCom(f)) /\ familia[f].lida = quantidade
      BY <2>1 DEF IInvFamilia, FamiliaOK
    <3> QED
      BY <2>1, <2>3, <3>1, <3>2 DEF QuantidadeDepois
  <2> QED
    BY <2>6, <2>7 DEF IInvFamilia
<1> QED
  BY <1>1, <1>2, <1>3 DEF NextFamilia

(***************************************************************************)
(* The types of a person.                                                  *)
(***************************************************************************)
LEMMA TrocaPasso ==
    ASSUME IInvTroca, NextTroca
    PROVE  IInvTroca'
<1>1. ASSUME NEW t \in Trocas, NEW S \in SUBSET TiposPessoa, ApagarTipos(t, S) PROVE IInvTroca'
  <2> DEFINE g == [pc |-> "apagou", tipos |-> S, apagados |-> tiposP]
  <2>1. /\ g \in Substituicao /\ g.pc = "apagou" /\ g.apagados = tiposP
        /\ troca' = [troca EXCEPT ![t] = g] /\ tiposP' = tiposP /\ troca[t].pc = "nova"
        /\ trocaCruzada' = (IF \E o \in Trocas : troca[o].pc = "apagou" THEN "sim" ELSE trocaCruzada)
    BY <1>1 DEF ApagarTipos, Substituicao, IInvTroca, TipoTroca
  <2> HIDE DEF g
  <2>2. /\ troca' \in [Trocas -> Substituicao] /\ troca'[t] = g
        /\ \A o \in Trocas \ {t} : troca'[o] = troca[o]
    BY <2>1 DEF IInvTroca, TipoTroca
  <2>3. TipoTroca'
    BY <2>1, <2>2 DEF IInvTroca, TipoTroca
  <2>4. TrocaOK'
    BY <2>1, <2>2 DEF IInvTroca, TrocaOK
  <2>5. TrocasFeitas' = TrocasFeitas /\ (\A o \in TrocasFeitas : troca'[o] = troca[o])
    BY <2>1, <2>2 DEF TrocasFeitas
  <2>6. TiposPedidos'
    BY <2>1, <2>2, <2>5 DEF IInvTroca, TiposPedidos
  <2> QED
    BY <2>3, <2>4, <2>6 DEF IInvTroca
<1>2. ASSUME NEW t \in Trocas, GravarTipos(t) PROVE IInvTroca'
  <2> DEFINE restantes == tiposP \ troca[t].apagados
             p == IF restantes \cap troca[t].tipos = {} THEN "feita" ELSE "falhou"
             g == [troca[t] EXCEPT !.pc = p]
  <2>1. /\ troca[t] \in Substituicao /\ troca[t].pc = "apagou" /\ trocaCruzada' = trocaCruzada
        /\ troca' = [troca EXCEPT ![t] = g]
        /\ tiposP' = IF p = "feita" THEN restantes \cup troca[t].tipos ELSE tiposP
    BY <1>2 DEF GravarTipos, IInvTroca, TipoTroca
  <2>2. p \in {"feita", "falhou"} /\ (restantes = {} => p = "feita")
    OBVIOUS
  <2>3. g \in Substituicao /\ g.pc = p /\ g.tipos = troca[t].tipos
    <3> HIDE DEF p
    <3> QED  BY <2>1, <2>2 DEF Substituicao
  <2>4. tiposP' \subseteq TiposPessoa
    BY <2>1 DEF Substituicao, IInvTroca, TipoTroca
  <2>5. trocaCruzada = "nao" => restantes = {}
    BY <2>1 DEF IInvTroca, TrocaOK
  <2> HIDE DEF g, p, restantes
  <2>6. /\ troca' \in [Trocas -> Substituicao] /\ troca'[t] = g
        /\ \A o \in Trocas \ {t} : troca'[o] = troca[o]
    BY <2>1, <2>3 DEF IInvTroca, TipoTroca
  <2>7. TipoTroca'
    BY <2>1, <2>4, <2>6 DEF IInvTroca, TipoTroca
  <2>8. TrocaOK'
    BY <2>1, <2>2, <2>3, <2>6 DEF IInvTroca, TrocaOK
  <2>9. TiposPedidos'
    <3> SUFFICES ASSUME trocaCruzada = "nao"
                 PROVE  /\ t \in TrocasFeitas' /\ tiposP' = troca'[t].tipos
                        /\ \A o \in Trocas : troca'[o].pc # "falhou"
      BY <2>1 DEF TiposPedidos
    <3> QED
      BY <2>1, <2>2, <2>3, <2>5, <2>6 DEF IInvTroca, TiposPedidos, TrocasFeitas
  <2> QED
    BY <2>7, <2>8, <2>9 DEF IInvTroca
<1> QED
  BY <1>1, <1>2 DEF NextTroca

-----------------------------------------------------------------------------
LEMMA RegistroParado == IInvRegistro /\ UNCHANGED varsRegistro => IInvRegistro'
  BY DEF varsRegistro, IInvRegistro, TipoRegistro, IdentidadesDistintas, TagOK
LEMMA FamiliaParada == IInvFamilia /\ UNCHANGED varsFamilia => IInvFamilia'
  BY DEF varsFamilia, IInvFamilia, TipoFamilia, FamiliaOK, FamEmCurso, MembrosCom
LEMMA TrocaParada == IInvTroca /\ UNCHANGED varsTroca => IInvTroca'
  BY DEF varsTroca, IInvTroca, TipoTroca, TrocaOK, TiposPedidos, TrocasFeitas

\* What the inductive invariant says of each identity.
LEMMA Distintas == IInvRegistro => IdentidadeUnica
<1> SUFFICES ASSUME IInvRegistro, NEW i \in Identidades PROVE Cardinality(DonoDa(i)) <= 1
  BY DEF IdentidadeUnica
<1>1. CASE DonoDa(i) = {}
  BY <1>1, FS_EmptySet
<1>2. CASE DonoDa(i) # {}
  <2>1. PICK r \in DonoDa(i) : TRUE
    BY <1>2
  <2>2. DonoDa(i) = {r}
    BY <2>1 DEF DonoDa, IInvRegistro, IdentidadesDistintas
  <2>3. Cardinality({r}) = 1
    BY FS_Singleton
  <2> QED
    BY <2>2, <2>3
<1> QED
  BY <1>1, <1>2

\* What a registration leaves: one person for each identity, one tag for those
\* who came through the site, a nucleus with its count, the types of one request
\* (create_person, get_or_create_tag_by_name, replace_person_types), for any
\* number of requests.
THEOREM CadastroSempreConfere == SpecCadastro => []CadastroConfere
<1>1. InitCadastro => IInvCadastro
  <2> SUFFICES ASSUME InitCadastro PROVE IInvCadastro
    OBVIOUS
  <2>1. IInvRegistro
    BY DEF InitCadastro, IInvRegistro, TipoRegistro, IdentidadesDistintas, TagOK, RegistroNovo,
       Registro, PassosRegistro
  <2>2. IInvFamilia
    BY FS_EmptySet DEF InitCadastro, IInvFamilia, TipoFamilia, FamiliaOK, FamEmCurso, FamiliaNova,
       Pedido
  <2>3. IInvTroca
    BY DEF InitCadastro, IInvTroca, TipoTroca, TrocaOK, TiposPedidos, TrocasFeitas, TrocaNova,
       Substituicao
  <2> QED
    BY <2>1, <2>2, <2>3 DEF IInvCadastro
<1>2. IInvCadastro /\ [NextCadastro]_varsCadastro => IInvCadastro'
  <2> SUFFICES ASSUME IInvCadastro, [NextCadastro]_varsCadastro PROVE IInvCadastro'
    OBVIOUS
  <2>1. CASE NextRegistro
    BY <2>1, RegistroPasso, FamiliaParada, TrocaParada DEF IInvCadastro, NextRegistro
  <2>2. CASE NextFamilia
    BY <2>2, FamiliaPasso, RegistroParado, TrocaParada DEF IInvCadastro, NextFamilia
  <2>3. CASE NextTroca
    BY <2>3, TrocaPasso, RegistroParado, FamiliaParada DEF IInvCadastro, NextTroca
  <2>4. CASE UNCHANGED varsCadastro
    BY <2>4, RegistroParado, FamiliaParada, TrocaParada DEF IInvCadastro, varsCadastro
  <2> QED
    BY <2>1, <2>2, <2>3, <2>4 DEF NextCadastro
<1>3. IInvCadastro => CadastroConfere
  <2> SUFFICES ASSUME IInvCadastro PROVE CadastroConfere
    OBVIOUS
  <2>1. TagNaoImpede
    BY DEF IInvCadastro, IInvRegistro, TagOK, TagNaoImpede
  <2>2. NucleoContado
    BY DEF IInvCadastro, IInvFamilia, FamiliaOK, NucleoContado
  <2> QED
    BY <2>1, <2>2, Distintas DEF IInvCadastro, IInvTroca, CadastroConfere
<1> QED
  BY <1>1, <1>2, <1>3, PTL DEF SpecCadastro

-----------------------------------------------------------------------------
(***************************************************************************)
(* Files: first, what the operators of a transaction do.                   *)
(***************************************************************************)
LEMMA AnexosSemFaz ==
    ASSUME TipoArquivos, NEW S \in SUBSET Envios
    PROVE  /\ AnexosSem(S) \in [Envios -> {"sem", "vivo", "removido"}]
           /\ \A a \in Envios : AnexosSem(S)[a] = "vivo" <=> anexos[a] = "vivo" /\ a \notin S
           /\ \A a \in Envios : AnexosSem(S)[a] = "sem" <=> anexos[a] = "sem"
<1>1. \A a \in Envios : anexos[a] \in {"sem", "vivo", "removido"}
  BY DEF TipoArquivos
<1> QED
  BY <1>1 DEF AnexosSem

\* An upload goes on to p, and may list attachments: the others are as they were.
LEMMA PassarEnvio ==
    ASSUME TipoArquivos, NEW e \in Envios, NEW p \in PassosEnvio, NEW L \in SUBSET Envios,
           envio' = [envio EXCEPT ![e].pc = p, ![e].lista = L]
    PROVE  /\ envio' \in [Envios -> Envio]
           /\ envio'[e].pc = p /\ envio'[e].dono = envio[e].dono
           /\ envio'[e].unico = envio[e].unico /\ envio'[e].lista = L
           /\ \A a \in Envios \ {e} : envio'[a] = envio[a]
           /\ \A a \in Envios : envio'[a].dono = envio[a].dono /\ envio'[a].unico = envio[a].unico
<1> DEFINE g == [envio[e] EXCEPT !.pc = p, !.lista = L]
<1>1. envio \in [Envios -> Envio]
  BY DEF TipoArquivos
<1>2. envio[e] \in Envio
  BY <1>1
<1>3. /\ g \in Envio /\ g.pc = p /\ g.dono = envio[e].dono /\ g.unico = envio[e].unico /\ g.lista = L
  BY <1>2 DEF Envio
<1>4. envio' = [envio EXCEPT ![e] = g]
  BY <1>2 DEF Envio
<1> HIDE DEF g
<1>5. /\ envio' \in [Envios -> Envio] /\ envio'[e] = g
      /\ \A a \in Envios \ {e} : envio'[a] = envio[a]
  BY <1>1, <1>3, <1>4
<1> QED
  BY <1>3, <1>5

LEMMA SoPasso ==
    ASSUME TipoArquivos, NEW e \in Envios, NEW p \in PassosEnvio, envio' = [envio EXCEPT ![e].pc = p]
    PROVE  /\ envio' \in [Envios -> Envio] /\ envio'[e].pc = p
           /\ \A a \in Envios \ {e} : envio'[a] = envio[a]
           /\ \A a \in Envios : envio'[a].dono = envio[a].dono /\ envio'[a].unico = envio[a].unico
                                /\ envio'[a].lista = envio[a].lista
<1> DEFINE g == [envio[e] EXCEPT !.pc = p]
<1>1. envio \in [Envios -> Envio] /\ envio[e] \in Envio
  BY DEF TipoArquivos
<1>2. g \in Envio /\ g.pc = p /\ g.dono = envio[e].dono /\ g.unico = envio[e].unico /\ g.lista = envio[e].lista
  BY <1>1 DEF Envio
<1>3. envio' = [envio EXCEPT ![e] = g]
  OBVIOUS
<1> HIDE DEF g
<1>4. /\ envio' \in [Envios -> Envio] /\ envio'[e] = g
      /\ \A a \in Envios \ {e} : envio'[a] = envio[a]
  BY <1>1, <1>2, <1>3
<1> QED
  BY <1>2, <1>4

\* A row belongs to an owner.
LEMMA TemDono ==
    ASSUME TipoArquivos, EnvioOK, NEW a \in Envios, anexos[a] # "sem"
    PROVE  DonoDe(a) \in Donos
  BY DEF EnvioOK, DonoDe, TipoArquivos

\* The transaction of an upload takes effect: the upload goes on to p, its
\* answer may be lost and its object deleted.
LEMMA Efetivacao ==
    ASSUME IInvArquivos, NEW e \in Envios, NEW p \in {"gravado", "feito", "falhou"},
           envio[e].pc = "listado", Efetivar(e), envio' = [envio EXCEPT ![e].pc = p],
           \/ UNCHANGED <<objetos, incerto>>
           \/ objetos' = ObjetosSem(e) /\ incerto' = incerto \cup {e},
           UNCHANGED <<textos, despachados, remocao, extracao, juntos>>
    PROVE  IInvArquivos'
<1> DEFINE S == envio[e].lista
<1>1. /\ TipoArquivos /\ EnvioOK /\ S \in SUBSET Envios /\ DonoDe(e) \in Donos /\ p \in PassosEnvio
      /\ anexos \in [Envios -> {"sem", "vivo", "removido"}] /\ retrato \in [Donos -> Envios \cup {SemArquivo}]
      /\ envio[e] \in Envio /\ anexos[e] = "sem"
  BY DEF IInvArquivos, TipoArquivos, EnvioOK, Envio, DonoDe, PassosEnvio
<1>2. PICK d \in Donos : DonoDe(e) = d
  BY <1>1
<1>3. /\ envio' \in [Envios -> Envio] /\ envio'[e].pc = p
      /\ \A a \in Envios \ {e} : envio'[a] = envio[a]
      /\ \A a \in Envios : envio'[a].dono = envio[a].dono /\ envio'[a].unico = envio[a].unico
                           /\ envio'[a].lista = envio[a].lista
  BY <1>1, SoPasso
<1>4. /\ anexos' \in [Envios -> {"sem", "vivo", "removido"}]
      /\ \A a \in Envios : anexos'[a] = "vivo" <=> a = e \/ (anexos[a] = "vivo" /\ a \notin S)
      /\ \A a \in Envios : anexos'[a] = "sem" <=> a # e /\ anexos[a] = "sem"
  BY <1>1, AnexosSemFaz DEF Efetivar
<1>5. /\ retrato' \in [Donos -> Envios \cup {SemArquivo}]
      /\ \A c \in Donos \ {d} : retrato'[c] = retrato[c]
      /\ d \in ComFoto => retrato'[d] = e
  BY <1>1, <1>2 DEF Efetivar, RetratoCom, RetratoSem, ComFoto
<1>6. \A a \in S : anexos[a] # "sem" /\ DonoDe(a) = d
  BY <1>1, <1>2 DEF EnvioOK, DonoDe
\* The live attachments of the other owners stay; this one has the new one.
<1>7. \A c \in Donos \ {d} : Vivos(c)' = Vivos(c)
  BY <1>3, <1>4, <1>6, <1>2 DEF Vivos, DonoDe
<1>8. Vivos(d)' = (Vivos(d) \ S) \cup {e}
  BY <1>3, <1>4, <1>2 DEF Vivos, DonoDe
<1> HIDE DEF S
<1>9. TipoArquivos'
  BY <1>1, <1>3, <1>4, <1>5 DEF TipoArquivos, ObjetosSem
<1>10. EnvioOK'
  <2> SUFFICES ASSUME NEW a \in Envios
               PROVE  /\ envio'[a].pc # "novo" => envio'[a].dono \in Donos
                      /\ envio'[a].pc \in {"novo", "guardado", "listado"} => anexos'[a] = "sem"
                      /\ envio'[a].pc \in {"gravado", "logo", "feito"} => anexos'[a] # "sem"
                      /\ envio'[a].pc \in {"guardado", "listado"} => a \in objetos'
                      /\ envio'[a].pc = "logo" => Origem[envio'[a].dono] = "tenant"
                      /\ \A b \in envio'[a].lista : anexos'[b] # "sem" /\ envio'[b].dono = envio'[a].dono
    BY DEF EnvioOK
  <2>1. \A b \in envio[a].lista : b \in Envios /\ anexos[b] # "sem" /\ envio[b].dono = envio[a].dono
    BY <1>1 DEF EnvioOK, TipoArquivos, Envio
  <2>2. \A b \in envio'[a].lista : anexos'[b] # "sem" /\ envio'[b].dono = envio'[a].dono
    BY <1>3, <1>4, <2>1
  <2>3. CASE a = e
    BY <1>1, <1>3, <1>4, <2>2, <2>3 DEF DonoDe
  <2>4. CASE a # e
    BY <1>1, <1>3, <1>4, <2>2, <2>4 DEF EnvioOK, ObjetosSem
  <2> QED
    BY <2>3, <2>4
<1>11. RemocaoOK'
  BY <1>4 DEF IInvArquivos, RemocaoOK
<1>12. FotosOK'
  <2> SUFFICES ASSUME NEW c \in ComFoto, juntos[c] = "nao"
               PROVE  /\ \A g, h \in Vivos(c)' : g = h
                      /\ Vivos(c)' # {} => retrato'[c] \in Vivos(c)'
                      /\ \A g, h \in Envios : EmCurso(g)' /\ EmCurso(h)' /\ DonoDe(g)' = c /\ DonoDe(h)' = c => g = h
                      /\ \A g \in Envios : DonoDe(g)' = c => envio'[g].unico = "sim"
                      /\ \A g \in Envios : DonoDe(g)' = c /\ envio'[g].pc = "listado" => Vivos(c)' \subseteq envio'[g].lista
    BY DEF FotosOK, ComFoto
  <2>1. /\ \A g, h \in Vivos(c) : g = h
        /\ Vivos(c) # {} => retrato[c] \in Vivos(c)
        /\ \A g, h \in Envios : EmCurso(g) /\ EmCurso(h) /\ DonoDe(g) = c /\ DonoDe(h) = c => g = h
        /\ \A g \in Envios : DonoDe(g) = c => envio[g].unico = "sim"
        /\ \A g \in Envios : DonoDe(g) = c /\ envio[g].pc = "listado" => Vivos(c) \subseteq envio[g].lista
    BY DEF IInvArquivos, FotosOK
  <2>2. \A g \in Envios : EmCurso(g)' => EmCurso(g)
    BY <1>3 DEF EmCurso
  <2>3. EmCurso(e) /\ DonoDe(e) = d /\ d \in Donos /\ c \in Donos
    BY <1>2 DEF EmCurso, ComFoto
  <2>4. \A g \in Envios : DonoDe(g)' = DonoDe(g)
    BY <1>3 DEF DonoDe
  <2>5. CASE c = d
    <3>1. Vivos(d)' = {e} /\ retrato'[d] = e
      BY <1>5, <1>8, <2>1, <2>3, <2>5 DEF S
    <3>2. \A g \in Envios : DonoDe(g)' = c => envio'[g].pc # "listado"
      BY <1>3, <2>1, <2>3, <2>4, <2>5 DEF EmCurso
    <3>3. \A g \in Envios : DonoDe(g) = c => envio'[g].unico = "sim"
      BY <1>3, <2>1
    <3> QED
      BY <2>1, <2>2, <2>4, <2>5, <3>1, <3>2, <3>3
  <2>6. CASE c # d
    <3>1. Vivos(c)' = Vivos(c) /\ retrato'[c] = retrato[c]
      BY <1>5, <1>7, <2>3, <2>6
    <3>2. \A g \in Envios : DonoDe(g) = c => envio'[g] = envio[g]
      BY <1>3, <2>3, <2>6
    <3>3. \A g \in Envios : DonoDe(g) = c /\ envio'[g].pc = "listado" => Vivos(c)' \subseteq envio'[g].lista
      BY <2>1, <3>1, <3>2
    <3>4. \A g \in Envios : DonoDe(g) = c => envio'[g].unico = "sim"
      BY <2>1, <3>2
    <3> QED
      BY <2>1, <2>2, <2>4, <3>1, <3>3, <3>4
  <2> QED
    BY <2>5, <2>6
<1>13. ExtracaoOK'
  BY <1>4 DEF IInvArquivos, ExtracaoOK, TipoArquivos
<1>14. RetratoVivo'
  <2> SUFFICES ASSUME NEW c \in ComFoto, retrato'[c] # SemArquivo PROVE retrato'[c] \in Vivos(c)'
    BY DEF RetratoVivo, ComFoto
  <2>1. CASE c = d
    BY <1>5, <1>8, <2>1
  <2>2. CASE c # d
    BY <1>5, <1>7, <2>2 DEF IInvArquivos, RetratoVivo, ComFoto
  <2> QED
    BY <2>1, <2>2
<1>15. ObjetoGuardado'
  BY <1>1, <1>4 DEF IInvArquivos, ObjetoGuardado, EnvioOK, ObjetosSem
<1>16. TextoDoDespachado'
  BY <1>4 DEF IInvArquivos, TextoDoDespachado
<1> QED
  BY <1>9, <1>10, <1>11, <1>12, <1>13, <1>14, <1>15, <1>16 DEF IInvArquivos

\* An upload that has nothing more to write to its row goes on to p: undone,
\* dead, dispatched, or its logotype written.
LEMMA Encerramento ==
    ASSUME IInvArquivos, NEW e \in Envios, NEW p \in {"falhou", "logo", "feito"}, envio[e].pc # "novo",
           envio' = [envio EXCEPT ![e].pc = p],
           p # "falhou" => envio[e].pc \in {"gravado", "logo"},
           p = "logo" => Origem[DonoDe(e)] = "tenant",
           objetos' = objetos \/ (anexos[e] = "sem" /\ objetos' = ObjetosSem(e)),
           despachados' = despachados \/ (anexos[e] # "sem" /\ despachados' = despachados \cup {e}),
           retrato' \in [Donos -> Envios \cup {SemArquivo}], \A c \in ComFoto : retrato'[c] = retrato[c],
           UNCHANGED <<anexos, textos, remocao, extracao, juntos, incerto>>
    PROVE  IInvArquivos'
<1>1. TipoArquivos /\ EnvioOK /\ p \in PassosEnvio
  BY DEF IInvArquivos, PassosEnvio
<1>2. /\ envio' \in [Envios -> Envio] /\ envio'[e].pc = p
      /\ \A a \in Envios \ {e} : envio'[a] = envio[a]
      /\ \A a \in Envios : envio'[a].dono = envio[a].dono /\ envio'[a].unico = envio[a].unico
                           /\ envio'[a].lista = envio[a].lista
  BY <1>1, SoPasso
<1>3. \A c \in Donos : Vivos(c)' = Vivos(c)
  BY <1>2 DEF Vivos, DonoDe
<1>4. TipoArquivos'
  BY <1>1, <1>2 DEF TipoArquivos, ObjetosSem
<1>5. EnvioOK'
  <2> SUFFICES ASSUME NEW a \in Envios
               PROVE  /\ envio'[a].pc # "novo" => envio'[a].dono \in Donos
                      /\ envio'[a].pc \in {"novo", "guardado", "listado"} => anexos'[a] = "sem"
                      /\ envio'[a].pc \in {"gravado", "logo", "feito"} => anexos'[a] # "sem"
                      /\ envio'[a].pc \in {"guardado", "listado"} => a \in objetos'
                      /\ envio'[a].pc = "logo" => Origem[envio'[a].dono] = "tenant"
                      /\ \A b \in envio'[a].lista : anexos'[b] # "sem" /\ envio'[b].dono = envio'[a].dono
    BY DEF EnvioOK
  <2>1. \A b \in envio[a].lista : b \in Envios /\ anexos[b] # "sem" /\ envio[b].dono = envio[a].dono
    BY <1>1 DEF EnvioOK, TipoArquivos, Envio
  <2>2. \A b \in envio'[a].lista : anexos'[b] # "sem" /\ envio'[b].dono = envio'[a].dono
    BY <1>2, <2>1
  <2>3. CASE a = e
    BY <1>1, <1>2, <2>2, <2>3 DEF DonoDe, EnvioOK
  <2>4. CASE a # e
    BY <1>1, <1>2, <2>2, <2>4 DEF EnvioOK, ObjetosSem
  <2> QED
    BY <2>3, <2>4
<1>6. RemocaoOK'
  BY DEF IInvArquivos, RemocaoOK
<1>7. FotosOK'
  <2>1. \A g \in Envios : /\ EmCurso(g)' => EmCurso(g)
                          /\ DonoDe(g)' = DonoDe(g)
                          /\ envio'[g].pc = "listado" => envio[g].pc = "listado"
    BY <1>2 DEF EmCurso, DonoDe
  <2> QED
    BY <1>2, <1>3, <2>1 DEF IInvArquivos, FotosOK, ComFoto
<1>8. ExtracaoOK'
  BY DEF IInvArquivos, ExtracaoOK
<1>9. RetratoVivo'
  BY <1>3 DEF IInvArquivos, RetratoVivo, ComFoto
<1>10. ObjetoGuardado'
  BY DEF IInvArquivos, ObjetoGuardado, ObjetosSem
<1>11. TextoDoDespachado'
  BY DEF IInvArquivos, TextoDoDespachado
<1> QED
  BY <1>4, <1>5, <1>6, <1>7, <1>8, <1>9, <1>10, <1>11 DEF IInvArquivos

\* A new upload.
LEMMA GuardarPasso ==
    ASSUME IInvArquivos, NEW e \in Envios, NEW d \in Donos, NEW unico \in {"sim", "nao"}, Guardar(e, d, unico)
    PROVE  IInvArquivos'
<1> DEFINE g == [pc |-> "guardado", dono |-> d, unico |-> unico, lista |-> {}]
<1>1. /\ TipoArquivos /\ EnvioOK /\ envio \in [Envios -> Envio] /\ envio[e].pc = "novo" /\ anexos[e] = "sem"
      /\ envio' = [envio EXCEPT ![e] = g] /\ objetos' = objetos \cup {e}
      /\ juntos' = IF unico = "nao" \/ \E f \in Envios : EmCurso(f) /\ DonoDe(f) = d
                   THEN [juntos EXCEPT ![d] = "sim"] ELSE juntos
      /\ UNCHANGED <<anexos, retrato, textos, despachados, remocao, extracao, incerto>>
  BY DEF IInvArquivos, TipoArquivos, EnvioOK, Guardar
<1>2. g \in Envio /\ g.pc = "guardado" /\ g.dono = d /\ g.unico = unico /\ g.lista = {}
  BY DEF Envio, PassosEnvio
<1> HIDE DEF g
<1>3. /\ envio' \in [Envios -> Envio] /\ envio'[e] = g
      /\ \A a \in Envios \ {e} : envio'[a] = envio[a]
  BY <1>1, <1>2
<1>4. /\ juntos' \in [Donos -> {"nao", "sim"}]
      /\ \A c \in Donos : juntos'[c] = "nao" => juntos[c] = "nao"
      /\ juntos'[d] = "nao" => unico = "sim" /\ \A f \in Envios : ~(EmCurso(f) /\ DonoDe(f) = d)
  BY <1>1 DEF TipoArquivos
\* The file has no row yet: nobody's attachments change.
<1>5. \A c \in Donos : Vivos(c)' = Vivos(c)
  BY <1>1, <1>3 DEF Vivos, DonoDe
<1>6. TipoArquivos'
  BY <1>1, <1>3, <1>4 DEF TipoArquivos
<1>7. EnvioOK'
  <2> SUFFICES ASSUME NEW a \in Envios
               PROVE  /\ envio'[a].pc # "novo" => envio'[a].dono \in Donos
                      /\ envio'[a].pc \in {"novo", "guardado", "listado"} => anexos'[a] = "sem"
                      /\ envio'[a].pc \in {"gravado", "logo", "feito"} => anexos'[a] # "sem"
                      /\ envio'[a].pc \in {"guardado", "listado"} => a \in objetos'
                      /\ envio'[a].pc = "logo" => Origem[envio'[a].dono] = "tenant"
                      /\ \A b \in envio'[a].lista : anexos'[b] # "sem" /\ envio'[b].dono = envio'[a].dono
    BY DEF EnvioOK
  <2>1. \A b \in envio[a].lista : b \in Envios /\ anexos[b] # "sem" /\ envio[b].dono = envio[a].dono
    BY <1>1 DEF EnvioOK, TipoArquivos, Envio
  <2>2. CASE a = e
    BY <1>1, <1>2, <1>3, <2>2
  <2>3. CASE a # e
    <3>1. envio'[a] = envio[a] /\ \A b \in envio[a].lista : b # e
      BY <1>1, <1>3, <2>1, <2>3
    <3>2. \A b \in envio'[a].lista : anexos'[b] # "sem" /\ envio'[b].dono = envio'[a].dono
      BY <1>1, <1>3, <2>1, <3>1
    <3> QED
      BY <1>1, <3>1, <3>2 DEF EnvioOK
  <2> QED
    BY <2>2, <2>3
<1>8. RemocaoOK'
  BY <1>1 DEF IInvArquivos, RemocaoOK
<1>9. FotosOK'
  <2> SUFFICES ASSUME NEW c \in ComFoto, juntos'[c] = "nao"
               PROVE  /\ \A x, h \in Vivos(c)' : x = h
                      /\ Vivos(c)' # {} => retrato'[c] \in Vivos(c)'
                      /\ \A x, h \in Envios : EmCurso(x)' /\ EmCurso(h)' /\ DonoDe(x)' = c /\ DonoDe(h)' = c => x = h
                      /\ \A x \in Envios : DonoDe(x)' = c => envio'[x].unico = "sim"
                      /\ \A x \in Envios : DonoDe(x)' = c /\ envio'[x].pc = "listado" => Vivos(c)' \subseteq envio'[x].lista
    BY DEF FotosOK, ComFoto
  <2>1. c \in Donos /\ juntos[c] = "nao"
    BY <1>4 DEF ComFoto
  <2>2. /\ \A x, h \in Vivos(c) : x = h
        /\ Vivos(c) # {} => retrato[c] \in Vivos(c)
        /\ \A x, h \in Envios : EmCurso(x) /\ EmCurso(h) /\ DonoDe(x) = c /\ DonoDe(h) = c => x = h
        /\ \A x \in Envios : DonoDe(x) = c => envio[x].unico = "sim"
        /\ \A x \in Envios : DonoDe(x) = c /\ envio[x].pc = "listado" => Vivos(c) \subseteq envio[x].lista
    BY <2>1 DEF IInvArquivos, FotosOK
  <2>3. /\ DonoDe(e)' = d /\ envio'[e].unico = unico /\ envio'[e].pc = "guardado"
        /\ \A x \in Envios \ {e} : /\ DonoDe(x)' = DonoDe(x) /\ (EmCurso(x)' <=> EmCurso(x))
                                   /\ envio'[x] = envio[x]
    BY <1>2, <1>3 DEF DonoDe, EmCurso
  <2>4. c = d => unico = "sim" /\ \A f \in Envios : ~(EmCurso(f) /\ DonoDe(f) = c)
    BY <1>4
  <2>5. Vivos(c)' = Vivos(c) /\ retrato'[c] = retrato[c]
    BY <1>1, <1>5, <2>1
  <2>6. \A x, h \in Envios : EmCurso(x)' /\ EmCurso(h)' /\ DonoDe(x)' = c /\ DonoDe(h)' = c => x = h
    BY <2>2, <2>3, <2>4
  <2>7. \A x \in Envios : DonoDe(x)' = c => envio'[x].unico = "sim"
    BY <2>2, <2>3, <2>4
  <2>8. \A x \in Envios : DonoDe(x)' = c /\ envio'[x].pc = "listado" => Vivos(c)' \subseteq envio'[x].lista
    BY <2>2, <2>3, <2>5
  <2> QED
    BY <2>2, <2>5, <2>6, <2>7, <2>8
<1>10. ExtracaoOK'
  BY <1>1 DEF IInvArquivos, ExtracaoOK
<1>11. RetratoVivo'
  BY <1>1, <1>5 DEF IInvArquivos, RetratoVivo, ComFoto
<1>12. ObjetoGuardado'
  BY <1>1 DEF IInvArquivos, ObjetoGuardado
<1>13. TextoDoDespachado'
  BY <1>1 DEF IInvArquivos, TextoDoDespachado
<1> QED
  BY <1>6, <1>7, <1>8, <1>9, <1>10, <1>11, <1>12, <1>13 DEF IInvArquivos

\* The photos to be replaced are listed.
LEMMA ListarPasso ==
    ASSUME IInvArquivos, NEW e \in Envios, Listar(e)
    PROVE  IInvArquivos'
<1> DEFINE L == IF envio[e].unico = "sim" THEN Vivos(DonoDe(e)) ELSE {}
<1>1. /\ TipoArquivos /\ EnvioOK /\ envio[e].pc = "guardado" /\ "listado" \in PassosEnvio
      /\ UNCHANGED <<objetos, anexos, retrato, textos, despachados, remocao, extracao, juntos, incerto>>
  BY DEF IInvArquivos, Listar, PassosEnvio
<1>2. envio' = [envio EXCEPT ![e].pc = "listado", ![e].lista = L]
  BY DEF Listar
<1>3. /\ L \in SUBSET Envios /\ (\A b \in L : anexos[b] # "sem" /\ envio[b].dono = envio[e].dono)
      /\ envio[e].unico = "sim" => L = Vivos(DonoDe(e))
  BY DEF Vivos, DonoDe
<1> HIDE DEF L
<1>4. /\ envio' \in [Envios -> Envio]
      /\ envio'[e].pc = "listado" /\ envio'[e].lista = L
      /\ \A a \in Envios \ {e} : envio'[a] = envio[a]
      /\ \A a \in Envios : envio'[a].dono = envio[a].dono /\ envio'[a].unico = envio[a].unico
  BY <1>1, <1>2, <1>3, PassarEnvio
<1>5. \A c \in Donos : Vivos(c)' = Vivos(c)
  BY <1>1, <1>4 DEF Vivos, DonoDe
<1>6. TipoArquivos'
  BY <1>1, <1>4 DEF TipoArquivos
<1>7. EnvioOK'
  <2> SUFFICES ASSUME NEW a \in Envios
               PROVE  /\ envio'[a].pc # "novo" => envio'[a].dono \in Donos
                      /\ envio'[a].pc \in {"novo", "guardado", "listado"} => anexos'[a] = "sem"
                      /\ envio'[a].pc \in {"gravado", "logo", "feito"} => anexos'[a] # "sem"
                      /\ envio'[a].pc \in {"guardado", "listado"} => a \in objetos'
                      /\ envio'[a].pc = "logo" => Origem[envio'[a].dono] = "tenant"
                      /\ \A b \in envio'[a].lista : anexos'[b] # "sem" /\ envio'[b].dono = envio'[a].dono
    BY DEF EnvioOK
  <2>1. \A b \in envio[a].lista : b \in Envios /\ anexos[b] # "sem" /\ envio[b].dono = envio[a].dono
    BY <1>1 DEF EnvioOK, TipoArquivos, Envio
  <2>2. CASE a = e
    BY <1>1, <1>3, <1>4, <2>2 DEF EnvioOK
  <2>3. CASE a # e
    <3>1. \A b \in envio'[a].lista : anexos'[b] # "sem" /\ envio'[b].dono = envio'[a].dono
      BY <1>1, <1>4, <2>1, <2>3
    <3> QED
      BY <1>1, <1>4, <2>3, <3>1 DEF EnvioOK
  <2> QED
    BY <2>2, <2>3
<1>8. RemocaoOK'
  BY <1>1 DEF IInvArquivos, RemocaoOK
<1>9. FotosOK'
  <2>1. \A x \in Envios : DonoDe(x)' = DonoDe(x) /\ (EmCurso(x)' <=> EmCurso(x))
    BY <1>1, <1>4 DEF DonoDe, EmCurso
  <2>2. \A c \in ComFoto : juntos[c] = "nao" =>
            \A x \in Envios : DonoDe(x) = c /\ envio'[x].pc = "listado" => Vivos(c) \subseteq envio'[x].lista
    <3> SUFFICES ASSUME NEW c \in ComFoto, juntos[c] = "nao", NEW x \in Envios, DonoDe(x) = c, envio'[x].pc = "listado"
                 PROVE  Vivos(c) \subseteq envio'[x].lista
      OBVIOUS
    <3>1. CASE x = e
      BY <1>3, <1>4, <3>1 DEF IInvArquivos, FotosOK
    <3>2. CASE x # e
      BY <1>4, <3>2 DEF IInvArquivos, FotosOK
    <3> QED
      BY <3>1, <3>2
  <2> QED
    BY <1>1, <1>4, <1>5, <2>1, <2>2 DEF IInvArquivos, FotosOK, ComFoto
<1>10. ExtracaoOK'
  BY <1>1 DEF IInvArquivos, ExtracaoOK
<1>11. RetratoVivo'
  BY <1>1, <1>5 DEF IInvArquivos, RetratoVivo, ComFoto
<1>12. ObjetoGuardado'
  BY <1>1 DEF IInvArquivos, ObjetoGuardado
<1>13. TextoDoDespachado'
  BY <1>1 DEF IInvArquivos, TextoDoDespachado
<1> QED
  BY <1>6, <1>7, <1>8, <1>9, <1>10, <1>11, <1>12, <1>13 DEF IInvArquivos

\* A removal has picked a live attachment.
LEMMA EscolherPasso ==
    ASSUME IInvArquivos, NEW r \in Remocoes, NEW e \in Envios, EscolherRemocao(r, e)
    PROVE  IInvArquivos'
<1> DEFINE g == [pc |-> "lido", anexo |-> e]
<1>1. /\ g \in Remocao /\ g.anexo = e /\ anexos[e] = "vivo" /\ remocao \in [Remocoes -> Remocao]
      /\ remocao' = [remocao EXCEPT ![r] = g]
      /\ UNCHANGED <<objetos, anexos, retrato, textos, despachados, envio, extracao, juntos, incerto>>
  BY DEF EscolherRemocao, Remocao, IInvArquivos, TipoArquivos
<1> HIDE DEF g
<1>2. /\ remocao' \in [Remocoes -> Remocao] /\ remocao'[r] = g
      /\ \A s \in Remocoes \ {r} : remocao'[s] = remocao[s]
  BY <1>1
<1>3. TipoArquivos'
  BY <1>1, <1>2 DEF IInvArquivos, TipoArquivos
<1>4. RemocaoOK'
  BY <1>1, <1>2 DEF IInvArquivos, RemocaoOK
<1>5. EnvioOK' /\ FotosOK' /\ ExtracaoOK'
  BY <1>1 DEF IInvArquivos, EnvioOK, FotosOK, ExtracaoOK, Vivos, DonoDe, EmCurso
<1>6. RetratoVivo' /\ ObjetoGuardado' /\ TextoDoDespachado'
  BY <1>1 DEF IInvArquivos, RetratoVivo, ObjetoGuardado, TextoDoDespachado, Vivos, DonoDe
<1> QED
  BY <1>3, <1>4, <1>5, <1>6 DEF IInvArquivos

\* The attachment is removed, and the pointer cleared when it names it.
LEMMA RemoverPasso ==
    ASSUME IInvArquivos, NEW r \in Remocoes, Remover(r)
    PROVE  IInvArquivos'
<1> DEFINE g == [remocao[r] EXCEPT !.pc = "feita"]
<1>1. /\ TipoArquivos /\ EnvioOK /\ remocao \in [Remocoes -> Remocao] /\ remocao[r] \in Remocao
      /\ remocao[r].anexo \in Envios /\ anexos[remocao[r].anexo] # "sem"
      /\ retrato \in [Donos -> Envios \cup {SemArquivo}]
      /\ UNCHANGED <<objetos, textos, despachados, envio, extracao, juntos, incerto>>
  BY DEF IInvArquivos, TipoArquivos, RemocaoOK, Remover
<1>2. PICK e \in Envios : remocao[r].anexo = e
  BY <1>1
<1>3. PICK d \in Donos : DonoDe(e) = d
  BY <1>1, <1>2, TemDono
<1>4. /\ anexos' = AnexosSem({e}) /\ retrato' = [retrato EXCEPT ![d] = RetratoSem({e}, d)]
      /\ remocao' = [remocao EXCEPT ![r] = g]
  BY <1>2, <1>3 DEF Remover
<1>5. g \in Remocao /\ g.pc = "feita"
  BY <1>1 DEF Remocao
<1> HIDE DEF g
<1>6. /\ remocao' \in [Remocoes -> Remocao] /\ remocao'[r].pc = "feita"
      /\ \A s \in Remocoes \ {r} : remocao'[s] = remocao[s]
  BY <1>1, <1>4, <1>5
<1>7. /\ anexos' \in [Envios -> {"sem", "vivo", "removido"}]
      /\ \A a \in Envios : anexos'[a] = "vivo" <=> anexos[a] = "vivo" /\ a # e
      /\ \A a \in Envios : anexos'[a] = "sem" <=> anexos[a] = "sem"
  BY <1>1, <1>4, AnexosSemFaz
<1>8. /\ retrato' \in [Donos -> Envios \cup {SemArquivo}]
      /\ \A c \in Donos \ {d} : retrato'[c] = retrato[c]
      /\ retrato'[d] \in {retrato[d], SemArquivo}
      /\ d \in ComFoto /\ anexos[e] = "vivo" => retrato'[d] # e
      /\ retrato[d] # e => retrato'[d] = retrato[d]
  BY <1>1, <1>4, ArquivosAssumption DEF RetratoSem, ComFoto
<1>9. \A c \in Donos : Vivos(c)' = Vivos(c) \ {e}
  BY <1>1, <1>7 DEF Vivos, DonoDe
<1>10. \A c \in Donos \ {d} : e \notin Vivos(c)
  BY <1>3 DEF Vivos
<1>11. TipoArquivos'
  BY <1>1, <1>6, <1>7, <1>8 DEF TipoArquivos
<1>12. EnvioOK'
  BY <1>1, <1>7 DEF EnvioOK, TipoArquivos, Envio
<1>13. RemocaoOK'
  BY <1>6, <1>7 DEF IInvArquivos, RemocaoOK
<1>14. RetratoVivo'
  <2> SUFFICES ASSUME NEW c \in ComFoto, retrato'[c] # SemArquivo PROVE retrato'[c] \in Vivos(c)'
    BY DEF RetratoVivo, ComFoto
  <2>1. c \in Donos /\ (retrato[c] # SemArquivo => retrato[c] \in Vivos(c))
    BY DEF IInvArquivos, RetratoVivo, ComFoto
  <2>2. CASE c = d
    <3>1. retrato'[d] = retrato[d] /\ retrato[d] \in Vivos(d)
      BY <1>8, <2>1, <2>2
    <3>2. retrato[d] # e
      BY <1>8, <2>2, <3>1 DEF Vivos
    <3> QED
      BY <1>9, <2>2, <3>1, <3>2
  <2>3. CASE c # d
    BY <1>8, <1>9, <1>10, <2>1, <2>3
  <2> QED
    BY <2>2, <2>3
<1>15. FotosOK'
  <2> SUFFICES ASSUME NEW c \in ComFoto, juntos[c] = "nao"
               PROVE  /\ \A x, h \in Vivos(c)' : x = h
                      /\ Vivos(c)' # {} => retrato'[c] \in Vivos(c)'
                      /\ \A x \in Envios : DonoDe(x) = c /\ envio[x].pc = "listado" => Vivos(c)' \subseteq envio[x].lista
                      /\ \A x, h \in Envios : EmCurso(x) /\ EmCurso(h) /\ DonoDe(x) = c /\ DonoDe(h) = c => x = h
                      /\ \A x \in Envios : DonoDe(x) = c => envio[x].unico = "sim"
    BY <1>1 DEF FotosOK, ComFoto, DonoDe, EmCurso
  <2>1. /\ \A x, h \in Vivos(c) : x = h
        /\ Vivos(c) # {} => retrato[c] \in Vivos(c)
        /\ \A x, h \in Envios : EmCurso(x) /\ EmCurso(h) /\ DonoDe(x) = c /\ DonoDe(h) = c => x = h
        /\ \A x \in Envios : DonoDe(x) = c => envio[x].unico = "sim"
        /\ \A x \in Envios : DonoDe(x) = c /\ envio[x].pc = "listado" => Vivos(c) \subseteq envio[x].lista
    BY DEF IInvArquivos, FotosOK
  <2>2. c \in Donos /\ Vivos(c)' \subseteq Vivos(c) /\ e \notin Vivos(c)'
    BY <1>9 DEF ComFoto
  <2>3. Vivos(c)' # {} => retrato[c] \in Vivos(c)' /\ retrato[c] # e
    BY <2>1, <2>2
  <2>4. Vivos(c)' # {} => retrato'[c] \in Vivos(c)'
    BY <1>8, <2>2, <2>3
  <2> QED
    BY <2>1, <2>2, <2>4
<1>16. ExtracaoOK'
  BY <1>1, <1>7 DEF IInvArquivos, ExtracaoOK, TipoArquivos
<1>17. ObjetoGuardado' /\ TextoDoDespachado'
  BY <1>1, <1>7 DEF IInvArquivos, ObjetoGuardado, TextoDoDespachado
<1> QED
  BY <1>11, <1>12, <1>13, <1>14, <1>15, <1>16, <1>17 DEF IInvArquivos

\* A delivery takes its message, deletes the texts it finds, writes its own.
LEMMA ExtracaoPasso ==
    ASSUME IInvArquivos, NEW x \in Extracoes,
           \/ ApagarTextos(x) \/ GravarTexto(x) \/ \E e \in Envios : Extrair(x, e)
    PROVE  IInvArquivos'
<1>1. /\ TipoArquivos /\ ExtracaoOK /\ TextoDoDespachado
      /\ extracao \in [Extracoes -> Extracao] /\ extracao[x] \in Extracao /\ textos \in [Envios -> SUBSET Extracoes]
      /\ UNCHANGED <<objetos, anexos, retrato, despachados, envio, remocao, juntos, incerto>>
  BY DEF IInvArquivos, TipoArquivos, ApagarTextos, GravarTexto, Extrair
<1>2. EnvioOK' /\ RemocaoOK' /\ FotosOK'
  BY <1>1 DEF IInvArquivos, EnvioOK, RemocaoOK, FotosOK, Vivos, DonoDe, EmCurso
<1>3. RetratoVivo' /\ ObjetoGuardado'
  BY <1>1 DEF IInvArquivos, RetratoVivo, ObjetoGuardado, Vivos, DonoDe
<1>4. ASSUME NEW e \in Envios, Extrair(x, e) PROVE IInvArquivos'
  <2> DEFINE p == IF anexos[e] = "vivo" /\ e \in objetos THEN "lido" ELSE "falhou"
             g == [pc |-> p, anexo |-> e, apagados |-> {}]
  <2>1. /\ g \in Extracao /\ g.anexo = e /\ g.apagados = {} /\ e \in despachados
        /\ g.pc \in {"lido", "falhou"} /\ extracao[x].pc = "nova"
        /\ extracao' = [extracao EXCEPT ![x] = g] /\ textos' = textos
    BY <1>4 DEF Extrair, Extracao
  <2> HIDE DEF g, p
  <2>2. /\ extracao' \in [Extracoes -> Extracao] /\ extracao'[x] = g
        /\ \A y \in Extracoes \ {x} : extracao'[y] = extracao[y]
    BY <1>1, <2>1
  <2>3. TipoArquivos'
    BY <1>1, <2>1, <2>2 DEF TipoArquivos
  <2>4. ExtracaoOK'
    <3>1. \A z \in Extracoes : extracao[z].pc \in {"nova", "lido", "apagou"} =>
              \A y \in Extracoes : z \notin extracao'[y].apagados
      BY <1>1, <2>1, <2>2 DEF ExtracaoOK
    <3> QED
      BY <1>1, <2>1, <2>2, <3>1 DEF ExtracaoOK
  <2>5. TextoDoDespachado'
    BY <1>1, <2>1, <2>2 DEF TextoDoDespachado, ExtracaoOK
  <2> QED
    BY <1>2, <1>3, <2>3, <2>4, <2>5 DEF IInvArquivos
<1>5. ASSUME ApagarTextos(x) PROVE IInvArquivos'
  <2> DEFINE a == textos[extracao[x].anexo]
             g == [extracao[x] EXCEPT !.pc = "apagou", !.apagados = a]
  <2>1. /\ extracao[x].pc = "lido" /\ extracao[x].anexo \in despachados /\ extracao[x].anexo \in Envios
        /\ extracao' = [extracao EXCEPT ![x] = g] /\ textos' = textos
    BY <1>1, <1>5 DEF ApagarTextos, ExtracaoOK, TipoArquivos
  <2>2. a \in SUBSET Extracoes /\ \A z \in Extracoes : extracao[z].pc \in {"nova", "lido", "apagou"} => z \notin a
    BY <1>1, <2>1 DEF ExtracaoOK
  <2>3. g \in Extracao /\ g.pc = "apagou" /\ g.anexo = extracao[x].anexo /\ g.apagados = a
    <3> HIDE DEF a
    <3> QED  BY <1>1, <2>2 DEF Extracao
  <2> HIDE DEF g, a
  <2>4. /\ extracao' \in [Extracoes -> Extracao] /\ extracao'[x] = g
        /\ \A y \in Extracoes \ {x} : extracao'[y] = extracao[y]
    BY <1>1, <2>1, <2>3
  <2>5. TipoArquivos'
    BY <1>1, <2>1, <2>4 DEF TipoArquivos
  <2>6. ExtracaoOK'
    <3>1. \A z \in Extracoes : extracao[z].pc \in {"nova", "lido", "apagou"} =>
              \A y \in Extracoes : z \notin extracao'[y].apagados
      BY <1>1, <2>2, <2>3, <2>4 DEF ExtracaoOK
    <3> QED
      BY <1>1, <2>1, <2>3, <2>4, <3>1 DEF ExtracaoOK
  <2>7. TextoDoDespachado'
    \* Nobody has seen the text of x, which is not written: only the other
    \* deliveries have one.
    <3>1. \A e \in Envios : x \notin textos[e] /\ textos[e] \subseteq Extracoes
      BY <1>1, <2>1 DEF ExtracaoOK
    <3> QED
      BY <1>1, <2>1, <2>4, <3>1 DEF TextoDoDespachado
  <2> QED
    BY <1>2, <1>3, <2>5, <2>6, <2>7 DEF IInvArquivos
<1>6. ASSUME GravarTexto(x) PROVE IInvArquivos'
  <2> DEFINE g == [extracao[x] EXCEPT !.pc = "feita"]
  <2>1. /\ extracao[x].pc = "apagou" /\ extracao[x].anexo \in despachados /\ extracao[x].anexo \in Envios
        /\ extracao' = [extracao EXCEPT ![x] = g]
    BY <1>1, <1>6 DEF GravarTexto, ExtracaoOK, TipoArquivos
  <2>2. PICK e \in Envios : extracao[x].anexo = e
    BY <2>1
  <2>3. textos' = [textos EXCEPT ![e] = (textos[e] \ extracao[x].apagados) \cup {x}]
    BY <1>6, <2>2 DEF GravarTexto
  <2>4. g \in Extracao /\ g.pc = "feita" /\ g.apagados = extracao[x].apagados
    BY <1>1 DEF Extracao
  <2> HIDE DEF g
  <2>5. /\ extracao' \in [Extracoes -> Extracao] /\ extracao'[x] = g
        /\ \A y \in Extracoes \ {x} : extracao'[y] = extracao[y]
        /\ \A y \in Extracoes : extracao'[y].apagados = extracao[y].apagados
    BY <1>1, <2>1, <2>4
  <2>6. /\ textos' \in [Envios -> SUBSET Extracoes]
        /\ textos'[e] = (textos[e] \ extracao[x].apagados) \cup {x}
        /\ \A f \in Envios \ {e} : textos'[f] = textos[f]
    BY <1>1, <2>3
  <2>7. TipoArquivos'
    BY <1>1, <2>5, <2>6 DEF TipoArquivos
  <2>8. ExtracaoOK'
    <3>1. \A f \in Envios, z \in Extracoes \ {x} : z \in textos'[f] => z \in textos[f]
      BY <2>6
    <3> QED
      BY <1>1, <2>4, <2>5, <3>1 DEF ExtracaoOK
  <2>9. TextoDoDespachado'
    <3> SUFFICES ASSUME NEW f \in Envios
                 PROVE  /\ textos'[f] # {} => f \in despachados /\ anexos[f] # "sem"
                        /\ \A y, z \in textos'[f] :
                               y # z => y \notin extracao'[z].apagados /\ z \notin extracao'[y].apagados
      BY <1>1 DEF TextoDoDespachado
    <3>1. \A z \in Extracoes : x \notin extracao[z].apagados
      BY <1>1, <2>1 DEF ExtracaoOK
    <3>2. e \in despachados /\ anexos[e] # "sem"
      BY <1>1, <2>1, <2>2 DEF ExtracaoOK
    <3>3. textos'[f] \subseteq Extracoes
      BY <2>6
    <3>4. CASE f = e
      <4>1. \A y \in textos'[e] : y # x => y \in textos[e] /\ y \notin extracao[x].apagados
        BY <2>6
      <4>2. \A y, z \in textos[e] : y # z => y \notin extracao[z].apagados /\ z \notin extracao[y].apagados
        BY <1>1 DEF TextoDoDespachado
      <4> QED
        BY <2>5, <3>1, <3>2, <3>3, <3>4, <4>1, <4>2
    <3>5. CASE f # e
      BY <1>1, <2>5, <2>6, <3>3, <3>5 DEF TextoDoDespachado
    <3> QED
      BY <3>4, <3>5
  <2> QED
    BY <1>2, <1>3, <2>7, <2>8, <2>9 DEF IInvArquivos
<1> QED
  BY <1>4, <1>5, <1>6

\* Pairwise equal live photos are at most one.
LEMMA UmaSo == IInvArquivos => UmaFotoPorVez
<1> SUFFICES ASSUME IInvArquivos, NEW d \in ComFoto, juntos[d] = "nao" PROVE Cardinality(Vivos(d)) <= 1
  BY DEF UmaFotoPorVez, IInvArquivos, FotosOK
<1>1. \A e, f \in Vivos(d) : e = f
  BY DEF IInvArquivos, FotosOK
<1>2. CASE Vivos(d) = {}
  BY <1>2, FS_EmptySet
<1>3. CASE Vivos(d) # {}
  <2>1. PICK e \in Vivos(d) : TRUE
    BY <1>3
  <2>2. Vivos(d) = {e}
    BY <1>1, <2>1
  <2>3. Cardinality({e}) = 1
    BY FS_Singleton
  <2> QED
    BY <2>2, <2>3
<1> QED
  BY <1>2, <1>3

\* Files and attachments (upload, remove_photo, jobs.arquivos.extract): the
\* pointer of a person names a live photo of hers, uploads that did not overlap
\* leave one, an object is there for each row whose commit was answered, a text
\* is of a dispatched file, for any number of uploads, removals and deliveries.
THEOREM ArquivoSempreConfere == SpecArquivos => []ArquivoConfere
<1>1. InitArquivos => IInvArquivos
  <2> SUFFICES ASSUME InitArquivos PROVE IInvArquivos
    OBVIOUS
  <2>1. TipoArquivos
    BY DEF InitArquivos, TipoArquivos, EnvioNovo, RemocaoNova, ExtracaoNova, Envio, Remocao, Extracao,
       PassosEnvio
  <2>2. \A d \in Donos : Vivos(d) = {}
    BY DEF InitArquivos, Vivos
  <2>3. EnvioOK /\ RemocaoOK /\ ExtracaoOK
    BY DEF InitArquivos, EnvioOK, RemocaoOK, ExtracaoOK, EnvioNovo, RemocaoNova, ExtracaoNova
  <2>4. FotosOK
    BY <2>2 DEF InitArquivos, FotosOK, EnvioNovo, EmCurso, ComFoto
  <2>5. RetratoVivo /\ ObjetoGuardado /\ TextoDoDespachado
    BY DEF InitArquivos, RetratoVivo, ObjetoGuardado, TextoDoDespachado, ComFoto
  <2> QED
    BY <2>1, <2>3, <2>4, <2>5 DEF IInvArquivos
<1>2. IInvArquivos /\ [NextArquivos]_arqVars => IInvArquivos'
  <2> SUFFICES ASSUME IInvArquivos, [NextArquivos]_arqVars PROVE IInvArquivos'
    OBVIOUS
  <2>1. TipoArquivos
    BY DEF IInvArquivos
  <2>2. ASSUME NEW e \in Envios, NEW d \in Donos, NEW u \in {"sim", "nao"}, Guardar(e, d, u) PROVE IInvArquivos'
    BY <2>2, GuardarPasso
  <2>3. ASSUME NEW e \in Envios, Listar(e) PROVE IInvArquivos'
    BY <2>3, ListarPasso
  <2>4. ASSUME NEW e \in Envios, Confirmar(e) PROVE IInvArquivos'
    BY <2>4, Efetivacao DEF Confirmar
  <2>5. ASSUME NEW e \in Envios, ConfirmarSemResposta(e) PROVE IInvArquivos'
    BY <2>5, Efetivacao DEF ConfirmarSemResposta
  <2>6. ASSUME NEW e \in Envios, ConfirmarExecucao(e) PROVE IInvArquivos'
    BY <2>6, Efetivacao DEF ConfirmarExecucao
  <2>7. ASSUME NEW e \in Envios, Desfazer(e) PROVE IInvArquivos'
    <3>1. /\ envio[e].pc \in {"guardado", "listado"} /\ envio' = [envio EXCEPT ![e].pc = "falhou"]
          /\ objetos' \in {objetos, ObjetosSem(e)}
          /\ UNCHANGED <<anexos, retrato, textos, despachados, remocao, extracao, juntos, incerto>>
      BY <2>7 DEF Desfazer
    <3>2. anexos[e] = "sem" /\ retrato' \in [Donos -> Envios \cup {SemArquivo}]
      BY <3>1 DEF IInvArquivos, EnvioOK, TipoArquivos
    <3> QED
      BY <3>1, <3>2, Encerramento
  <2>8. ASSUME NEW e \in Envios, Despachar(e) PROVE IInvArquivos'
    <3> DEFINE p == IF Origem[DonoDe(e)] = "tenant" /\ envio[e].unico = "sim" THEN "logo" ELSE "feito"
    <3>1. /\ envio[e].pc = "gravado" /\ envio' = [envio EXCEPT ![e].pc = p]
          /\ despachados' \in {despachados, despachados \cup {e}}
          /\ UNCHANGED <<objetos, anexos, retrato, textos, remocao, extracao, juntos, incerto>>
      BY <2>8 DEF Despachar
    <3>2. anexos[e] # "sem" /\ retrato' \in [Donos -> Envios \cup {SemArquivo}]
      BY <3>1 DEF IInvArquivos, EnvioOK, TipoArquivos
    <3>3. p \in {"falhou", "logo", "feito"} /\ (p = "logo" => Origem[DonoDe(e)] = "tenant")
      OBVIOUS
    <3> HIDE DEF p
    <3> QED
      BY <3>1, <3>2, <3>3, Encerramento
  <2>9. ASSUME NEW e \in Envios, AtualizarLogo(e) PROVE IInvArquivos'
    <3>1. /\ envio[e].pc = "logo" /\ envio' = [envio EXCEPT ![e].pc = "feito"]
          /\ retrato' = [retrato EXCEPT ![DonoDe(e)] = e]
          /\ UNCHANGED <<objetos, anexos, textos, despachados, remocao, extracao, juntos, incerto>>
      BY <2>9 DEF AtualizarLogo
    <3>2. Origem[DonoDe(e)] = "tenant" /\ retrato \in [Donos -> Envios \cup {SemArquivo}]
      BY <3>1 DEF IInvArquivos, EnvioOK, TipoArquivos, DonoDe
    <3>3. retrato' \in [Donos -> Envios \cup {SemArquivo}] /\ \A c \in ComFoto : retrato'[c] = retrato[c]
      BY <3>1, <3>2 DEF ComFoto
    <3> QED
      BY <3>1, <3>3, Encerramento
  <2>10. ASSUME NEW e \in Envios, Morrer(e) PROVE IInvArquivos'
    <3>1. /\ envio[e].pc # "novo" /\ envio' = [envio EXCEPT ![e].pc = "falhou"]
          /\ UNCHANGED <<objetos, anexos, retrato, textos, despachados, remocao, extracao, juntos, incerto>>
      BY <2>10 DEF Morrer
    <3>2. retrato' \in [Donos -> Envios \cup {SemArquivo}]
      BY <2>1, <3>1 DEF TipoArquivos
    <3> QED
      BY <3>1, <3>2, Encerramento
  <2>11. ASSUME NEW r \in Remocoes, Remover(r) \/ \E e \in Envios : EscolherRemocao(r, e) PROVE IInvArquivos'
    BY <2>11, RemoverPasso, EscolherPasso
  <2>12. ASSUME NEW x \in Extracoes, ApagarTextos(x) \/ GravarTexto(x) \/ \E e \in Envios : Extrair(x, e)
         PROVE  IInvArquivos'
    BY <2>12, ExtracaoPasso
  <2>13. CASE UNCHANGED arqVars
    <3>1. TipoArquivos' /\ EnvioOK' /\ RemocaoOK' /\ ExtracaoOK'
      BY <2>13 DEF arqVars, IInvArquivos, TipoArquivos, EnvioOK, RemocaoOK, ExtracaoOK
    <3>2. FotosOK' /\ RetratoVivo' /\ ObjetoGuardado' /\ TextoDoDespachado'
      BY <2>13 DEF arqVars, IInvArquivos, FotosOK, RetratoVivo, ObjetoGuardado, TextoDoDespachado,
         Vivos, DonoDe, EmCurso
    <3> QED
      BY <3>1, <3>2 DEF IInvArquivos
  <2> QED
    BY <2>2, <2>3, <2>4, <2>5, <2>6, <2>7, <2>8, <2>9, <2>10, <2>11, <2>12, <2>13 DEF NextArquivos
<1>3. IInvArquivos => ArquivoConfere
  BY UmaSo DEF IInvArquivos, ArquivoConfere
<1> QED
  BY <1>1, <1>2, <1>3, PTL DEF SpecArquivos

(***************************************************************************)
(* The tree of territories: what is above a territory, for any parents.    *)
(***************************************************************************)
Pais == [Territorios -> Territorios \cup {SemPai}]

\* What is above t is the least closed set.
LEMMA AcimaFechada ==
    ASSUME NEW pais \in Pais, NEW t \in Territorios
    PROVE  FechadoAcima(pais, AcimaEm(pais, t), t) /\ AcimaEm(pais, t) \in SUBSET Territorios
<1>1. AcimaEm(pais, t) \in SUBSET Territorios  BY DEF AcimaEm, Pais
<1>2. pais[t] \in AcimaEm(pais, t) \cup {SemPai}
  BY DEF AcimaEm, FechadoAcima, Pais
<1>3. ASSUME NEW x \in AcimaEm(pais, t) PROVE pais[x] \in AcimaEm(pais, t) \cup {SemPai}
  <2>1. x \in Territorios  BY <1>1
  <2> QED  BY <2>1 DEF AcimaEm, FechadoAcima, Pais
<1> QED  BY <1>1, <1>2, <1>3 DEF FechadoAcima

LEMMA AcimaMenor ==
    ASSUME NEW pais \in Pais, NEW t \in Territorios, NEW S \in SUBSET Territorios,
           FechadoAcima(pais, S, t)
    PROVE  AcimaEm(pais, t) \subseteq S
<1> DEFINE T == S \cap ({pais[x] : x \in Territorios} \ {SemPai})
<1>1. FechadoAcima(pais, T, t)  BY DEF FechadoAcima
<1> QED  BY <1>1 DEF AcimaEm

LEMMA AcimaDesce ==
    ASSUME NEW pais \in Pais, NEW t \in Territorios, NEW x \in AcimaEm(pais, t)
    PROVE  AcimaEm(pais, x) \subseteq AcimaEm(pais, t)
<1>1. FechadoAcima(pais, AcimaEm(pais, t), t) /\ AcimaEm(pais, t) \in SUBSET Territorios
  BY AcimaFechada
<1>2. FechadoAcima(pais, AcimaEm(pais, t), x)  BY <1>1 DEF FechadoAcima
<1> QED  BY <1>1, <1>2, AcimaMenor

\* The parent, and what is above it.
LEMMA AcimaPai ==
    ASSUME NEW pais \in Pais, NEW t \in Territorios
    PROVE  IF pais[t] = SemPai THEN AcimaEm(pais, t) = {}
           ELSE AcimaEm(pais, t) = {pais[t]} \cup AcimaEm(pais, pais[t])
<1>1. CASE pais[t] = SemPai
  <2>1. FechadoAcima(pais, {}, t)  BY <1>1 DEF FechadoAcima
  <2> QED  BY <1>1, <2>1, AcimaMenor
<1>2. CASE pais[t] # SemPai
  <2>1. pais[t] \in Territorios  BY <1>2 DEF Pais
  <2>2. /\ FechadoAcima(pais, AcimaEm(pais, t), t)
        /\ FechadoAcima(pais, AcimaEm(pais, pais[t]), pais[t])
        /\ AcimaEm(pais, pais[t]) \in SUBSET Territorios
    BY <2>1, AcimaFechada
  <2>3. pais[t] \in AcimaEm(pais, t)  BY <1>2, <2>2 DEF FechadoAcima
  <2>4. AcimaEm(pais, pais[t]) \subseteq AcimaEm(pais, t)  BY <2>3, AcimaDesce
  <2>5. FechadoAcima(pais, {pais[t]} \cup AcimaEm(pais, pais[t]), t)
    BY <2>2 DEF FechadoAcima
  <2>6. AcimaEm(pais, t) \subseteq {pais[t]} \cup AcimaEm(pais, pais[t])
    BY <2>1, <2>2, <2>5, AcimaMenor
  <2> QED  BY <1>2, <2>3, <2>4, <2>6
<1> QED  BY <1>1, <1>2

\* Everything above a territory that is in a cycle is in that cycle.
LEMMA CicloInteiro ==
    ASSUME NEW pais \in Pais, NEW t \in Territorios, t \in AcimaEm(pais, t),
           NEW c \in AcimaEm(pais, t)
    PROVE  c \in AcimaEm(pais, c)
<1> DEFINE S == {x \in AcimaEm(pais, t) : x = t \/ t \in AcimaEm(pais, x)}
<1>1. FechadoAcima(pais, AcimaEm(pais, t), t) /\ AcimaEm(pais, t) \in SUBSET Territorios
  BY AcimaFechada
<1>2. ASSUME NEW x \in AcimaEm(pais, t), t \in AcimaEm(pais, x)
      PROVE  pais[x] \in S
  <2>1. x \in Territorios  BY <1>1
  <2>2. pais[x] # SemPai /\ AcimaEm(pais, x) = {pais[x]} \cup AcimaEm(pais, pais[x])
    BY <1>2, <2>1, AcimaPai
  <2>3. pais[x] \in AcimaEm(pais, t)  BY <1>1, <2>2 DEF FechadoAcima
  <2> QED  BY <1>2, <2>2, <2>3
<1>3. FechadoAcima(pais, S, t)  BY <1>2 DEF FechadoAcima
<1>4. c \in S  BY <1>1, <1>3, AcimaMenor
<1>5. CASE c = t  BY <1>5
<1>6. CASE t \in AcimaEm(pais, c)
  <2>1. c \in Territorios  BY <1>1
  <2> QED  BY <1>6, <2>1, AcimaDesce
<1> QED  BY <1>4, <1>5, <1>6

\* What is above x where the parents are the same.
LEMMA AcimaIgual ==
    ASSUME NEW pais \in Pais, NEW novos \in Pais, NEW x \in Territorios,
           novos[x] = pais[x],
           \A y \in AcimaEm(novos, x) : novos[y] = pais[y]
    PROVE  AcimaEm(novos, x) = AcimaEm(pais, x)
<1>1. /\ FechadoAcima(novos, AcimaEm(novos, x), x) /\ AcimaEm(novos, x) \in SUBSET Territorios
      /\ FechadoAcima(pais, AcimaEm(pais, x), x) /\ AcimaEm(pais, x) \in SUBSET Territorios
  BY AcimaFechada
<1>2. AcimaEm(pais, x) \subseteq AcimaEm(novos, x)
  <2>1. FechadoAcima(pais, AcimaEm(novos, x), x)  BY <1>1 DEF FechadoAcima
  <2> QED  BY <1>1, <2>1, AcimaMenor
<1>3. AcimaEm(novos, x) \subseteq AcimaEm(pais, x)
  <2>1. FechadoAcima(novos, AcimaEm(pais, x), x)  BY <1>1, <1>2 DEF FechadoAcima
  <2> QED  BY <1>1, <2>1, AcimaMenor
<1> QED  BY <1>2, <1>3

SemCicloEm(pais) == \A x \in Territorios : x \notin AcimaEm(pais, x)

\* A move that the query let through.
LEMMA MoverSemCiclo ==
    ASSUME NEW pais \in Pais, SemCicloEm(pais), NEW t \in Territorios,
           NEW novo \in Territorios \cup {SemPai},
           novo # SemPai => novo # t /\ t \notin AcimaEm(pais, novo),
           NEW novos \in Pais, novos[t] = novo, \A x \in Territorios \ {t} : novos[x] = pais[x]
    PROVE  SemCicloEm(novos)
<1> SUFFICES ASSUME NEW x \in Territorios, x \in AcimaEm(novos, x) PROVE FALSE
  BY DEF SemCicloEm
<1>1. \A y \in Territorios : /\ FechadoAcima(pais, AcimaEm(pais, y), y)
                             /\ AcimaEm(pais, y) \in SUBSET Territorios
  BY AcimaFechada
<1>2. x \notin AcimaEm(pais, x)  BY DEF SemCicloEm
<1>3. CASE novo = SemPai \/ t \notin {x} \cup AcimaEm(pais, x)
  <2>1. FechadoAcima(novos, AcimaEm(pais, x), x)
    BY <1>1, <1>3 DEF FechadoAcima
  <2> QED  BY <1>1, <1>2, <2>1, AcimaMenor
<1>4. CASE novo # SemPai /\ t \in {x} \cup AcimaEm(pais, x)
  <2> DEFINE S == AcimaEm(pais, x) \cup {novo} \cup AcimaEm(pais, novo)
  <2>1. novo \in Territorios  BY <1>4
  <2>2. S \in SUBSET Territorios  BY <1>1, <2>1
  <2>3. FechadoAcima(novos, S, x)
    <3>1. \A y \in Territorios : y = t => novos[y] \in S  OBVIOUS
    <3>2. novos[x] \in S \cup {SemPai}
      BY <1>1, <3>1 DEF FechadoAcima
    <3>3. ASSUME NEW y \in S PROVE novos[y] \in S \cup {SemPai}
      BY <1>1, <2>1, <2>2, <3>1 DEF FechadoAcima
    <3> QED  BY <3>2, <3>3 DEF FechadoAcima
  <2>4. x \in S  BY <2>2, <2>3, AcimaMenor
  <2>5. x = novo \/ x \in AcimaEm(pais, novo)  BY <1>2, <2>4
  <2>6. CASE x = novo  BY <1>4, <2>6
  <2>7. CASE x \in AcimaEm(pais, novo)
    <3>1. AcimaEm(pais, x) \subseteq AcimaEm(pais, novo)  BY <2>1, <2>7, AcimaDesce
    <3> QED  BY <1>4, <2>7, <3>1
  <2> QED  BY <2>5, <2>6, <2>7
<1> QED  BY <1>3, <1>4

\* Moves of many, none of which is in a cycle afterwards.
LEMMA MoverVariosSemCiclo ==
    ASSUME NEW pais \in Pais, SemCicloEm(pais), NEW novos \in Pais, NEW C \in SUBSET Territorios,
           \A x \in Territorios \ C : novos[x] = pais[x],
           \A c \in C : c \notin AcimaEm(novos, c)
    PROVE  SemCicloEm(novos)
<1> SUFFICES ASSUME NEW x \in Territorios, x \in AcimaEm(novos, x) PROVE FALSE
  BY DEF SemCicloEm
<1>1. AcimaEm(novos, x) \in SUBSET Territorios  BY AcimaFechada
<1>2. \A c \in AcimaEm(novos, x) : c \in AcimaEm(novos, c)  BY CicloInteiro
<1>3. AcimaEm(novos, x) \cap C = {}  BY <1>2
<1>4. \A y \in AcimaEm(novos, x) : novos[y] = pais[y]  BY <1>1, <1>3
<1>5. AcimaEm(novos, x) = AcimaEm(pais, x)  BY <1>4, AcimaIgual
<1> QED  BY <1>5 DEF SemCicloEm

(***************************************************************************)
(* The handlers of the tree.                                               *)
(***************************************************************************)
Mudanca == [passo : {"livre", "trocar", "presa", "previa", "erro"},
            op : {"nada", "mover", "organizar"}, escopo : Territorios \cup {SemPai},
            lote : SUBSET (Territorios \X (Territorios \cup {SemPai})),
            espera : Territorios \cup {SemPai}, fresca : {"sim", "nao"}]
TipoTerritorio ==
    /\ territorio \in [Territorios -> {"livre", "ativo", "inativo"}]
    /\ pai \in Pais
    /\ mudanca \in [Mudancas -> Mudanca]
PaisCadastrados == \A t \in Territorios : pai[t] \in Cadastrados \cup {SemPai}

\* What a handler replaces is there, and a move is of one territory.
PedidoOK(a) ==
    /\ \A par \in a.lote : par[1] \in Cadastrados /\ par[2] \in Cadastrados \cup {SemPai}
    /\ a.passo = "trocar" => a.op # "nada"
    /\ a.passo = "previa" => a.op = "organizar"
    /\ a.op = "mover" => \A x, y \in a.lote : x = y
\* What it checked holds, unless something was committed since.
ChecagemOK(a) ==
    a.passo = "trocar" /\ a.fresca = "sim" =>
        /\ a.op = "mover" =>
              \A par \in a.lote : par[2] = SemPai \/ ~CriariaCiclo(par[1], par[2])
        /\ a.op = "organizar" => a.lote = Alteracoes(a.escopo)
MudancasOK == \A r \in Mudancas : PedidoOK(mudanca[r]) /\ ChecagemOK(mudanca[r])

IInvTerritorio == TipoTerritorio /\ PaisCadastrados /\ MudancasOK /\ CicloSoSemConferir

LEMMA MudancaLivreOK ==
    MudancaLivre \in Mudanca /\ PedidoOK(MudancaLivre) /\ ChecagemOK(MudancaLivre)
  BY DEF MudancaLivre, Mudanca, PedidoOK, ChecagemOK

\* A handler's record, and what it says of a tree that stays as it is.
Mesma(a, b) ==
    /\ a.passo = b.passo /\ a.op = b.op /\ a.escopo = b.escopo /\ a.lote = b.lote
    /\ a.fresca = b.fresca
LEMMA ArvoreIgual ==
    ASSUME UNCHANGED <<territorio, pai>>, NEW a, NEW b, Mesma(b, a), PedidoOK(a), ChecagemOK(a)
    PROVE  PedidoOK(b)' /\ ChecagemOK(b)'
<1>1. Cadastrados' = Cadastrados /\ \A e : Alteracoes(e)' = Alteracoes(e)
  BY DEF Cadastrados, Alteracoes, Mostrados, Acessiveis, MunicipiosDe, Acima
<1>2. \A x, y : CriariaCiclo(x, y)' <=> CriariaCiclo(x, y)  BY DEF CriariaCiclo, Acima
<1> QED  BY <1>1, <1>2 DEF PedidoOK, ChecagemOK, Mesma

\* Nothing of the tree changes; every handler but r is as it was.
LEMMA SoUmaMudanca ==
    ASSUME IInvTerritorio, UNCHANGED <<territorio, pai, cruzadas, fechou>>,
           NEW r \in Mudancas, NEW x \in Mudanca, PedidoOK(x), ChecagemOK(x),
           NEW f \in [Mudancas -> Mudanca], mudanca' = [f EXCEPT ![r] = x],
           \A q \in Mudancas : Mesma(f[q], mudanca[q])
    PROVE  IInvTerritorio'
<1>1. mudanca' \in [Mudancas -> Mudanca]  OBVIOUS
<1>2. TipoTerritorio' /\ PaisCadastrados'
  BY <1>1 DEF IInvTerritorio, TipoTerritorio, PaisCadastrados, Cadastrados
<1>3. CicloSoSemConferir'
  BY DEF IInvTerritorio, CicloSoSemConferir, EmCiclo, Acima
<1>4. ASSUME NEW q \in Mudancas PROVE PedidoOK(mudanca[q])' /\ ChecagemOK(mudanca[q])'
  <2>1. PICK a, b : a = mudanca[q] /\ b = mudanca'[q]  OBVIOUS
  <2>2. PedidoOK(a) /\ ChecagemOK(a)  BY <2>1 DEF IInvTerritorio, MudancasOK
  <2>3. CASE q = r
    <3>1. b = x /\ Mesma(b, x)  BY <2>1, <2>3 DEF Mesma
    <3> QED  BY <2>1, <3>1, ArvoreIgual
  <2>4. CASE q # r
    <3>1. Mesma(b, a)  BY <2>1, <2>4
    <3> QED  BY <2>1, <2>2, <3>1, ArvoreIgual
  <2> QED  BY <2>3, <2>4
<1> QED  BY <1>2, <1>3, <1>4 DEF IInvTerritorio, MudancasOK

\* A commit: what the others checked is old.
Velha(b, a) ==
    \/ b = MudancaLivre
    \/ /\ b.passo = "trocar" => b.fresca = "nao"
       /\ b.passo = a.passo \/ b.passo = "erro"
       /\ b.op = a.op /\ b.lote \subseteq a.lote
LEMMA VelhasOK ==
    ASSUME MudancasOK, Cadastrados \subseteq Cadastrados',
           \A q \in Mudancas : Velha(mudanca'[q], mudanca[q])
    PROVE  MudancasOK'
<1> SUFFICES ASSUME NEW q \in Mudancas PROVE PedidoOK(mudanca[q])' /\ ChecagemOK(mudanca[q])'
  BY DEF MudancasOK
<1>1. PICK a, b : a = mudanca[q] /\ b = mudanca'[q]  OBVIOUS
<1>2. Velha(b, a) /\ PedidoOK(a)  BY <1>1 DEF MudancasOK
<1>3. PedidoOK(b)' /\ ChecagemOK(b)'
  <2>1. CASE b = MudancaLivre  BY <2>1 DEF MudancaLivre, PedidoOK, ChecagemOK
  <2>2. CASE b # MudancaLivre  BY <1>2, <2>2 DEF Velha, PedidoOK, ChecagemOK
  <2> QED  BY <2>1, <2>2
<1> QED  BY <1>1, <1>3

LEMMA EnvelhecidasVelhas ==
    ASSUME NEW f \in [Mudancas -> Mudanca], NEW q \in Mudancas
    PROVE  Envelhecidas(f)[q] \in Mudanca /\ Velha(Envelhecidas(f)[q], f[q])
<1>1. f[q] \in Mudanca  OBVIOUS
<1>2. CASE f[q].passo = "trocar"
  <2>1. Envelhecidas(f)[q] = [f[q] EXCEPT !.fresca = "nao"]  BY <1>2 DEF Envelhecidas
  <2> QED  BY <1>1, <2>1 DEF Mudanca, Velha
<1>3. CASE f[q].passo # "trocar"
  <2>1. Envelhecidas(f)[q] = f[q]  BY <1>3 DEF Envelhecidas
  <2> QED  BY <1>1, <1>3, <2>1 DEF Velha
<1> QED  BY <1>2, <1>3

LEMMA AcessiveisCadastrados ==
    ASSUME NEW escopo \in Escopos
    PROVE  Acessiveis(escopo) \subseteq Cadastrados /\ Cadastrados \subseteq Territorios
  BY DEF Acessiveis, Escopos, Cadastrados

LEMMA CriarTerritorioSegue ==
    ASSUME IInvTerritorio, NEW t \in Territorios, NEW novo \in Escopos, NEW escopo \in Escopos,
           CriarTerritorio(t, novo, escopo)
    PROVE  IInvTerritorio'
<1> USE DEF IInvTerritorio
<1>1. /\ territorio[t] = "livre"
      /\ novo # SemPai => novo \in Acessiveis(escopo)
      /\ territorio' = [territorio EXCEPT ![t] = "ativo"]
      /\ pai' = [pai EXCEPT ![t] = novo]
      /\ mudanca' = Envelhecidas(mudanca)
      /\ UNCHANGED <<cruzadas, fechou>>
  BY DEF CriarTerritorio
<1>2. t \notin Cadastrados /\ Cadastrados \in SUBSET Territorios  BY <1>1 DEF Cadastrados
<1>3. novo \in Cadastrados \cup {SemPai}  BY DEF Escopos
<1>4. Cadastrados \subseteq Cadastrados'  BY <1>1 DEF Cadastrados, TipoTerritorio
<1>5. TipoTerritorio' /\ PaisCadastrados'
  <2>1. pai' \in Pais  BY <1>1, <1>2, <1>3 DEF TipoTerritorio, Pais
  <2>2. mudanca' \in [Mudancas -> Mudanca]
    BY <1>1, EnvelhecidasVelhas DEF TipoTerritorio, Envelhecidas
  <2>3. TipoTerritorio'  BY <1>1, <2>1, <2>2 DEF TipoTerritorio
  <2>4. PaisCadastrados'
    BY <1>1, <1>3, <1>4 DEF PaisCadastrados, TipoTerritorio, Pais
  <2> QED  BY <2>3, <2>4
<1>6. MudancasOK'
  BY <1>1, <1>4, VelhasOK, EnvelhecidasVelhas DEF TipoTerritorio
<1>7. CicloSoSemConferir'
  <2> SUFFICES ASSUME ~(cruzadas = "sim" \/ fechou = "sim") PROVE SemCicloEm(pai')
    BY <1>1 DEF CicloSoSemConferir, EmCiclo, Acima, SemCicloEm
  <2>1. SemCicloEm(pai)  BY DEF CicloSoSemConferir, EmCiclo, Acima, SemCicloEm
  <2>2. novo # SemPai => novo # t /\ t \notin AcimaEm(pai, novo)
    <3>1. novo # SemPai => FechadoAcima(pai, Cadastrados, novo)
      BY <1>2, <1>3 DEF PaisCadastrados, FechadoAcima
    <3>2. pai \in Pais /\ Cadastrados \in SUBSET Territorios /\ (novo # SemPai => novo \in Territorios)
      BY <1>2, <1>3 DEF TipoTerritorio, Cadastrados
    <3> QED  BY <1>2, <1>3, <3>1, <3>2, AcimaMenor
  <2>3. pai' \in Pais /\ pai'[t] = novo /\ \A x \in Territorios \ {t} : pai'[x] = pai[x]
    BY <1>1, <1>5 DEF TipoTerritorio, Pais
  <2>4. novo \in Territorios \cup {SemPai} /\ pai \in Pais  BY <1>2, <1>3 DEF TipoTerritorio
  <2> QED  BY <2>1, <2>2, <2>3, <2>4, MoverSemCiclo
<1> QED  BY <1>5, <1>6, <1>7

LEMMA AtivarTerritorioSegue ==
    ASSUME IInvTerritorio, NEW escopo \in Escopos, AtivarTerritorio(escopo)
    PROVE  IInvTerritorio'
<1> USE DEF IInvTerritorio
<1>1. PICK t \in Acessiveis(escopo) :
        /\ territorio' = [territorio EXCEPT ![t] = IF @ = "ativo" THEN "inativo" ELSE "ativo"]
        /\ mudanca' = Envelhecidas(mudanca)
        /\ UNCHANGED <<pai, trocaDe, cruzadas, fechou>>
  BY DEF AtivarTerritorio
<1>2. t \in Territorios /\ territorio[t] # "livre"
  BY AcessiveisCadastrados DEF Cadastrados
<1>3. Cadastrados' = Cadastrados  BY <1>1, <1>2 DEF Cadastrados, TipoTerritorio
<1>4. TipoTerritorio'
  BY <1>1, <1>2, EnvelhecidasVelhas DEF TipoTerritorio, Envelhecidas
<1>5. PaisCadastrados'  BY <1>1, <1>3 DEF PaisCadastrados
<1>6. MudancasOK'
  BY <1>1, <1>3, VelhasOK, EnvelhecidasVelhas DEF TipoTerritorio
<1>7. CicloSoSemConferir'  BY <1>1 DEF CicloSoSemConferir, EmCiclo, Acima
<1> QED  BY <1>4, <1>5, <1>6, <1>7

LEMMA PaisDepoisTipo ==
    ASSUME TipoTerritorio, PaisCadastrados,
           NEW lote \in SUBSET (Territorios \X (Territorios \cup {SemPai})),
           \A par \in lote : par[1] \in Cadastrados /\ par[2] \in Cadastrados \cup {SemPai}
    PROVE  /\ PaisDepois(lote) \in Pais
           /\ \A t \in Territorios : PaisDepois(lote)[t] \in Cadastrados \cup {SemPai}
           /\ \A t \in Territorios : (\A par \in lote : par[1] # t) => PaisDepois(lote)[t] = pai[t]
<1>1. ASSUME NEW t \in Territorios
      PROVE  /\ PaisDepois(lote)[t] \in Cadastrados \cup {SemPai}
             /\ (\A par \in lote : par[1] # t) => PaisDepois(lote)[t] = pai[t]
  <2>1. CASE \E par \in lote : par[1] = t
    <3>1. PICK x : x = CHOOSE par \in lote : par[1] = t  OBVIOUS
    <3>2. x \in lote  BY <2>1, <3>1
    <3>3. PaisDepois(lote)[t] = x[2]  BY <2>1, <3>1 DEF PaisDepois
    <3> QED  BY <2>1, <3>2, <3>3
  <2>2. CASE ~ \E par \in lote : par[1] = t
    <3>1. PaisDepois(lote)[t] = pai[t]  BY <2>2 DEF PaisDepois
    <3> QED  BY <2>2, <3>1 DEF PaisCadastrados
  <2> QED  BY <2>1, <2>2
<1>2. Cadastrados \subseteq Territorios  BY DEF Cadastrados
<1>3. PaisDepois(lote) \in Pais  BY <1>1, <1>2 DEF Pais, PaisDepois
<1> QED  BY <1>1, <1>3

LEMMA AoConfirmarVelha ==
    ASSUME TipoTerritorio, NEW q \in Mudancas, NEW r \in Mudancas, NEW novos
    PROVE  AoConfirmar(q, r, novos) \in Mudanca /\ Velha(AoConfirmar(q, r, novos), mudanca[q])
<1>1. PICK a, c, par : /\ a = mudanca[q] /\ c = mudanca[q].espera
                       /\ par = CHOOSE x \in mudanca[q].lote : x[1] = c
  OBVIOUS
<1>2. a \in Mudanca  BY <1>1 DEF TipoTerritorio
<1>3. CASE q = r \/ c = SemPai \/ trocaDe[c] # r
  <2>1. AoConfirmar(q, r, novos) = Envelhecidas(mudanca)[q]  BY <1>1, <1>3 DEF AoConfirmar
  <2> QED  BY <2>1, EnvelhecidasVelhas DEF TipoTerritorio
<1>4. CASE ~(q = r \/ c = SemPai \/ trocaDe[c] # r)
  <2>1. PICK lote, passo :
          /\ lote = (IF par[2] = SemPai THEN a.lote \ {par} ELSE a.lote)
          /\ passo = (IF par[2] # SemPai /\ novos[c] # SemPai THEN "erro" ELSE a.passo)
    OBVIOUS
  <2>2. AoConfirmar(q, r, novos) = [a EXCEPT !.espera = SemPai, !.fresca = "nao",
                                             !.lote = lote, !.passo = passo]
    BY <1>1, <1>2, <1>4, <2>1 DEF AoConfirmar, Mudanca
  <2>3. /\ lote \subseteq a.lote /\ passo \in {a.passo, "erro"}
        /\ lote \in SUBSET (Territorios \X (Territorios \cup {SemPai}))
    BY <1>2, <2>1 DEF Mudanca
  <2> QED  BY <1>1, <1>2, <2>2, <2>3 DEF Mudanca, Velha
<1> QED  BY <1>3, <1>4

LEMMA ConfirmarMudancaSegue ==
    ASSUME IInvTerritorio, NEW r \in Mudancas, ConfirmarMudanca(r)
    PROVE  IInvTerritorio'
<1> USE DEF IInvTerritorio
<1>1. PICK lote, novos : lote = mudanca[r].lote /\ novos = PaisDepois(lote)  OBVIOUS
<1>2. /\ mudanca[r].passo = "trocar"
      /\ pai' = novos
      /\ mudanca' = [[q \in Mudancas |-> AoConfirmar(q, r, novos)] EXCEPT ![r] = MudancaLivre]
      /\ cruzadas' = IF mudanca[r].fresca = "nao" THEN "sim" ELSE cruzadas
      /\ fechou' = IF mudanca[r].op = "organizar" /\ \E par \in lote : par[1] \in AcimaEm(novos, par[1])
                     THEN "sim" ELSE fechou
      /\ territorio' = territorio
  BY <1>1 DEF ConfirmarMudanca, PaisDepois
<1>3. mudanca[r] \in Mudanca /\ PedidoOK(mudanca[r]) /\ ChecagemOK(mudanca[r])
  BY DEF TipoTerritorio, MudancasOK
<1>4. /\ lote \in SUBSET (Territorios \X (Territorios \cup {SemPai}))
      /\ \A par \in lote : par[1] \in Cadastrados /\ par[2] \in Cadastrados \cup {SemPai}
  BY <1>1, <1>3 DEF Mudanca, PedidoOK
<1>5. /\ novos \in Pais
      /\ \A t \in Territorios : novos[t] \in Cadastrados \cup {SemPai}
      /\ \A t \in Territorios : (\A par \in lote : par[1] # t) => novos[t] = pai[t]
  BY <1>1, <1>4, PaisDepoisTipo
<1>6. Cadastrados' = Cadastrados  BY <1>2 DEF Cadastrados
<1>7. \A q \in Mudancas : mudanca'[q] \in Mudanca /\ Velha(mudanca'[q], mudanca[q])
  BY <1>2, AoConfirmarVelha, MudancaLivreOK DEF Velha
<1>8. TipoTerritorio'  BY <1>2, <1>5, <1>7 DEF TipoTerritorio
<1>9. PaisCadastrados'  BY <1>2, <1>5, <1>6 DEF PaisCadastrados
<1>10. MudancasOK'  BY <1>6, <1>7, VelhasOK
<1>11. CicloSoSemConferir'
  <2> SUFFICES ASSUME ~(cruzadas' = "sim" \/ fechou' = "sim") PROVE SemCicloEm(novos)
    BY <1>2 DEF CicloSoSemConferir, EmCiclo, Acima, SemCicloEm
  <2>1. /\ mudanca[r].fresca = "sim" /\ cruzadas # "sim" /\ fechou # "sim"
        /\ mudanca[r].op = "organizar" => \A par \in lote : par[1] \notin AcimaEm(novos, par[1])
    BY <1>2, <1>3 DEF Mudanca
  <2>2. SemCicloEm(pai) /\ pai \in Pais
    BY <2>1 DEF CicloSoSemConferir, EmCiclo, Acima, SemCicloEm, TipoTerritorio
  <2>3. CASE mudanca[r].op = "organizar"
    <3> DEFINE C == {par[1] : par \in lote}
    <3>1. C \in SUBSET Territorios /\ \A c \in C : c \notin AcimaEm(novos, c)
      BY <1>4, <2>1, <2>3
    <3>2. \A x \in Territorios \ C : novos[x] = pai[x]  BY <1>5
    <3> HIDE DEF C
    <3> QED  BY <1>5, <2>2, <3>1, <3>2, MoverVariosSemCiclo
  <2>4. CASE mudanca[r].op = "mover" /\ lote = {}
    <3>1. \A x \in Territorios : novos[x] = pai[x]  BY <1>5, <2>4
    <3>2. novos = pai  BY <1>5, <2>2, <3>1 DEF Pais
    <3> QED  BY <2>2, <3>2
  <2>5. CASE mudanca[r].op = "mover" /\ lote # {}
    <3>1. PICK par \in lote : TRUE  BY <2>5
    <3>2. PICK t, novo : t = par[1] /\ novo = par[2]  OBVIOUS
    <3>3. \A x \in lote : x = par  BY <1>1, <1>3, <2>5 DEF PedidoOK
    <3>4. t \in Territorios /\ novo \in Territorios \cup {SemPai}  BY <1>4, <3>2
    <3>5. novo = SemPai \/ ~CriariaCiclo(t, novo)
      BY <1>1, <1>2, <1>3, <2>1, <2>5, <3>2 DEF ChecagemOK
    <3>6. novo # SemPai => novo # t /\ t \notin AcimaEm(pai, novo)
      BY <3>5 DEF CriariaCiclo, Acima
    <3>7. novos[t] = novo
      <4>1. PICK x : x = CHOOSE y \in lote : y[1] = t  OBVIOUS
      <4>2. x \in lote  BY <3>2, <4>1
      <4>3. novos[t] = x[2]  BY <1>1, <3>2, <3>4, <4>1 DEF PaisDepois
      <4> QED  BY <3>2, <3>3, <4>2, <4>3
    <3>8. \A x \in Territorios \ {t} : novos[x] = pai[x]  BY <1>5, <3>2, <3>3
    <3> QED  BY <1>5, <2>2, <3>4, <3>6, <3>7, <3>8, MoverSemCiclo
  <2> QED  BY <1>2, <1>3, <2>3, <2>4, <2>5 DEF PedidoOK, Mudanca
<1> QED  BY <1>8, <1>9, <1>10, <1>11

Pedida(op, passo, escopo, lote) ==
    [MudancaLivre EXCEPT !.passo = passo, !.op = op, !.escopo = escopo, !.lote = lote]
LEMMA ComecarSegue ==
    ASSUME IInvTerritorio, UNCHANGED <<territorio, pai, cruzadas, fechou>>,
           NEW r \in Mudancas, NEW op \in {"mover", "organizar"},
           NEW passo \in {"trocar", "presa", "previa"}, NEW escopo \in Territorios \cup {SemPai},
           NEW lote \in SUBSET (Territorios \X (Territorios \cup {SemPai})),
           mudanca' = [mudanca EXCEPT ![r] = Pedida(op, passo, escopo, lote)],
           \A par \in lote : par[1] \in Cadastrados /\ par[2] \in Cadastrados \cup {SemPai},
           passo = "previa" => op = "organizar",
           op = "mover" => \A x, y \in lote : x = y,
           passo = "trocar" =>
              op = "mover" /\ \A par \in lote : par[2] = SemPai \/ ~CriariaCiclo(par[1], par[2])
    PROVE  IInvTerritorio'
<1> DEFINE x == Pedida(op, passo, escopo, lote)
<1>1. x.passo = passo /\ x.op = op /\ x.escopo = escopo /\ x.lote = lote
  BY MudancaLivreOK DEF Pedida, Mudanca
<1>2. x \in Mudanca  BY MudancaLivreOK DEF Pedida, Mudanca
<1>3. PedidoOK(x)  BY <1>1 DEF PedidoOK
<1>4. ChecagemOK(x)  BY <1>1 DEF ChecagemOK
<1>5. mudanca' = [mudanca EXCEPT ![r] = x]  OBVIOUS
<1> HIDE DEF x
<1>6. \A q \in Mudancas : Mesma(mudanca[q], mudanca[q])  BY DEF Mesma
<1>7. mudanca \in [Mudancas -> Mudanca]  BY DEF IInvTerritorio, TipoTerritorio
<1> QED  BY <1>2, <1>3, <1>4, <1>5, <1>6, <1>7, SoUmaMudanca

LEMMA LerMudancaSegue ==
    ASSUME IInvTerritorio, NEW r \in Mudancas, NEW escopo \in Escopos, LerMudanca(r, escopo)
    PROVE  IInvTerritorio'
<1>1. PICK t \in Acessiveis(escopo), novo \in Acessiveis(escopo) \cup {SemPai} :
        /\ IF novo = SemPai THEN TRUE ELSE ~CriariaCiclo(t, novo)
        /\ mudanca' = [mudanca EXCEPT ![r] = Pedida("mover", "trocar", escopo, {<<t, novo>>})]
        /\ UNCHANGED <<territorio, pai, trocaDe, cruzadas, fechou>>
  BY DEF LerMudanca, Comecar, Pedida
<1>2. t \in Cadastrados /\ novo \in Cadastrados \cup {SemPai} /\ Cadastrados \subseteq Territorios
  BY AcessiveisCadastrados
<1>3. escopo \in Territorios \cup {SemPai}  BY <1>2 DEF Escopos
<1>4. PICK lote : lote = {<<t, novo>>}  OBVIOUS
<1>5. /\ lote \in SUBSET (Territorios \X (Territorios \cup {SemPai}))
      /\ \A par \in lote : par[1] \in Cadastrados /\ par[2] \in Cadastrados \cup {SemPai}
      /\ \A x, y \in lote : x = y
      /\ \A par \in lote : par[2] = SemPai \/ ~CriariaCiclo(par[1], par[2])
  BY <1>1, <1>2, <1>4
<1> QED  BY <1>1, <1>3, <1>4, <1>5, ComecarSegue

LEMMA PrenderSegue ==
    ASSUME IInvTerritorio, NEW r \in Mudancas, NEW t \in Cadastrados, Prender(r, t)
    PROVE  IInvTerritorio'
<1>1. /\ mudanca' = [mudanca EXCEPT ![r] = Pedida("mover", "presa", t, {})]
      /\ UNCHANGED <<territorio, pai, cruzadas, fechou>>
  BY DEF Prender, Comecar, Pedida
<1>2. t \in Territorios  BY DEF Cadastrados
<1>3. PICK lote, passo : lote = {} /\ passo = "presa"  OBVIOUS
<1>4. /\ lote \in SUBSET (Territorios \X (Territorios \cup {SemPai}))
      /\ \A par \in lote : FALSE
  BY <1>3
<1>5. passo \in {"trocar", "presa", "previa"} /\ passo # "previa" /\ passo # "trocar"
  BY <1>3
<1> QED  BY <1>1, <1>2, <1>3, <1>4, <1>5, ComecarSegue

LEMMA AlteracoesTipo ==
    ASSUME NEW escopo \in Escopos
    PROVE  \A par \in Alteracoes(escopo) : par[1] \in Cadastrados /\ par[2] \in Cadastrados
  BY TiposTerritorio, AcessiveisCadastrados DEF Alteracoes, MunicipiosDe, Mostrados

LEMMA PreverOrganizacaoSegue ==
    ASSUME IInvTerritorio, NEW r \in Mudancas, NEW escopo \in Escopos,
           PreverOrganizacao(r, escopo)
    PROVE  IInvTerritorio'
<1>1. PICK lote : lote = Alteracoes(escopo)  OBVIOUS
<1>2. /\ mudanca' = [mudanca EXCEPT ![r] = Pedida("organizar", "previa", escopo, lote)]
      /\ UNCHANGED <<territorio, pai, cruzadas, fechou>>
  BY <1>1 DEF PreverOrganizacao, Comecar, Pedida
<1>3. /\ \A par \in lote : par[1] \in Cadastrados /\ par[2] \in Cadastrados \cup {SemPai}
      /\ Cadastrados \subseteq Territorios
  BY <1>1, AlteracoesTipo DEF Cadastrados
<1>4. lote \in SUBSET (Territorios \X (Territorios \cup {SemPai}))
  BY <1>1, TiposTerritorio DEF Alteracoes
<1>5. escopo \in Territorios \cup {SemPai}  BY <1>3 DEF Escopos
<1> QED  BY <1>2, <1>3, <1>4, <1>5, ComecarSegue

LEMMA AplicarPreviaSegue ==
    ASSUME IInvTerritorio, NEW r \in Mudancas, AplicarPrevia(r)
    PROVE  IInvTerritorio'
<1> PICK a : a = mudanca[r]  OBVIOUS
<1>1. a \in Mudanca /\ PedidoOK(a) /\ a.passo = "previa" /\ mudanca \in [Mudancas -> Mudanca]
  BY DEF IInvTerritorio, TipoTerritorio, MudancasOK, AplicarPrevia
<1> DEFINE x == IF PreviaAtual(r) THEN [a EXCEPT !.passo = "trocar"] ELSE MudancaLivre
<1>2. mudanca' = [mudanca EXCEPT ![r] = x] /\ UNCHANGED <<territorio, pai, cruzadas, fechou>>
  BY DEF AplicarPrevia
<1>3. x \in Mudanca /\ PedidoOK(x) /\ ChecagemOK(x)
  <2>1. CASE PreviaAtual(r)
    <3>1. a.lote = Alteracoes(a.escopo) /\ a.op = "organizar"
      BY <1>1, <2>1 DEF PreviaAtual, PedidoOK
    <3>2. x = [a EXCEPT !.passo = "trocar"]  BY <2>1
    <3>3. /\ x \in Mudanca /\ x.passo = "trocar" /\ x.op = a.op /\ x.lote = a.lote
          /\ x.escopo = a.escopo
      BY <1>1, <3>2 DEF Mudanca
    <3> HIDE DEF x
    <3> QED  BY <1>1, <3>1, <3>3 DEF PedidoOK, ChecagemOK
  <2>2. CASE ~PreviaAtual(r)  BY <2>2, MudancaLivreOK
  <2> QED  BY <2>1, <2>2
<1> HIDE DEF x
<1>4. \A q \in Mudancas : Mesma(mudanca[q], mudanca[q])  BY DEF Mesma
<1> QED  BY <1>1, <1>2, <1>3, <1>4, SoUmaMudanca

LEMMA TrocarPaiSegue ==
    ASSUME IInvTerritorio, NEW r \in Mudancas, NEW par \in mudanca[r].lote, TrocarPai(r, par)
    PROVE  IInvTerritorio'
<1> PICK a : a = mudanca[r]  OBVIOUS
<1>1. /\ a \in Mudanca /\ PedidoOK(a) /\ ChecagemOK(a) /\ mudanca \in [Mudancas -> Mudanca]
      /\ UNCHANGED <<territorio, pai, cruzadas, fechou>>
  BY DEF IInvTerritorio, TipoTerritorio, MudancasOK, TrocarPai
<1>2. par[1] \in Territorios  BY <1>1 DEF Mudanca
<1>3. PICK x : x = IF mudanca' = mudanca THEN a ELSE [a EXCEPT !.espera = par[1]]  OBVIOUS
<1>4. mudanca' = [mudanca EXCEPT ![r] = x]
  BY <1>1, <1>3 DEF TrocarPai
<1>5. x \in Mudanca /\ Mesma(x, a)  BY <1>1, <1>2, <1>3 DEF Mudanca, Mesma
<1>6. PedidoOK(x) /\ ChecagemOK(x)  BY <1>1, <1>5 DEF Mesma, PedidoOK, ChecagemOK
<1>7. \A q \in Mudancas : Mesma(mudanca[q], mudanca[q])  BY DEF Mesma
<1> QED  BY <1>1, <1>4, <1>5, <1>6, <1>7, SoUmaMudanca

LEMMA DesfazerMudancaSegue ==
    ASSUME IInvTerritorio, NEW r \in Mudancas, DesfazerMudanca(r)
    PROVE  IInvTerritorio'
<1> DEFINE f == [q \in Mudancas |->
              IF mudanca[q].espera # SemPai /\ trocaDe[mudanca[q].espera] = r
                THEN [mudanca[q] EXCEPT !.espera = SemPai] ELSE mudanca[q]]
<1>1. /\ mudanca' = [f EXCEPT ![r] = MudancaLivre]
      /\ UNCHANGED <<territorio, pai, cruzadas, fechou>>
  BY DEF DesfazerMudanca
<1>2. ASSUME NEW q \in Mudancas PROVE f[q] \in Mudanca /\ Mesma(f[q], mudanca[q])
  <2>1. mudanca[q] \in Mudanca  BY DEF IInvTerritorio, TipoTerritorio
  <2> QED  BY <2>1 DEF Mudanca, Mesma
<1>3. f \in [Mudancas -> Mudanca]  BY <1>2
<1> HIDE DEF f
<1> QED  BY <1>1, <1>2, <1>3, MudancaLivreOK, SoUmaMudanca

LEMMA InicioTerritorio == InitTerritorio => IInvTerritorio
<1> SUFFICES ASSUME InitTerritorio PROVE IInvTerritorio
  OBVIOUS
<1>1. TipoTerritorio /\ PaisCadastrados
  BY MudancaLivreOK DEF InitTerritorio, TipoTerritorio, PaisCadastrados, Pais
<1>2. \A r \in Mudancas : mudanca[r] = MudancaLivre  BY DEF InitTerritorio
<1>3. MudancasOK  BY <1>2, MudancaLivreOK DEF MudancasOK
<1>4. ASSUME NEW t \in Territorios PROVE ~EmCiclo(t)
  <2>1. pai \in Pais /\ pai[t] = SemPai  BY <1>1 DEF InitTerritorio, TipoTerritorio
  <2>2. AcimaEm(pai, t) = {}  BY <2>1, AcimaPai
  <2> QED  BY <2>2 DEF EmCiclo, Acima
<1> QED  BY <1>1, <1>3, <1>4 DEF IInvTerritorio, CicloSoSemConferir

LEMMA PassoTerritorio == IInvTerritorio /\ [NextTerritorio]_varsTerritorio => IInvTerritorio'
<1> SUFFICES ASSUME IInvTerritorio, [NextTerritorio]_varsTerritorio PROVE IInvTerritorio'
  OBVIOUS
<1>1. CASE UNCHANGED varsTerritorio
  <2>1. UNCHANGED <<territorio, pai, mudanca, cruzadas, fechou>>  BY <1>1 DEF varsTerritorio
  <2>2. \A q \in Mudancas : Velha(mudanca'[q], mudanca[q]) \/ mudanca'[q] = mudanca[q]
    BY <2>1
  <2>3. TipoTerritorio' /\ PaisCadastrados' /\ CicloSoSemConferir'
    BY <2>1 DEF IInvTerritorio, TipoTerritorio, PaisCadastrados, Cadastrados,
                CicloSoSemConferir, EmCiclo, Acima
  <2>4. ASSUME NEW q \in Mudancas PROVE PedidoOK(mudanca[q])' /\ ChecagemOK(mudanca[q])'
    <3>1. PICK a : a = mudanca[q]  OBVIOUS
    <3>2. PedidoOK(a) /\ ChecagemOK(a) /\ Mesma(a, a) /\ a = mudanca'[q]
      BY <2>1, <3>1 DEF IInvTerritorio, MudancasOK, Mesma
    <3> QED  BY <2>1, <3>2, ArvoreIgual
  <2> QED  BY <2>3, <2>4 DEF IInvTerritorio, MudancasOK
<1>2. ASSUME NEW t \in Territorios, NEW novo \in Escopos, NEW escopo \in Escopos,
             CriarTerritorio(t, novo, escopo)
      PROVE  IInvTerritorio'
  BY <1>2, CriarTerritorioSegue
<1>3. ASSUME NEW escopo \in Escopos, AtivarTerritorio(escopo) PROVE IInvTerritorio'
  BY <1>3, AtivarTerritorioSegue
<1>4. ASSUME NEW r \in Mudancas, NEW escopo \in Escopos,
             LerMudanca(r, escopo) \/ PreverOrganizacao(r, escopo)
      PROVE  IInvTerritorio'
  BY <1>4, LerMudancaSegue, PreverOrganizacaoSegue
<1>5. ASSUME NEW r \in Mudancas, NEW t \in Cadastrados, Prender(r, t) PROVE IInvTerritorio'
  BY <1>5, PrenderSegue
<1>6. ASSUME NEW r \in Mudancas, AplicarPrevia(r) PROVE IInvTerritorio'
  BY <1>6, AplicarPreviaSegue
<1>7. ASSUME NEW r \in Mudancas, NEW par \in mudanca[r].lote, TrocarPai(r, par)
      PROVE  IInvTerritorio'
  BY <1>7, TrocarPaiSegue
<1>8. ASSUME NEW r \in Mudancas, ConfirmarMudanca(r) PROVE IInvTerritorio'
  BY <1>8, ConfirmarMudancaSegue
<1>9. ASSUME NEW r \in Mudancas, DesfazerMudanca(r) PROVE IInvTerritorio'
  BY <1>9, DesfazerMudancaSegue
<1> QED  BY <1>1, <1>2, <1>3, <1>4, <1>5, <1>6, <1>7, <1>8, <1>9 DEF NextTerritorio

LEMMA SempreTerritorio == SpecTerritorio => []IInvTerritorio
  BY InicioTerritorio, PassoTerritorio, PTL DEF SpecTerritorio

\* However many territories, moves and organizations: a cycle appears only when a
\* move is decided on an old check, or an organization makes it.
THEOREM CicloSempreSemConferir == SpecTerritorio => []CicloSoSemConferir
<1>1. IInvTerritorio => CicloSoSemConferir  BY DEF IInvTerritorio
<1> QED  BY <1>1, SempreTerritorio, PTL

(***************************************************************************)
(* What an actor sees after an organization.                               *)
(***************************************************************************)
\* A chain of parents that never ends has a cycle in it.
LEMMA SemFimTemCiclo ==
    ASSUME NEW novos \in Pais, NEW B \in SUBSET Territorios, B # {},
           \A y \in B : novos[y] \in B
    PROVE  \E z \in B : z \in AcimaEm(novos, z)
<1> DEFINE T == {AcimaEm(novos, y) : y \in B}
<1>1. \A y \in B : AcimaEm(novos, y) \in FiniteSubsetsOf(Territorios)
  BY AcimaFechada, TerritoriosContaveis, FS_Subset DEF FiniteSubsetsOf
<1>2. T \subseteq FiniteSubsetsOf(Territorios) /\ T # {}  BY <1>1
<1>3. IsWellFoundedOn(StrictSubsetOrdering(Territorios), FiniteSubsetsOf(Territorios))
  BY FS_StrictSubsetOrderingWellFounded
<1> HIDE DEF T
<1>4. PICK S \in T : \A U \in T : ~(<<U, S>> \in StrictSubsetOrdering(Territorios))
  BY <1>2, <1>3, WFMin
<1>5. PICK y \in B : S = AcimaEm(novos, y)  BY <1>4 DEF T
<1>6. PICK z \in B : z = novos[y]  BY <1>5
<1>7. z # SemPai /\ z \in AcimaEm(novos, y) /\ AcimaEm(novos, z) \subseteq AcimaEm(novos, y)
  <2>1. z # SemPai  BY <1>6, SemPaiFora
  <2> QED  BY <1>6, <2>1, AcimaPai
<1>8. AcimaEm(novos, z) = AcimaEm(novos, y)
  <2>1. AcimaEm(novos, z) \in T  BY DEF T
  <2>2. AcimaEm(novos, z) \in SUBSET Territorios /\ AcimaEm(novos, y) \in SUBSET Territorios
    BY AcimaFechada
  <2> QED  BY <1>4, <1>5, <1>7, <2>1, <2>2 DEF StrictSubsetOrdering
<1> QED  BY <1>7, <1>8

Abaixo(pais, e, D) == {e} \cup {t \in D : e \in AcimaEm(pais, t)}

\* Moves to and from territories below e, none of which closes a cycle, leave below
\* e what was there.
LEMMA AbaixoFica ==
    ASSUME NEW pais \in Pais, NEW novos \in Pais, NEW D \in SUBSET Territorios, NEW e \in D,
           \A x \in Territorios : pais[x] \in D \cup {SemPai},
           NEW C \in SUBSET Territorios, \A x \in Territorios \ C : novos[x] = pais[x],
           \A c \in C : /\ c \in Abaixo(pais, e, D) /\ novos[c] \in Abaixo(pais, e, D)
                        /\ c \notin AcimaEm(novos, c)
    PROVE  Abaixo(novos, e, D) = Abaixo(pais, e, D)
<1> DEFINE A == Abaixo(pais, e, D)
<1>1. A \subseteq D /\ e \in A  BY DEF Abaixo
<1>2. ASSUME NEW y \in Territorios \ C
      PROVE  /\ y \in A /\ y # e => novos[y] \in A
             /\ y \in D \ A => novos[y] \in (D \ A) \cup {SemPai}
  <2>1. novos[y] = pais[y]  OBVIOUS
  <2>2. IF pais[y] = SemPai THEN AcimaEm(pais, y) = {}
        ELSE AcimaEm(pais, y) = {pais[y]} \cup AcimaEm(pais, pais[y])
    BY AcimaPai
  <2>3. pais[y] \in D \cup {SemPai}  OBVIOUS
  <2> QED  BY <2>1, <2>2, <2>3 DEF Abaixo
<1>3. ASSUME NEW x \in D, e \in AcimaEm(novos, x), x \notin A PROVE FALSE
  <2>1. \A y \in D \ A : novos[y] \in (D \ A) \cup {SemPai}  BY <1>2
  <2>2. FechadoAcima(novos, D \ A, x)  BY <1>3, <2>1 DEF FechadoAcima
  <2>3. AcimaEm(novos, x) \subseteq D \ A  BY <2>2, AcimaMenor
  <2> QED  BY <1>1, <1>3, <2>3
<1>4. ASSUME NEW x \in A, x # e, e \notin AcimaEm(novos, x) PROVE FALSE
  <2> DEFINE B == {y \in A : y # e /\ e \notin AcimaEm(novos, y)}
  <2>1. ASSUME NEW y \in B PROVE novos[y] \in B
    <3>1. y \in A /\ y # e /\ y \in Territorios /\ e \notin AcimaEm(novos, y)  BY <1>1
    <3>2. novos[y] \in A  BY <1>2, <3>1
    <3>3. novos[y] \in Territorios /\ novos[y] # SemPai  BY <1>1, <3>2, SemPaiFora
    <3>4. AcimaEm(novos, y) = {novos[y]} \cup AcimaEm(novos, novos[y])
      BY <3>1, <3>3, AcimaPai
    <3> QED  BY <3>1, <3>2, <3>4
  <2>2. B \in SUBSET Territorios /\ B # {}  BY <1>1, <1>4
  <2>3. PICK z \in B : z \in AcimaEm(novos, z)  BY <2>1, <2>2, SemFimTemCiclo
  <2>4. z \in Territorios /\ AcimaEm(novos, z) \in SUBSET Territorios
    BY <2>2, AcimaFechada
  <2>5. \A c \in AcimaEm(novos, z) : c \notin C
    BY <2>3, <2>4, CicloInteiro
  <2>6. AcimaEm(novos, z) = AcimaEm(pais, z)
    BY <2>3, <2>4, <2>5, AcimaIgual
  <2> QED  BY <2>3, <2>6 DEF Abaixo
<1> QED  BY <1>1, <1>3, <1>4 DEF Abaixo

LEMMA OrganizacaoDeixa ==
    ASSUME IInvTerritorio, NEW r \in Mudancas, ConfirmarMudanca(r),
           mudanca[r].op = "organizar", mudanca[r].fresca = "sim", fechou' = "nao",
           NEW escopo \in Escopos, mudanca[r].escopo = escopo
    PROVE  Alteracoes(escopo)' = {}
<1> USE DEF IInvTerritorio
<1>1. PICK lote, novos : lote = mudanca[r].lote /\ novos = PaisDepois(lote)  OBVIOUS
<1>2. /\ pai' = novos /\ territorio' = territorio /\ mudanca[r].passo = "trocar"
      /\ \A par \in lote : par[1] \notin AcimaEm(novos, par[1])
  BY <1>1 DEF ConfirmarMudanca, PaisDepois
<1>3. lote = Alteracoes(escopo)  BY <1>1, <1>2 DEF MudancasOK, ChecagemOK
<1>4. /\ lote \in SUBSET (Territorios \X (Territorios \cup {SemPai}))
      /\ \A par \in lote : par[1] \in Cadastrados /\ par[2] \in Cadastrados \cup {SemPai}
  BY <1>1 DEF TipoTerritorio, Mudanca, MudancasOK, PedidoOK
<1>5. /\ novos \in Pais /\ pai \in Pais
      /\ \A t \in Territorios : (\A par \in lote : par[1] # t) => novos[t] = pai[t]
  BY <1>1, <1>4, PaisDepoisTipo DEF TipoTerritorio
<1>6. ASSUME NEW par \in lote
      PROVE  /\ par[1] \in Bairros \cap Mostrados(escopo)
             /\ MunicipiosDe(par[1], Mostrados(escopo)) = {par[2]} /\ par[2] \in Mostrados(escopo)
             /\ novos[par[1]] = par[2] /\ pai[par[1]] # par[2]
  <2>1. /\ par[1] \in Bairros \cap Mostrados(escopo)
        /\ MunicipiosDe(par[1], Mostrados(escopo)) = {par[2]} /\ pai[par[1]] # par[2]
    BY <1>3 DEF Alteracoes
  <2>2. par[2] \in Mostrados(escopo)  BY <2>1 DEF MunicipiosDe
  <2>3. PICK b, x : b = par[1] /\ x = CHOOSE y \in lote : y[1] = b  OBVIOUS
  <2>4. x \in lote /\ x[1] = b  BY <2>3
  <2>5. MunicipiosDe(b, Mostrados(escopo)) = {x[2]}  BY <1>3, <2>4 DEF Alteracoes
  <2>6. novos[b] = x[2]  BY <1>1, <1>4, <2>3, <2>4 DEF PaisDepois
  <2> QED  BY <2>1, <2>2, <2>3, <2>5, <2>6
<1>7. Cadastrados' = Cadastrados /\ Cadastrados \in SUBSET Territorios
  BY <1>2 DEF Cadastrados
<1>8. Acessiveis(escopo)' = Acessiveis(escopo)
  <2>1. CASE escopo = SemPai  BY <1>7, <2>1 DEF Acessiveis
  <2>2. CASE escopo # SemPai
    <3>1. escopo \in Cadastrados  BY <2>2 DEF Escopos
    <3>2. /\ Acessiveis(escopo) = Abaixo(pai, escopo, Cadastrados)
          /\ Acessiveis(escopo)' = Abaixo(novos, escopo, Cadastrados)
      BY <1>2, <1>7, <2>2 DEF Acessiveis, Abaixo, Acima
    <3> DEFINE C == {par[1] : par \in lote}
    <3>3. C \in SUBSET Territorios  BY <1>4
    <3>4. \A x \in Territorios \ C : novos[x] = pai[x]  BY <1>5
    <3>5. \A c \in C : /\ c \in Abaixo(pai, escopo, Cadastrados)
                       /\ novos[c] \in Abaixo(pai, escopo, Cadastrados)
                       /\ c \notin AcimaEm(novos, c)
      BY <1>2, <1>6, <3>2 DEF Mostrados
    <3>6. \A x \in Territorios : pai[x] \in Cadastrados \cup {SemPai}  BY DEF PaisCadastrados
    <3> HIDE DEF C
    <3> QED  BY <1>5, <1>7, <3>1, <3>2, <3>3, <3>4, <3>5, <3>6, AbaixoFica
  <2> QED  BY <2>1, <2>2
<1>9. Mostrados(escopo)' = Mostrados(escopo)  BY <1>2, <1>8 DEF Mostrados
<1>10. \A b : MunicipiosDe(b, Mostrados(escopo))' = MunicipiosDe(b, Mostrados(escopo))  BY <1>9 DEF MunicipiosDe
<1>11. ASSUME NEW b \in Bairros \cap Mostrados(escopo), NEW m \in Municipios,
              MunicipiosDe(b, Mostrados(escopo)) = {m}, novos[b] # m
       PROVE  FALSE
  <2>1. b \in Territorios  BY TiposTerritorio
  <2>2. CASE pai[b] # m
    <3>1. <<b, m>> \in lote  BY <1>3, <1>11, <2>2 DEF Alteracoes
    <3> QED  BY <1>6, <1>11, <3>1
  <2>3. CASE pai[b] = m
    <3>1. \A par \in lote : par[1] # b  BY <1>6, <1>11, <2>3
    <3> QED  BY <1>5, <1>11, <2>1, <2>3, <3>1
  <2> QED  BY <2>2, <2>3
<1> QED  BY <1>2, <1>9, <1>10, <1>11 DEF Alteracoes

\* An organization decided on what is still there leaves its actor nothing to
\* organize: what the actor sees is the same after it.
THEOREM OrganizacaoSempreCompleta == SpecTerritorio => OrganizacaoCompleta
<1>1. IInvTerritorio =>
        [\A r \in Mudancas :
          (mudanca[r].op = "organizar" /\ mudanca[r].fresca = "sim"
             /\ ConfirmarMudanca(r) /\ fechou' = "nao")
          => \A escopo \in Escopos :
                mudanca[r].escopo = escopo => Alteracoes(escopo)' = {}]_varsTerritorio
  BY OrganizacaoDeixa
<1> QED  BY <1>1, SempreTerritorio, PTL DEF OrganizacaoCompleta

(***************************************************************************)
(* Where people live and vote.                                             *)
(***************************************************************************)
Item == [dono : PessoasT \cup {Nenhum}, tipo : TiposEndereco \cup {"telefone", "livre", "excluido"},
         principal : {"sim", "nao"}, bairro : BairrosT \cup {Nenhum}]
Alteracao == [passo : {"livre", "lido", "gravado", "ligado", "falhou"}, item : Itens \cup {Nenhum},
              novo : Item, campos : SUBSET TodosCampos, limpar : SUBSET Itens,
              op : {"nada", "nenhum", "manter", "trocar", "novo"}, elo : Elos \cup {Nenhum},
              destino : BairrosT \cup {Nenhum}, tocados : SUBSET Elos, fresca : {"sim", "nao"}]
TipoPessoaT ==
    /\ vivas \subseteq PessoasT
    /\ item \in [Itens -> Item]
    /\ alteracao \in [Alteracoes0 -> Alteracao]
    /\ mexida \in [PessoasT -> {"sim", "nao"}] /\ votoMexido \in [PessoasT -> {"sim", "nao"}]
    /\ moradia = [p \in PessoasT |-> moradia[p]]
    /\ eleitor = [p \in PessoasT |-> eleitor[p]] /\ votacao = [p \in PessoasT |-> votacao[p]]

\* A row that a request found: it belongs to the request's person, or to nobody
\* any more, and is still an address or still a contact.
LinhaOK(a, linha) ==
    /\ linha # ItemLivre /\ linha.dono \in {a.novo.dono, Nenhum}
    /\ linha.tipo \in TiposEndereco <=> a.novo.tipo \in TiposEndereco
PedidoItemOK(a, itens) ==
    a.passo # "livre" =>
        /\ a.novo.dono \in PessoasT /\ a.item \in Itens /\ a.item \notin a.limpar
        /\ a.passo = "gravado" => a.novo.tipo \in TiposEndereco
        /\ IF a.campos = TodosCampos THEN itens[a.item] = ItemLivre
           ELSE a.campos \in {{"principal"}, {"tipo"}, {"bairro"}} /\ LinhaOK(a, itens[a.item])
        /\ \A i \in a.limpar : LinhaOK(a, itens[i])

\* The tree of links m of a person, the one a request chose, and the rows it will
\* have touched.
UsoDe(m) == {e \in Elos : m[e] # Nenhum}
LigacaoCerta(a, m, b) ==
    /\ a.destino = b
    /\ \/ b = Nenhum /\ a.op = "nenhum" /\ a.elo = Nenhum
       \/ b # Nenhum /\ a.op = "manter" /\ a.elo \in UsoDe(m) /\ m[a.elo] = b
       \/ b # Nenhum /\ a.op = "trocar" /\ a.elo \in UsoDe(m) /\ \A e \in UsoDe(m) : m[e] # b
       \/ b # Nenhum /\ a.op = "novo" /\ a.elo \in Elos /\ UsoDe(m) = {}
TocadosPor(a, m) == {e \in UsoDe(m) : e # a.elo \/ a.op = "trocar"}
DepoisDe(a, itens) ==
    [i \in Itens |->
        IF i = a.item THEN Escrita(itens[i], a.novo, a.campos)
        ELSE IF i \in a.limpar THEN [itens[i] EXCEPT !.principal = "nao"] ELSE itens[i]]

\* A request that nobody's overlapped: what it read is what is there.
Pede(a) == "principal" \in a.campos /\ a.novo.principal = "sim"
LinkDecidido(a) ==
    a.passo = "gravado" \/ (a.passo = "ligado" /\ a.novo.tipo \in TiposEndereco)
SozinhaOK(a, itens, m) ==
    a.passo # "livre" /\ a.fresca = "sim" =>
        /\ Pede(a) => a.limpar = Principais(itens, a.novo.dono, a.novo.tipo) \ {a.item}
        /\ a.campos # TodosCampos /\ "tipo" \notin a.campos => itens[a.item].tipo = a.novo.tipo
        /\ LinkDecidido(a) => LigacaoCerta(a, m, BairroDe(DepoisDe(a, itens), a.novo.dono))
        /\ LinkDecidido(a) /\ a.passo = "ligado" => a.tocados = TocadosPor(a, m)

\* The row of a new item is nobody else's, and who is alone is alone.
Convivem(a, b) ==
    a.passo # "livre" /\ b.passo # "livre" =>
        /\ a.campos = TodosCampos => b.item # a.item
        /\ a.fresca = "sim" => b.novo.dono # a.novo.dono

PedidosItemOK ==
    \A q \in Alteracoes0 :
        /\ PedidoItemOK(alteracao[q], item)
        /\ SozinhaOK(alteracao[q], item, moradia[alteracao[q].novo.dono])
        /\ \A o \in Alteracoes0 \ {q} : Convivem(alteracao[q], alteracao[o])

MoradiaUma(m, b) ==
    /\ m \in [Elos -> BairrosT \cup {Nenhum}]
    /\ IF b = Nenhum THEN UsoDe(m) = {} ELSE \E e \in Elos : UsoDe(m) = {e} /\ m[e] = b
MoradiaOK == \A p \in PessoasT : mexida[p] = "nao" => MoradiaUma(moradia[p], BairroDe(item, p))

IInvPessoaT == TipoPessoaT /\ PedidosItemOK /\ MoradiaOK /\ VotacaoConfere

LEMMA PrimeiroDeles ==
    ASSUME NEW S \in SUBSET Nat, S # {}
    PROVE  Primeiro(S) \in S
<1>1. PICK x \in S : \A y \in S : <<y, x>> \notin OpToRel(<, Nat)
  BY NatLessThanWellFounded, WFMin
<1>2. x \in Nat /\ \A y \in S : y \in Nat /\ ~(y < x)  BY <1>1, Zenon DEF OpToRel
<1>3. \A y \in S : x <= y  BY <1>2
<1> QED  BY <1>3 DEF Primeiro

LEMMA ItemLivreTipo == ItemLivre \in Item /\ ItemLivre.dono = Nenhum /\ ItemLivre.tipo = "livre"
  BY DEF ItemLivre, Item

LEMMA AlteracaoLivreTipo == AlteracaoLivre \in Alteracao /\ AlteracaoLivre.passo = "livre"
  BY ItemLivreTipo DEF AlteracaoLivre, Alteracao

LEMMA EscritaTipo ==
    ASSUME NEW linha \in Item, NEW novo \in Item, NEW campos
    PROVE  /\ Escrita(linha, novo, campos) \in Item
           /\ Escrita(linha, novo, campos).dono = IF "dono" \in campos THEN novo.dono ELSE linha.dono
           /\ Escrita(linha, novo, campos).tipo = IF "tipo" \in campos THEN novo.tipo ELSE linha.tipo
           /\ Escrita(linha, novo, campos).principal =
                IF "principal" \in campos THEN novo.principal ELSE linha.principal
  BY DEF Escrita, Item

LEMMA CamposDistintos ==
    /\ {"principal"} # TodosCampos /\ {"tipo"} # TodosCampos /\ {"bairro"} # TodosCampos
    /\ "dono" \in TodosCampos /\ "tipo" \in TodosCampos /\ "principal" \in TodosCampos
  BY DEF TodosCampos

LEMMA DepoisDeTipo ==
    ASSUME NEW itens \in [Itens -> Item], NEW a \in Alteracao
    PROVE  /\ DepoisDe(a, itens) \in [Itens -> Item]
           /\ \A i \in Itens :
                 IF i = a.item THEN DepoisDe(a, itens)[i] = Escrita(itens[i], a.novo, a.campos)
                 ELSE IF i \in a.limpar THEN DepoisDe(a, itens)[i] = [itens[i] EXCEPT !.principal = "nao"]
                 ELSE DepoisDe(a, itens)[i] = itens[i]
<1>1. ASSUME NEW i \in Itens
      PROVE  DepoisDe(a, itens)[i] \in Item
  <2>1. itens[i] \in Item /\ a.novo \in Item  BY DEF Alteracao
  <2>2. Escrita(itens[i], a.novo, a.campos) \in Item  BY <2>1, EscritaTipo
  <2>3. [itens[i] EXCEPT !.principal = "nao"] \in Item  BY <2>1 DEF Item
  <2> QED  BY <2>1, <2>2, <2>3 DEF DepoisDe
<1> QED  BY <1>1 DEF DepoisDe

LEMMA BairroTipo ==
    ASSUME NEW itens \in [Itens -> Item], NEW p
    PROVE  BairroDe(itens, p) \in BairrosT \cup {Nenhum}
<1>1. Residenciais(itens, p) \subseteq Itens /\ Principais(itens, p, "residencial") \subseteq Itens
  BY DEF Residenciais, Principais, DoDono
<1>2. Itens \subseteq Nat  BY IdsNumerados
<1>3. \A S \in SUBSET Itens : S # {} => itens[Primeiro(S)] \in Item
  BY <1>2, PrimeiroDeles
<1> QED  BY <1>1, <1>3 DEF BairroDe, Item

\* The trigger sees the residential addresses of the person and nothing else.
LEMMA BairroIgual ==
    ASSUME NEW a, NEW b, NEW p,
           \A i \in Itens : i \in Residenciais(a, p) \/ i \in Residenciais(b, p) => b[i] = a[i]
    PROVE  BairroDe(b, p) = BairroDe(a, p)
<1>1. Residenciais(b, p) = Residenciais(a, p)  BY DEF Residenciais, DoDono
<1>2. Principais(b, p, "residencial") = Principais(a, p, "residencial")
  BY DEF Residenciais, Principais, DoDono
<1>3. CASE Residenciais(a, p) = {}  BY <1>1, <1>3 DEF BairroDe
<1>4. CASE Residenciais(a, p) # {}
  <2> DEFINE S == IF Principais(a, p, "residencial") # {} THEN Principais(a, p, "residencial")
                  ELSE Residenciais(a, p)
  <2>1. S \subseteq Residenciais(a, p) /\ Residenciais(a, p) \subseteq Itens /\ S # {}
    BY <1>4 DEF Principais, Residenciais, DoDono
  <2>2. Primeiro(S) \in S
    <3>1. S \in SUBSET Nat  BY <2>1, IdsNumerados
    <3> QED  BY <2>1, <3>1, PrimeiroDeles
  <2>3. BairroDe(a, p) = a[Primeiro(S)].bairro /\ BairroDe(b, p) = b[Primeiro(S)].bairro
    BY <1>1, <1>2, <1>4 DEF BairroDe
  <2>4. b[Primeiro(S)] = a[Primeiro(S)]
    <3>1. PICK f : f = Primeiro(S)  OBVIOUS
    <3>2. f \in Residenciais(a, p) /\ f \in Itens  BY <2>1, <2>2, <3>1
    <3> QED  BY <3>1, <3>2
  <2> QED  BY <2>3, <2>4
<1> QED  BY <1>3, <1>4

\* What a request leaves of the links.
LEMMA LigacaoFaz ==
    ASSUME NEW a, NEW m, NEW b \in BairrosT \cup {Nenhum}, LigacaoCerta(a, m, b),
           NEW f, f = [e \in Elos |->
                         IF e = a.elo /\ a.op \in {"trocar", "novo"} THEN a.destino
                         ELSE IF e \in TocadosPor(a, m) THEN Nenhum ELSE m[e]]
    PROVE  MoradiaUma(f, b)
<1>1. Nenhum \notin Elos /\ Nenhum \notin BairrosT  BY NenhumFora
<1>2. a.destino = b  BY DEF LigacaoCerta
<1>3. CASE b = Nenhum
  <2>1. a.elo = Nenhum /\ a.op = "nenhum"  BY <1>3 DEF LigacaoCerta
  <2>2. \A e \in Elos : f[e] = Nenhum  BY <1>1, <2>1 DEF TocadosPor, UsoDe
  <2> QED  BY <1>3, <2>2 DEF MoradiaUma, UsoDe
<1>4. CASE b # Nenhum
  <2>1. a.elo \in Elos /\ a.op \in {"manter", "trocar", "novo"}
    BY <1>4 DEF LigacaoCerta, UsoDe
  <2>2. f[a.elo] = b
    BY <1>2, <1>4, <2>1 DEF LigacaoCerta, TocadosPor
  <2>3. \A e \in Elos : e # a.elo => f[e] = Nenhum
    BY <1>4, <2>1 DEF LigacaoCerta, TocadosPor, UsoDe
  <2>4. UsoDe(f) = {a.elo}  BY <1>4, <2>1, <2>2, <2>3 DEF UsoDe
  <2>5. f \in [Elos -> BairrosT \cup {Nenhum}]  BY <2>2, <2>3
  <2> QED  BY <1>4, <2>1, <2>2, <2>4, <2>5 DEF MoradiaUma
<1> QED  BY <1>3, <1>4

LEMMA UmaConfere ==
    ASSUME NEW m, NEW b, MoradiaUma(m, b)
    PROVE  {m[e] : e \in UsoDe(m)} = {b} \ {Nenhum} /\ Cardinality(UsoDe(m)) <= 1
<1>1. CASE b = Nenhum
  <2>1. UsoDe(m) = {}  BY <1>1 DEF MoradiaUma
  <2>2. Cardinality(UsoDe(m)) = 0  BY <2>1, FS_EmptySet
  <2> QED  BY <1>1, <2>1, <2>2
<1>2. CASE b # Nenhum
  <2>1. PICK e \in Elos : UsoDe(m) = {e} /\ m[e] = b  BY <1>2 DEF MoradiaUma
  <2>2. Cardinality(UsoDe(m)) = 1  BY <2>1, FS_Singleton
  <2> QED  BY <1>2, <2>1, <2>2
<1> QED  BY <1>1, <1>2

LEMMA DecisaoCerta ==
    ASSUME NEW p, NEW b \in BairrosT \cup {Nenhum}, CabeElo(p),
           NEW d, d = Decisao(p, b)
    PROVE  /\ LigacaoCerta(d, moradia[p], b)
           /\ d.op \in {"nenhum", "manter", "trocar", "novo"} /\ d.elo \in Elos \cup {Nenhum}
           /\ d.destino \in BairrosT \cup {Nenhum}
<1> DEFINE uso == EmUso(p)
           certos == {e \in uso : moradia[p][e] = b}
<1>1. uso = UsoDe(moradia[p]) /\ uso \in SUBSET Nat /\ certos \in SUBSET Nat /\ uso \subseteq Elos
  BY IdsNumerados DEF EmUso, UsoDe
<1>2. CASE b = Nenhum
  <2>1. d = [op |-> "nenhum", elo |-> Nenhum, destino |-> Nenhum]  BY <1>2 DEF Decisao
  <2> QED  BY <1>2, <2>1 DEF LigacaoCerta
<1>3. CASE b # Nenhum /\ certos # {}
  <2>1. d = [op |-> "manter", elo |-> Primeiro(certos), destino |-> b]  BY <1>3 DEF Decisao
  <2>2. Primeiro(certos) \in certos  BY <1>1, <1>3, PrimeiroDeles
  <2> QED  BY <1>1, <1>3, <2>1, <2>2 DEF LigacaoCerta
<1>4. CASE b # Nenhum /\ certos = {} /\ uso # {}
  <2>1. d = [op |-> "trocar", elo |-> Primeiro(uso), destino |-> b]  BY <1>4 DEF Decisao
  <2>2. Primeiro(uso) \in uso  BY <1>1, <1>4, PrimeiroDeles
  <2>3. \A e \in uso : moradia[p][e] # b  BY <1>4
  <2> HIDE DEF uso, certos
  <2> QED  BY <1>1, <1>4, <2>1, <2>2, <2>3 DEF LigacaoCerta
<1>5. CASE b # Nenhum /\ uso = {}
  <2>1. d = [op |-> "novo", elo |-> EloNovo(p), destino |-> b]  BY <1>5 DEF Decisao
  <2>2. ElosLivres(p) # {} /\ ElosLivres(p) \in SUBSET Nat /\ ElosLivres(p) \subseteq Elos
    BY <1>5, IdsNumerados DEF CabeElo, ElosLivres
  <2>3. EloNovo(p) \in Elos  BY <2>2, PrimeiroDeles DEF EloNovo
  <2> HIDE DEF uso, certos
  <2> QED  BY <1>1, <1>5, <2>1, <2>3 DEF LigacaoCerta
<1> QED  BY <1>2, <1>3, <1>4, <1>5

LEMMA SincronizadaUma ==
    ASSUME NEW p, NEW itens \in [Itens -> Item], CabeElo(p)
    PROVE  MoradiaUma(Sincronizada(itens, p), BairroDe(itens, p))
<1> DEFINE b == BairroDe(itens, p)
           d == Decisao(p, b)
           s == Sincronizada(itens, p)
<1>1. b \in BairrosT \cup {Nenhum}  BY BairroTipo
<1>2. LigacaoCerta(d, moradia[p], b)  BY <1>1, DecisaoCerta
<1>3. s = [e \in Elos |-> IF e = d.elo THEN d.destino ELSE Nenhum]  BY DEF Sincronizada
<1>4. Nenhum \notin Elos /\ d.destino = b /\ UsoDe(moradia[p]) \subseteq Elos
  BY <1>2, NenhumFora DEF LigacaoCerta, UsoDe
<1>5. b = Nenhum => d.elo = Nenhum  BY <1>2 DEF LigacaoCerta
<1>6. b # Nenhum => d.elo \in Elos  BY <1>2, <1>4 DEF LigacaoCerta
<1> HIDE DEF s, d, b
<1>7. s \in [Elos -> BairrosT \cup {Nenhum}]  BY <1>1, <1>3, <1>4
<1>8. CASE b = Nenhum
  <2>1. \A e \in Elos : s[e] = Nenhum  BY <1>3, <1>4, <1>5, <1>8
  <2>2. UsoDe(s) = {}  BY <2>1 DEF UsoDe
  <2> QED  BY <1>7, <1>8, <2>2 DEF MoradiaUma, s, b
<1>9. CASE b # Nenhum
  <2>1. PICK x \in Elos : x = d.elo  BY <1>6, <1>9
  <2>2. s[x] = b /\ \A e \in Elos : e # x => s[e] = Nenhum  BY <1>3, <1>4, <2>1
  <2>3. UsoDe(s) = {x}  BY <1>9, <2>2 DEF UsoDe
  <2> QED  BY <1>7, <1>9, <2>2, <2>3 DEF MoradiaUma, s, b
<1> QED  BY <1>8, <1>9 DEF s, b

LEMMA CopiadosNada ==
    ASSUME NEW de, NEW para \in [Elos -> BairrosT \cup {Nenhum}], \A e \in Elos : de[e] = Nenhum
    PROVE  Copiados(de, para) = para
<1> DEFINE livres == {e \in Elos : para[e] = Nenhum}
           P(m) == /\ \A e \in Elos \ livres : m[e] = para[e]
                   /\ {m[e] : e \in livres} \ {Nenhum} = {}
                   /\ Cardinality({e \in livres : m[e] # Nenhum}) = Cardinality({})
<1>1. {b \in BairrosT : (\E e \in Elos : de[e] = b) /\ \A e \in Elos : para[e] # b} = {}
  BY NenhumFora
<1>2. Copiados(de, para) = CHOOSE m \in [Elos -> BairrosT \cup {Nenhum}] : P(m)
  BY <1>1 DEF Copiados
<1>3. P(para)
  <2>1. {e \in livres : para[e] # Nenhum} = {}  OBVIOUS
  <2> QED  BY <2>1
<1>4. ASSUME NEW m \in [Elos -> BairrosT \cup {Nenhum}], P(m) PROVE m = para
  <2>1. ASSUME NEW e \in Elos PROVE m[e] = para[e]
    <3>1. CASE e \in livres
      <4>1. m[e] \in {m[x] : x \in livres}  BY <3>1
      <4> QED  BY <1>4, <3>1, <4>1
    <3> QED  BY <1>4, <3>1
  <2> QED  BY <2>1
<1> HIDE DEF P
<1> QED  BY <1>2, <1>3, <1>4

(***************************************************************************)
(* How requests and rows go from one step to the next.                     *)
(***************************************************************************)
\* A request that did not move: at most somebody overlapped it.
Mantem(c, b) ==
    \/ c = AlteracaoLivre
    \/ c = b
    \/ c = [b EXCEPT !.fresca = "nao"]
LEMMA MantemOK ==
    ASSUME NEW b \in Alteracao, NEW c, Mantem(c, b), NEW itens, NEW m,
           PedidoItemOK(b, itens), SozinhaOK(b, itens, m)
    PROVE  c \in Alteracao /\ PedidoItemOK(c, itens) /\ SozinhaOK(c, itens, m)
<1>1. CASE c = AlteracaoLivre
  BY <1>1, AlteracaoLivreTipo DEF PedidoItemOK, SozinhaOK
<1>2. CASE c = [b EXCEPT !.fresca = "nao"]
  <2>1. /\ c \in Alteracao /\ c.passo = b.passo /\ c.item = b.item /\ c.novo = b.novo
        /\ c.campos = b.campos /\ c.limpar = b.limpar /\ c.fresca = "nao"
    BY <1>2 DEF Alteracao
  <2> QED  BY <2>1 DEF PedidoItemOK, SozinhaOK, LinhaOK
<1> QED  BY <1>1, <1>2 DEF Mantem

LEMMA MantemConvive ==
    ASSUME NEW a \in Alteracao, NEW b \in Alteracao, NEW c, NEW d, Mantem(c, a), Mantem(d, b),
           Convivem(a, b)
    PROVE  Convivem(c, d)
<1>1. c.passo = "livre" \/ /\ c.passo = a.passo /\ c.item = a.item /\ c.novo = a.novo
                           /\ c.campos = a.campos /\ (c.fresca = "sim" => a.fresca = "sim")
  BY AlteracaoLivreTipo DEF Mantem, Alteracao
<1>2. d.passo = "livre" \/ /\ d.passo = b.passo /\ d.item = b.item /\ d.novo = b.novo
                           /\ d.campos = b.campos /\ (d.fresca = "sim" => b.fresca = "sim")
  BY AlteracaoLivreTipo DEF Mantem, Alteracao
<1> QED  BY <1>1, <1>2 DEF Convivem

\* A row of a request: as it was, or changed without changing hands or kind.
LinhaSegue(antes, depois) ==
    \/ depois = antes
    \/ /\ antes # ItemLivre /\ depois # ItemLivre
       /\ depois.dono \in {antes.dono, Nenhum}
       /\ depois.tipo \in TiposEndereco <=> antes.tipo \in TiposEndereco
LEMMA LinhasSeguem ==
    ASSUME NEW b, NEW itens, NEW novas, PedidoItemOK(b, itens),
           b.passo # "livre" => \A i \in {b.item} \cup b.limpar : LinhaSegue(itens[i], novas[i])
    PROVE  PedidoItemOK(b, novas)
<1>1. ASSUME NEW i, LinhaOK(b, itens[i]), LinhaSegue(itens[i], novas[i])
      PROVE  LinhaOK(b, novas[i])
  BY <1>1 DEF LinhaOK, LinhaSegue
<1>2. ASSUME NEW i, itens[i] = ItemLivre, LinhaSegue(itens[i], novas[i])
      PROVE  novas[i] = ItemLivre
  BY <1>2 DEF LinhaSegue
<1> QED  BY <1>1, <1>2 DEF PedidoItemOK

\* Nobody's rows but those of others change: p's are as they were.
MesmasDe(p, itens, novas) ==
    \A i \in Itens : itens[i].dono = p \/ novas[i].dono = p => novas[i] = itens[i]
LEMMA MesmasBairro ==
    ASSUME NEW p, NEW itens, NEW novas, MesmasDe(p, itens, novas)
    PROVE  /\ BairroDe(novas, p) = BairroDe(itens, p)
           /\ \A t : Principais(novas, p, t) = Principais(itens, p, t)
<1>1. BairroDe(novas, p) = BairroDe(itens, p)
  BY BairroIgual DEF MesmasDe, Residenciais, DoDono
<1>2. \A t : Principais(novas, p, t) = Principais(itens, p, t)
  BY DEF MesmasDe, Principais, DoDono
<1> QED  BY <1>1, <1>2

LEMMA SozinhaSegue ==
    ASSUME NEW b \in Alteracao, NEW itens \in [Itens -> Item], NEW novas \in [Itens -> Item], NEW m,
           PedidoItemOK(b, itens), SozinhaOK(b, itens, m),
           b.passo # "livre" /\ b.fresca = "sim" =>
              MesmasDe(b.novo.dono, itens, novas) /\ novas[b.item] = itens[b.item]
    PROVE  SozinhaOK(b, novas, m)
<1> SUFFICES ASSUME b.passo # "livre", b.fresca = "sim" PROVE SozinhaOK(b, novas, m)
  BY DEF SozinhaOK
<1> PICK p : p = b.novo.dono  OBVIOUS
<1>1. /\ MesmasDe(p, itens, novas) /\ novas[b.item] = itens[b.item] /\ b.item \in Itens
  BY DEF PedidoItemOK
<1>2. \A t : Principais(novas, p, t) = Principais(itens, p, t)  BY <1>1, MesmasBairro
<1>3. BairroDe(DepoisDe(b, novas), p) = BairroDe(DepoisDe(b, itens), p)
  <2> PICK D, E : D = DepoisDe(b, itens) /\ E = DepoisDe(b, novas)  OBVIOUS
  <2>1. /\ D \in [Itens -> Item] /\ E \in [Itens -> Item]
        /\ \A i \in Itens :
              /\ IF i = b.item THEN D[i] = Escrita(itens[i], b.novo, b.campos)
                 ELSE IF i \in b.limpar THEN D[i] = [itens[i] EXCEPT !.principal = "nao"]
                 ELSE D[i] = itens[i]
              /\ IF i = b.item THEN E[i] = Escrita(novas[i], b.novo, b.campos)
                 ELSE IF i \in b.limpar THEN E[i] = [novas[i] EXCEPT !.principal = "nao"]
                 ELSE E[i] = novas[i]
    BY DepoisDeTipo
  <2>2. ASSUME NEW i \in Itens, D[i].dono = p \/ E[i].dono = p PROVE E[i] = D[i]
    <3>1. CASE i = b.item  BY <1>1, <2>1, <3>1
    <3>2. CASE i # b.item /\ i \in b.limpar
      <4>1. D[i].dono = itens[i].dono /\ E[i].dono = novas[i].dono
        BY <2>1, <3>2 DEF Item
      <4>2. novas[i] = itens[i]  BY <1>1, <2>2, <4>1 DEF MesmasDe
      <4> QED  BY <2>1, <3>2, <4>2
    <3>3. CASE i # b.item /\ i \notin b.limpar
      BY <1>1, <2>1, <2>2, <3>3 DEF MesmasDe
    <3> QED  BY <3>1, <3>2, <3>3
  <2>3. MesmasDe(p, D, E)  BY <2>2 DEF MesmasDe
  <2> QED  BY <2>3, MesmasBairro
<1> QED  BY <1>1, <1>2, <1>3 DEF SozinhaOK

\* The rows and links of a step, where every request stays as it was or ends.
LEMMA RestoSegue ==
    ASSUME TipoPessoaT, PedidosItemOK, item' \in [Itens -> Item],
           NEW r \in Alteracoes0,
           \A o \in Alteracoes0 : Mantem(alteracao'[o], alteracao[o]),
           alteracao' = [o \in Alteracoes0 |-> alteracao'[o]],
           \A o \in Alteracoes0 : alteracao'[o].passo # "livre" =>
              /\ \A i \in {alteracao[o].item} \cup alteracao[o].limpar : LinhaSegue(item[i], item'[i])
              /\ alteracao'[o].fresca = "sim" =>
                    /\ MesmasDe(alteracao[o].novo.dono, item, item')
                    /\ item'[alteracao[o].item] = item[alteracao[o].item]
                    /\ moradia'[alteracao[o].novo.dono] = moradia[alteracao[o].novo.dono]
    PROVE  PedidosItemOK' /\ alteracao' \in [Alteracoes0 -> Alteracao]
<1>1. ASSUME NEW o \in Alteracoes0
      PROVE  /\ alteracao'[o] \in Alteracao
             /\ PedidoItemOK(alteracao'[o], item')
             /\ SozinhaOK(alteracao'[o], item', moradia'[alteracao'[o].novo.dono])
  <2> PICK b, c, its, nov, m, n :
        /\ b = alteracao[o] /\ c = alteracao'[o] /\ its = item /\ nov = item'
        /\ m = moradia[b.novo.dono] /\ n = moradia'[c.novo.dono]
    OBVIOUS
  <2>1. /\ b \in Alteracao /\ PedidoItemOK(b, its) /\ SozinhaOK(b, its, m) /\ Mantem(c, b)
        /\ its \in [Itens -> Item] /\ nov \in [Itens -> Item]
    BY DEF TipoPessoaT, PedidosItemOK
  <2>2. c \in Alteracao /\ PedidoItemOK(c, its) /\ SozinhaOK(c, its, m)  BY <2>1, MantemOK
  <2>3. CASE c.passo = "livre"  BY <2>2, <2>3 DEF PedidoItemOK, SozinhaOK
  <2>4. CASE c.passo # "livre"
    <3>1. c.item = b.item /\ c.novo = b.novo /\ c.limpar = b.limpar
      BY <2>1, <2>4, AlteracaoLivreTipo DEF Mantem, Alteracao
    <3>2. /\ \A i \in {c.item} \cup c.limpar : LinhaSegue(its[i], nov[i])
          /\ c.fresca = "sim" => /\ MesmasDe(c.novo.dono, its, nov) /\ nov[c.item] = its[c.item]
                                 /\ n = m
      BY <2>4, <3>1
    <3>3. PedidoItemOK(c, nov)  BY <2>2, <3>2, LinhasSeguem
    <3>4. SozinhaOK(c, nov, m)  BY <2>1, <2>2, <3>2, SozinhaSegue
    <3>5. SozinhaOK(c, nov, n)  BY <3>2, <3>4 DEF SozinhaOK
    <3> QED  BY <2>2, <3>3, <3>5
  <2> QED  BY <2>3, <2>4
<1>2. ASSUME NEW q \in Alteracoes0, NEW o \in Alteracoes0 \ {q}
      PROVE  Convivem(alteracao'[q], alteracao'[o])
  <2>1. alteracao[q] \in Alteracao /\ alteracao[o] \in Alteracao /\ Convivem(alteracao[q], alteracao[o])
    BY DEF TipoPessoaT, PedidosItemOK
  <2> QED  BY <2>1, MantemConvive
<1> QED  BY <1>1, <1>2 DEF PedidosItemOK

\* One request moves; the rows and the links stay.
LEMMA UmaAvanca ==
    ASSUME TipoPessoaT, PedidosItemOK, UNCHANGED <<item, moradia>>,
           NEW r \in Alteracoes0, NEW x \in Alteracao,
           NEW f \in [Alteracoes0 -> Alteracao], alteracao' = [f EXCEPT ![r] = x],
           \A o \in Alteracoes0 \ {r} :
              /\ Mantem(f[o], alteracao[o])
              /\ Convivem(x, f[o]) /\ Convivem(f[o], x),
           PedidoItemOK(x, item), SozinhaOK(x, item, moradia[x.novo.dono])
    PROVE  PedidosItemOK' /\ alteracao' \in [Alteracoes0 -> Alteracao]
<1>1. alteracao' \in [Alteracoes0 -> Alteracao]  OBVIOUS
<1>2. ASSUME NEW o \in Alteracoes0
      PROVE  /\ PedidoItemOK(alteracao'[o], item')
             /\ SozinhaOK(alteracao'[o], item', moradia'[alteracao'[o].novo.dono])
  <2>1. CASE o = r  BY <2>1
  <2>2. CASE o # r
    <3> PICK b, c, m : b = alteracao[o] /\ c = f[o] /\ m = moradia[b.novo.dono]  OBVIOUS
    <3>1. alteracao'[o] = c /\ Mantem(c, b)  BY <2>2
    <3>2. /\ b \in Alteracao /\ PedidoItemOK(b, item) /\ SozinhaOK(b, item, m)
      BY DEF TipoPessoaT, PedidosItemOK
    <3>3. PedidoItemOK(c, item) /\ SozinhaOK(c, item, m)  BY <3>1, <3>2, MantemOK
    <3>4. SozinhaOK(c, item, moradia[c.novo.dono])
      <4>1. CASE c = AlteracaoLivre  BY <4>1, AlteracaoLivreTipo DEF SozinhaOK
      <4>2. CASE c # AlteracaoLivre
        <5>1. c.novo = b.novo  BY <3>1, <3>2, <4>2 DEF Mantem, Alteracao
        <5> QED  BY <3>3, <5>1
      <4> QED  BY <4>1, <4>2
    <3> QED  BY <3>1, <3>3, <3>4
  <2> QED  BY <2>1, <2>2
<1>3. ASSUME NEW q \in Alteracoes0, NEW o \in Alteracoes0 \ {q}
      PROVE  Convivem(alteracao'[q], alteracao'[o])
  <2>1. CASE q = r  BY <2>1
  <2>2. CASE o = r  BY <2>2
  <2>3. CASE q # r /\ o # r
    <3>1. alteracao[q] \in Alteracao /\ alteracao[o] \in Alteracao /\ Convivem(alteracao[q], alteracao[o])
      BY DEF TipoPessoaT, PedidosItemOK
    <3>2. Convivem(f[q], f[o])  BY <2>3, <3>1, MantemConvive
    <3> QED  BY <2>3, <3>2
  <2> QED  BY <2>1, <2>2, <2>3
<1> QED  BY <1>1, <1>2, <1>3 DEF PedidosItemOK

LEMMA EnvelhecerMantem ==
    ASSUME TipoPessoaT, NEW p, NEW f, f = Envelhecer(alteracao, p)
    PROVE  /\ f \in [Alteracoes0 -> Alteracao]
           /\ \A o \in Alteracoes0 :
                 /\ Mantem(f[o], alteracao[o])
                 /\ f[o].passo = alteracao[o].passo /\ f[o].item = alteracao[o].item
                 /\ f[o].novo = alteracao[o].novo /\ f[o].campos = alteracao[o].campos
                 /\ f[o].passo # "livre" /\ f[o].novo.dono = p => f[o].fresca = "nao"
<1>1. ASSUME NEW o \in Alteracoes0
      PROVE  /\ f[o] \in Alteracao /\ Mantem(f[o], alteracao[o])
             /\ f[o].passo = alteracao[o].passo /\ f[o].item = alteracao[o].item
             /\ f[o].novo = alteracao[o].novo /\ f[o].campos = alteracao[o].campos
             /\ f[o].passo # "livre" /\ f[o].novo.dono = p => f[o].fresca = "nao"
  <2>1. alteracao[o] \in Alteracao  BY DEF TipoPessoaT
  <2>2. CASE o \in OutrasDe(p)
    <3>1. f[o] = [alteracao[o] EXCEPT !.fresca = "nao"]  BY <2>2 DEF Envelhecer
    <3> QED  BY <2>1, <3>1 DEF Mantem, Alteracao
  <2>3. CASE o \notin OutrasDe(p)
    <3>1. f[o] = alteracao[o]  BY <2>3 DEF Envelhecer
    <3> QED  BY <2>1, <2>3, <3>1 DEF Mantem, OutrasDe, Comum
  <2> QED  BY <2>2, <2>3
<1> QED  BY <1>1 DEF Envelhecer

(***************************************************************************)
(* The steps of one request.                                               *)
(***************************************************************************)
LEMMA SoPedidos ==
    ASSUME IInvPessoaT, UNCHANGED <<vivas, item, eleitor, moradia, votacao, mexida, votoMexido>>,
           PedidosItemOK', alteracao' \in [Alteracoes0 -> Alteracao]
    PROVE  IInvPessoaT'
<1>1. TipoPessoaT'  BY DEF IInvPessoaT, TipoPessoaT
<1>2. MoradiaOK'  BY DEF IInvPessoaT, MoradiaOK
<1>3. VotacaoConfere'  BY DEF IInvPessoaT, VotacaoConfere
<1> QED  BY <1>1, <1>2, <1>3 DEF IInvPessoaT

LEMMA LerItemSegue ==
    ASSUME TipoPessoaT, PedidosItemOK, NEW r \in Alteracoes0, NEW i \in Itens,
           NEW novo \in Item, novo.dono \in PessoasT,
           NEW campos \in {TodosCampos, {"principal"}, {"tipo"}, {"bairro"}},
           IF campos = TodosCampos
             THEN item[i] = ItemLivre /\ \A q \in Alteracoes0 : alteracao[q].item # i
             ELSE /\ item[i].dono = novo.dono
                  /\ item[i].tipo \in TiposEndereco <=> novo.tipo \in TiposEndereco
                  /\ "tipo" \notin campos => item[i].tipo = novo.tipo,
           LerItem(r, i, novo, campos)
    PROVE  PedidosItemOK' /\ alteracao' \in [Alteracoes0 -> Alteracao]
<1> PICK p : p = novo.dono  OBVIOUS
<1> PICK limpar, fresca :
       /\ limpar = IF "principal" \in campos /\ novo.principal = "sim"
                     THEN Principais(item, p, novo.tipo) \ {i} ELSE {}
       /\ fresca = IF OutrasDe(p) = {} THEN "sim" ELSE "nao"
  OBVIOUS
<1> DEFINE x == [AlteracaoLivre EXCEPT !.passo = "lido", !.item = i, !.novo = novo,
                    !.campos = campos, !.limpar = limpar, !.fresca = fresca]
<1> PICK f : f = Envelhecer(alteracao, p)  OBVIOUS
<1>1. alteracao' = [f EXCEPT ![r] = x] /\ UNCHANGED <<item, moradia>>
  BY DEF LerItem
<1>2. /\ f \in [Alteracoes0 -> Alteracao]
      /\ \A o \in Alteracoes0 :
            /\ Mantem(f[o], alteracao[o])
            /\ f[o].passo = alteracao[o].passo /\ f[o].item = alteracao[o].item
            /\ f[o].novo = alteracao[o].novo /\ f[o].campos = alteracao[o].campos
            /\ f[o].passo # "livre" /\ f[o].novo.dono = p => f[o].fresca = "nao"
  BY EnvelhecerMantem
<1>3. limpar \in SUBSET Itens /\ fresca \in {"sim", "nao"} /\ campos \in SUBSET TodosCampos
  BY DEF Principais, DoDono, TodosCampos
<1>4. /\ x \in Alteracao /\ x.passo = "lido" /\ x.item = i /\ x.novo = novo /\ x.campos = campos
      /\ x.limpar = limpar /\ x.fresca = fresca
  BY <1>3, AlteracaoLivreTipo DEF Alteracao
<1> HIDE DEF x
<1>5. Nenhum \notin PessoasT /\ \A j \in Itens : item[j] \in Item
  BY NenhumFora DEF TipoPessoaT
<1>6. PedidoItemOK(x, item)
  <2>1. \A j \in limpar : j # i /\ item[j].dono = p /\ item[j].tipo = novo.tipo
    BY DEF Principais, DoDono
  <2>2. \A j \in limpar : LinhaOK(x, item[j])
    BY <1>4, <1>5, <2>1, ItemLivreTipo DEF LinhaOK
  <2>3. campos # TodosCampos => LinhaOK(x, item[i])
    BY <1>4, <1>5, ItemLivreTipo DEF LinhaOK
  <2>4. i \notin limpar  BY <2>1
  <2> QED  BY <1>4, <2>2, <2>3, <2>4 DEF PedidoItemOK
<1>7. SozinhaOK(x, item, moradia[x.novo.dono])
  <2>1. Pede(x) => x.limpar = Principais(item, x.novo.dono, x.novo.tipo) \ {x.item}
    BY <1>4 DEF Pede
  <2>2. ~LinkDecidido(x)  BY <1>4 DEF LinkDecidido
  <2> QED  BY <1>4, <2>1, <2>2 DEF SozinhaOK
<1>8. ASSUME NEW o \in Alteracoes0 \ {r}
      PROVE  Convivem(x, f[o]) /\ Convivem(f[o], x)
  <2>1. CASE f[o].passo = "livre"  BY <2>1 DEF Convivem
  <2>2. CASE f[o].passo # "livre"
    <3>1. campos = TodosCampos => f[o].item # i  BY <1>2
    <3>2. fresca = "sim" => f[o].novo.dono # p
      BY <1>2, <2>2 DEF OutrasDe, Comum
    <3>3. f[o].fresca = "sim" => f[o].novo.dono # p  BY <1>2, <2>2
    <3>4. f[o].campos = TodosCampos => f[o].item # i
      <4>1. PedidoItemOK(alteracao[o], item)  BY DEF PedidosItemOK
      <4>2. f[o].campos = TodosCampos => item[f[o].item] = ItemLivre
        BY <1>2, <2>2, <4>1 DEF PedidoItemOK
      <4>3. CASE campos = TodosCampos  BY <3>1, <4>3
      <4>4. CASE campos # TodosCampos
        <5>1. item[i] # ItemLivre  BY <1>5, <4>4, ItemLivreTipo
        <5> QED  BY <4>2, <5>1
      <4> QED  BY <4>3, <4>4
    <3> QED  BY <1>4, <3>1, <3>2, <3>3, <3>4 DEF Convivem
  <2> QED  BY <2>1, <2>2
<1> QED  BY <1>1, <1>2, <1>4, <1>6, <1>7, <1>8, UmaAvanca

LEMMA AdicionarSegue ==
    ASSUME IInvPessoaT, NEW r \in Alteracoes0, NEW tipos,
           tipos \subseteq TiposEndereco \cup {"telefone"}, Adicionar(r, tipos)
    PROVE  IInvPessoaT'
<1>1. PICK p \in vivas, tipo \in tipos, principal \in {"sim", "nao"},
           b \in BairrosT \cup {Nenhum} : \E i :
        /\ i = Primeiro({j \in Itens : item[j] = ItemLivre /\ \A q \in Alteracoes0 : alteracao[q].item # j})
        /\ {j \in Itens : item[j] = ItemLivre /\ \A q \in Alteracoes0 : alteracao[q].item # j} # {}
        /\ LerItem(r, i, [dono |-> p, tipo |-> tipo, principal |-> principal, bairro |-> b], TodosCampos)
  BY DEF Adicionar
<1> PICK i :
      /\ i = Primeiro({j \in Itens : item[j] = ItemLivre /\ \A q \in Alteracoes0 : alteracao[q].item # j})
      /\ {j \in Itens : item[j] = ItemLivre /\ \A q \in Alteracoes0 : alteracao[q].item # j} # {}
      /\ LerItem(r, i, [dono |-> p, tipo |-> tipo, principal |-> principal, bairro |-> b], TodosCampos)
  BY <1>1
<1>2. i \in Itens /\ item[i] = ItemLivre /\ \A q \in Alteracoes0 : alteracao[q].item # i
  <2> PICK S : S = {j \in Itens : item[j] = ItemLivre /\ \A q \in Alteracoes0 : alteracao[q].item # j}
    OBVIOUS
  <2>1. S \in SUBSET Nat /\ S # {} /\ i = Primeiro(S)  BY IdsNumerados
  <2>2. i \in S  BY <2>1, PrimeiroDeles
  <2> QED  BY <2>2
<1> PICK novo : novo = [dono |-> p, tipo |-> tipo, principal |-> principal, bairro |-> b]  OBVIOUS
<1>3. novo \in Item /\ novo.dono \in PessoasT
  BY DEF IInvPessoaT, TipoPessoaT, Item
<1>4. PedidosItemOK' /\ alteracao' \in [Alteracoes0 -> Alteracao]
  BY <1>2, <1>3, LerItemSegue DEF IInvPessoaT
<1> QED  BY <1>4, SoPedidos DEF LerItem

LEMMA MudarSegue ==
    ASSUME IInvPessoaT, NEW r \in Alteracoes0, Mudar(r)
    PROVE  IInvPessoaT'
<1>1. PICK i \in Itens : \E novo, campos :
        /\ item[i].dono # Nenhum /\ LerItem(r, i, novo, campos)
        /\ \/ /\ campos = {"principal"}
              /\ \E v \in {"sim", "nao"} : novo = [item[i] EXCEPT !.principal = v]
           \/ /\ campos = {"tipo"} /\ item[i].tipo \in TiposEndereco
              /\ \E t \in TiposEndereco : novo = [item[i] EXCEPT !.tipo = t]
           \/ /\ campos = {"bairro"}
              /\ \E b \in BairrosT \cup {Nenhum} : novo = [item[i] EXCEPT !.bairro = b]
  <2>1. PICK i \in Itens :
          /\ item[i].dono # Nenhum
          /\ \/ \E v \in {"sim", "nao"} : LerItem(r, i, [item[i] EXCEPT !.principal = v], {"principal"})
             \/ /\ item[i].tipo \in TiposEndereco
                /\ \/ \E t \in TiposEndereco : LerItem(r, i, [item[i] EXCEPT !.tipo = t], {"tipo"})
                   \/ \E b \in BairrosT \cup {Nenhum} :
                         LerItem(r, i, [item[i] EXCEPT !.bairro = b], {"bairro"})
    BY DEF Mudar
  <2> QED  BY <2>1
<1> PICK novo, campos :
        /\ item[i].dono # Nenhum /\ LerItem(r, i, novo, campos)
        /\ \/ /\ campos = {"principal"}
              /\ \E v \in {"sim", "nao"} : novo = [item[i] EXCEPT !.principal = v]
           \/ /\ campos = {"tipo"} /\ item[i].tipo \in TiposEndereco
              /\ \E t \in TiposEndereco : novo = [item[i] EXCEPT !.tipo = t]
           \/ /\ campos = {"bairro"}
              /\ \E b \in BairrosT \cup {Nenhum} : novo = [item[i] EXCEPT !.bairro = b]
  BY <1>1
<1>2. item[i] \in Item  BY DEF IInvPessoaT, TipoPessoaT
<1>3. /\ novo \in Item /\ novo.dono = item[i].dono
      /\ item[i].tipo \in TiposEndereco <=> novo.tipo \in TiposEndereco
      /\ "tipo" \notin campos => item[i].tipo = novo.tipo
  <2>1. CASE campos = {"principal"}  BY <1>2, <2>1 DEF Item
  <2>2. CASE campos = {"tipo"}
    <3>1. PICK t \in TiposEndereco : novo = [item[i] EXCEPT !.tipo = t]  BY <2>2
    <3> QED  BY <1>2, <2>2, <3>1 DEF Item
  <2>3. CASE campos = {"bairro"}  BY <1>2, <2>3 DEF Item
  <2> QED  BY <2>1, <2>2, <2>3
<1>4. novo.dono \in PessoasT  BY <1>2, <1>3 DEF Item
<1>5. campos \in {{"principal"}, {"tipo"}, {"bairro"}} /\ campos # TodosCampos
  BY CamposDistintos
<1>6. /\ campos \in {TodosCampos, {"principal"}, {"tipo"}, {"bairro"}}
      /\ IF campos = TodosCampos
           THEN item[i] = ItemLivre /\ \A q \in Alteracoes0 : alteracao[q].item # i
           ELSE /\ item[i].dono = novo.dono
                /\ item[i].tipo \in TiposEndereco <=> novo.tipo \in TiposEndereco
                /\ "tipo" \notin campos => item[i].tipo = novo.tipo
  BY <1>3, <1>5
<1>7. TipoPessoaT /\ PedidosItemOK /\ LerItem(r, i, novo, campos)  BY DEF IInvPessoaT
<1>8. PedidosItemOK' /\ alteracao' \in [Alteracoes0 -> Alteracao]
  BY <1>3, <1>4, <1>6, <1>7, LerItemSegue
<1> QED  BY <1>8, SoPedidos DEF LerItem

\* A request that goes on with what it has read.
LEMMA AvancaSegue ==
    ASSUME IInvPessoaT, UNCHANGED Resto, NEW r \in Alteracoes0, NEW a, a = alteracao[r],
           NEW x \in Alteracao, alteracao' = [alteracao EXCEPT ![r] = x],
           x.item = a.item, x.novo = a.novo, x.campos = a.campos, x.limpar = a.limpar,
           x.fresca = a.fresca, a.passo # "livre",
           x.passo = "gravado" => a.novo.tipo \in TiposEndereco,
           LinkDecidido(x) /\ x.fresca = "sim" =>
              /\ LigacaoCerta(x, moradia[x.novo.dono], BairroDe(DepoisDe(x, item), x.novo.dono))
              /\ x.passo = "ligado" => x.tocados = TocadosPor(x, moradia[x.novo.dono])
    PROVE  IInvPessoaT'
<1>1. /\ PedidoItemOK(a, item) /\ SozinhaOK(a, item, moradia[a.novo.dono])
      /\ \A o \in Alteracoes0 \ {r} : Convivem(a, alteracao[o]) /\ Convivem(alteracao[o], a)
      /\ alteracao \in [Alteracoes0 -> Alteracao] /\ a \in Alteracao
  BY DEF IInvPessoaT, PedidosItemOK, TipoPessoaT
<1>2. PedidoItemOK(x, item)  BY <1>1 DEF PedidoItemOK, LinhaOK
<1>3. SozinhaOK(x, item, moradia[x.novo.dono])
  BY <1>1 DEF SozinhaOK, Pede
<1>4. \A o \in Alteracoes0 \ {r} :
        /\ Mantem(alteracao[o], alteracao[o])
        /\ Convivem(x, alteracao[o]) /\ Convivem(alteracao[o], x)
  BY <1>1 DEF Convivem, Mantem
<1>5. UNCHANGED <<vivas, item, eleitor, moradia, votacao, mexida, votoMexido>>  BY DEF Resto
<1>6. PedidosItemOK' /\ alteracao' \in [Alteracoes0 -> Alteracao]
  BY <1>1, <1>2, <1>3, <1>4, <1>5, UmaAvanca DEF IInvPessoaT
<1> QED  BY <1>5, <1>6, SoPedidos

Planejada(a, op, elo, destino) ==
    [a EXCEPT !.passo = "gravado", !.op = op, !.elo = elo, !.destino = destino]
LEMMA PlanejaTipo ==
    ASSUME NEW a \in Alteracao, NEW op \in {"nada", "nenhum", "manter", "trocar", "novo"},
           NEW elo \in Elos \cup {Nenhum}, NEW destino \in BairrosT \cup {Nenhum},
           NEW x, x = Planejada(a, op, elo, destino)
    PROVE  /\ x \in Alteracao /\ x.item = a.item /\ x.novo = a.novo /\ x.campos = a.campos
           /\ x.limpar = a.limpar /\ x.fresca = a.fresca /\ x.passo = "gravado"
           /\ x.op = op /\ x.elo = elo /\ x.destino = destino
<1>1. x.passo = "gravado" /\ x.op = op /\ x.elo = elo /\ x.destino = destino  BY DEF Alteracao, Planejada
<1>2. /\ x.item = a.item /\ x.novo = a.novo /\ x.campos = a.campos /\ x.limpar = a.limpar
      /\ x.tocados = a.tocados /\ x.fresca = a.fresca
  BY DEF Alteracao, Planejada
<1>3. x = [passo |-> "gravado", item |-> a.item, novo |-> a.novo, campos |-> a.campos,
           limpar |-> a.limpar, op |-> op, elo |-> elo, destino |-> destino,
           tocados |-> a.tocados, fresca |-> a.fresca]
  BY DEF Alteracao, Planejada
<1>4. x \in Alteracao  BY <1>3 DEF Alteracao
<1> QED  BY <1>1, <1>2, <1>4

LEMMA GravarItensSegue ==
    ASSUME IInvPessoaT, NEW r \in Alteracoes0, GravarItens(r)
    PROVE  IInvPessoaT'
<1> PICK a, p, b, d : /\ a = alteracao[r] /\ p = a.novo.dono /\ b = BairroDe(DepoisDe(a, item), p)
                      /\ d = Decisao(p, b)
  OBVIOUS
<1>1. a \in Alteracao /\ item \in [Itens -> Item] /\ a.passo = "lido" /\ alteracao \in [Alteracoes0 -> Alteracao]
  BY DEF IInvPessoaT, TipoPessoaT, GravarItens
<1>2. Depois(r, item) = DepoisDe(a, item)  BY DEF Depois, DepoisDe
<1> DEFINE x == IF a.novo.tipo \in TiposEndereco
                  THEN [a EXCEPT !.passo = "gravado", !.op = d.op, !.elo = d.elo, !.destino = d.destino]
                  ELSE [a EXCEPT !.passo = "ligado"]
<1>3. alteracao' = [alteracao EXCEPT ![r] = x] /\ UNCHANGED Resto
  BY <1>2 DEF GravarItens, DoEndereco
<1>4. CASE a.novo.tipo \in TiposEndereco
  <2>1. DepoisDe(a, item) \in [Itens -> Item]  BY <1>1, DepoisDeTipo
  <2>2. b \in BairrosT \cup {Nenhum}  BY <2>1, BairroTipo
  <2>3. CabeElo(p)  BY <1>4 DEF GravarItens, DoEndereco
  <2>4. /\ LigacaoCerta(d, moradia[p], b)
        /\ d.op \in {"nenhum", "manter", "trocar", "novo"} /\ d.elo \in Elos \cup {Nenhum}
        /\ d.destino \in BairrosT \cup {Nenhum}
    BY <2>2, <2>3, DecisaoCerta
  <2> PICK op, elo, destino, y : /\ op = d.op /\ elo = d.elo /\ destino = d.destino
                                 /\ y = Planejada(a, op, elo, destino)
    OBVIOUS
  <2>5. x = y  BY <1>4 DEF Planejada
  <2> HIDE DEF x
  <2>6. /\ op \in {"nada", "nenhum", "manter", "trocar", "novo"} /\ elo \in Elos \cup {Nenhum}
        /\ destino \in BairrosT \cup {Nenhum} /\ a \in Alteracao
    BY <1>1, <2>4
  <2>7. /\ y \in Alteracao /\ y.item = a.item /\ y.novo = a.novo /\ y.campos = a.campos
        /\ y.limpar = a.limpar /\ y.fresca = a.fresca /\ y.passo = "gravado"
        /\ y.op = op /\ y.elo = elo /\ y.destino = destino
    <3>1. y = Planejada(a, op, elo, destino)  OBVIOUS
    <3> QED  BY ONLY <2>6, <3>1, PlanejaTipo
  <2>8. /\ x \in Alteracao /\ x.item = a.item /\ x.novo = a.novo /\ x.campos = a.campos
        /\ x.limpar = a.limpar /\ x.fresca = a.fresca /\ x.passo = "gravado"
        /\ x.op = d.op /\ x.elo = d.elo /\ x.destino = d.destino
    BY <2>5, <2>7
  <2>9. DepoisDe(x, item) = DepoisDe(a, item)  BY <2>8 DEF DepoisDe
  <2>10. LigacaoCerta(x, moradia[p], b)  BY <2>4, <2>8 DEF LigacaoCerta
  <2> QED  BY <1>1, <1>3, <1>4, <2>8, <2>9, <2>10, AvancaSegue
<1>5. CASE a.novo.tipo \notin TiposEndereco
  <2>1. x = [a EXCEPT !.passo = "ligado"]  BY <1>5
  <2> HIDE DEF x
  <2>2. /\ x \in Alteracao /\ x.item = a.item /\ x.novo = a.novo /\ x.campos = a.campos
        /\ x.limpar = a.limpar /\ x.fresca = a.fresca /\ x.passo = "ligado"
    BY <1>1, <2>1 DEF Alteracao
  <2>3. ~LinkDecidido(x)  BY <1>5, <2>2 DEF LinkDecidido
  <2> QED  BY <1>1, <1>3, <2>2, <2>3, AvancaSegue
<1> QED  BY <1>4, <1>5

LEMMA GravarMoradiaSegue ==
    ASSUME IInvPessoaT, NEW r \in Alteracoes0, GravarMoradia(r)
    PROVE  IInvPessoaT'
<1> PICK a, p, m, b : /\ a = alteracao[r] /\ p = a.novo.dono /\ m = moradia[p]
                      /\ b = BairroDe(DepoisDe(a, item), p)
  OBVIOUS
<1> PICK existe, repetido \in {TRUE, FALSE} :
      /\ existe <=> a.op # "trocar" \/ a.elo \in UsoDe(m)
      /\ repetido <=> /\ a.op \in {"trocar", "novo"} /\ existe
                      /\ \E e \in UsoDe(m) \ {a.elo} : m[e] = a.destino
  OBVIOUS
<1>1. /\ a \in Alteracao /\ a.passo = "gravado" /\ alteracao \in [Alteracoes0 -> Alteracao]
      /\ PedidoItemOK(a, item) /\ SozinhaOK(a, item, m)
  BY DEF IInvPessoaT, TipoPessoaT, PedidosItemOK, GravarMoradia
<1>2. EmUso(p) = UsoDe(m)  BY DEF EmUso, UsoDe
<1> DEFINE x == IF repetido THEN [a EXCEPT !.passo = "falhou"]
                ELSE [a EXCEPT !.passo = "ligado", !.tocados = TocadosPor(a, m),
                               !.op = IF existe THEN a.op ELSE "nenhum"]
<1>3. alteracao' = [alteracao EXCEPT ![r] = x] /\ UNCHANGED Resto
  <2> PICK uso, tocados : uso = EmUso(p) /\ tocados = {e \in uso : e # a.elo \/ a.op = "trocar"}
    OBVIOUS
  <2>1. /\ alteracao' = [alteracao EXCEPT ![r] =
              IF a.op \in {"trocar", "novo"} /\ (a.op # "trocar" \/ a.elo \in uso)
                   /\ \E e \in uso \ {a.elo} : m[e] = a.destino
                THEN [@ EXCEPT !.passo = "falhou"]
                ELSE [@ EXCEPT !.passo = "ligado", !.tocados = tocados,
                               !.op = IF a.op # "trocar" \/ a.elo \in uso THEN a.op ELSE "nenhum"]]
        /\ UNCHANGED Resto
    BY DEF GravarMoradia
  <2>2. uso = UsoDe(m) /\ tocados = TocadosPor(a, m)  BY <1>2 DEF TocadosPor
  <2>3. CASE repetido  BY <1>1, <2>1, <2>2, <2>3
  <2>4. CASE ~repetido /\ existe
    <3>1. /\ ~(/\ a.op \in {"trocar", "novo"} /\ (a.op # "trocar" \/ a.elo \in uso)
               /\ \E e \in uso \ {a.elo} : m[e] = a.destino)
          /\ (a.op # "trocar" \/ a.elo \in uso)
      BY <2>2, <2>4
    <3>2. alteracao' = [alteracao EXCEPT ![r] = [a EXCEPT !.passo = "ligado", !.tocados = tocados,
                                                   !.op = a.op]]
      BY <1>1, <2>1, <3>1
    <3> QED  BY <2>1, <2>2, <2>4, <3>2
  <2>5. CASE ~repetido /\ ~existe
    <3>1. /\ ~(/\ a.op \in {"trocar", "novo"} /\ (a.op # "trocar" \/ a.elo \in uso)
               /\ \E e \in uso \ {a.elo} : m[e] = a.destino)
          /\ ~(a.op # "trocar" \/ a.elo \in uso)
      BY <2>2, <2>5
    <3>2. alteracao' = [alteracao EXCEPT ![r] = [a EXCEPT !.passo = "ligado", !.tocados = tocados,
                                                   !.op = "nenhum"]]
      BY <1>1, <2>1, <3>1
    <3> QED  BY <2>1, <2>2, <2>5, <3>2
  <2> QED  BY <2>3, <2>4, <2>5
<1>4. a.novo.tipo \in TiposEndereco  BY <1>1 DEF PedidoItemOK
<1>5. a.fresca = "sim" => LigacaoCerta(a, m, b)  BY <1>1 DEF SozinhaOK, LinkDecidido
<1>6. a.fresca = "sim" => existe /\ ~repetido
  BY <1>5 DEF LigacaoCerta
<1>7. CASE repetido
  <2>1. x = [a EXCEPT !.passo = "falhou"]  BY <1>7
  <2> HIDE DEF x
  <2>2. /\ x \in Alteracao /\ x.item = a.item /\ x.novo = a.novo /\ x.campos = a.campos
        /\ x.limpar = a.limpar /\ x.fresca = a.fresca /\ x.passo = "falhou"
    BY <1>1, <2>1 DEF Alteracao
  <2>3. ~LinkDecidido(x)  BY <2>2 DEF LinkDecidido
  <2> QED  BY <1>1, <1>3, <2>2, <2>3, AvancaSegue
<1>8. CASE ~repetido
  <2>1. TocadosPor(a, m) \in SUBSET Elos  BY DEF TocadosPor, UsoDe
  <2> PICK op : op = IF existe THEN a.op ELSE "nenhum"  OBVIOUS
  <2>2. x = [a EXCEPT !.passo = "ligado", !.tocados = TocadosPor(a, m), !.op = op]  BY <1>8
  <2> HIDE DEF x
  <2>3. op \in {"nada", "nenhum", "manter", "trocar", "novo"}  BY <1>1 DEF Alteracao
  <2>4. /\ x \in Alteracao /\ x.item = a.item /\ x.novo = a.novo /\ x.campos = a.campos
        /\ x.limpar = a.limpar /\ x.fresca = a.fresca /\ x.passo = "ligado"
        /\ x.tocados = TocadosPor(a, m) /\ x.op = op /\ x.elo = a.elo /\ x.destino = a.destino
    BY <1>1, <2>1, <2>2, <2>3 DEF Alteracao
  <2>5. DepoisDe(x, item) = DepoisDe(a, item)  BY <2>4 DEF DepoisDe
  <2>6. a.fresca = "sim" => op = a.op  BY <1>6
  <2>7. a.fresca = "sim" => LigacaoCerta(x, m, b) /\ x.tocados = TocadosPor(x, m)
    BY <1>5, <2>4, <2>6 DEF LigacaoCerta, TocadosPor
  <2> QED  BY <1>1, <1>3, <2>4, <2>5, <2>7, AvancaSegue
<1> QED  BY <1>7, <1>8

LEMMA FalharSegue ==
    ASSUME IInvPessoaT, NEW r \in Alteracoes0, Falhar(r)
    PROVE  IInvPessoaT'
<1>1. /\ alteracao' = [alteracao EXCEPT ![r] = AlteracaoLivre] /\ alteracao \in [Alteracoes0 -> Alteracao]
      /\ UNCHANGED <<vivas, item, eleitor, moradia, votacao, mexida, votoMexido>>
  BY DEF Falhar, Resto, IInvPessoaT, TipoPessoaT
<1>2. \A o \in Alteracoes0 \ {r} :
        /\ Mantem(alteracao[o], alteracao[o])
        /\ Convivem(AlteracaoLivre, alteracao[o]) /\ Convivem(alteracao[o], AlteracaoLivre)
  BY AlteracaoLivreTipo DEF Mantem, Convivem
<1>3. PedidoItemOK(AlteracaoLivre, item) /\ SozinhaOK(AlteracaoLivre, item, moradia[AlteracaoLivre.novo.dono])
  BY AlteracaoLivreTipo DEF PedidoItemOK, SozinhaOK
<1>4. PedidosItemOK' /\ alteracao' \in [Alteracoes0 -> Alteracao]
  BY <1>1, <1>2, <1>3, AlteracaoLivreTipo, UmaAvanca DEF IInvPessoaT
<1> QED  BY <1>1, <1>4, SoPedidos

(***************************************************************************)
(* The steps that change rows and links.                                   *)
(***************************************************************************)
\* What one row of a commit may be.
LEMMA ConfirmarLinha ==
    ASSUME TipoPessoaT, NEW a \in Alteracao, PedidoItemOK(a, item), a.passo # "livre",
           \A i \in a.limpar \cup (IF a.campos = TodosCampos THEN {} ELSE {a.item}) :
              item[i].dono # Nenhum,
           NEW D, D = DepoisDe(a, item), NEW i \in Itens, D[i] # item[i]
    PROVE  /\ D[i].dono = a.novo.dono
           /\ item[i].dono = a.novo.dono \/ (i = a.item /\ item[i] = ItemLivre)
           /\ LinhaSegue(item[i], D[i]) \/ (i = a.item /\ a.campos = TodosCampos)
           /\ a.novo.tipo \notin TiposEndereco =>
                 item[i].tipo \notin TiposEndereco /\ D[i].tipo \notin TiposEndereco
<1> PICK l, n : l = item[i] /\ n = D[i]  OBVIOUS
<1>1. /\ l \in Item /\ a.novo \in Item /\ a.novo.dono # Nenhum
      /\ item \in [Itens -> Item]
  BY NenhumFora DEF TipoPessoaT, Alteracao, PedidoItemOK
<1>2. /\ IF i = a.item THEN n = Escrita(l, a.novo, a.campos)
         ELSE IF i \in a.limpar THEN n = [l EXCEPT !.principal = "nao"] ELSE n = l
  BY <1>1, DepoisDeTipo
<1>3. CASE i = a.item /\ a.campos = TodosCampos
  <2>1. l = ItemLivre  BY <1>3 DEF PedidoItemOK
  <2>2. n.dono = a.novo.dono /\ n.tipo = a.novo.tipo
    BY <1>1, <1>2, <1>3, EscritaTipo, CamposDistintos
  <2>3. l.tipo \notin TiposEndereco  BY <2>1, ItemLivreTipo DEF TiposEndereco
  <2> QED  BY <1>3, <2>1, <2>2, <2>3
<1>4. CASE i = a.item /\ a.campos # TodosCampos
  <2>1. a.campos \in {{"principal"}, {"tipo"}, {"bairro"}} /\ LinhaOK(a, l) /\ l.dono # Nenhum
    BY <1>4 DEF PedidoItemOK
  <2>2. n.dono = l.dono /\ n.tipo \in {l.tipo, a.novo.tipo}
    BY <1>1, <1>2, <1>4, <2>1, EscritaTipo
  <2>3. l.dono = a.novo.dono /\ n # ItemLivre /\ l # ItemLivre
    BY <2>1, <2>2, ItemLivreTipo DEF LinhaOK
  <2> QED  BY <1>4, <2>1, <2>2, <2>3 DEF LinhaOK, LinhaSegue
<1>5. CASE i # a.item
  <2>1. i \in a.limpar /\ n = [l EXCEPT !.principal = "nao"]  BY <1>2, <1>5
  <2>2. LinhaOK(a, l) /\ l.dono # Nenhum  BY <2>1 DEF PedidoItemOK
  <2>3. n.dono = l.dono /\ n.tipo = l.tipo  BY <1>1, <2>1 DEF Item
  <2>4. l.dono = a.novo.dono /\ n # ItemLivre /\ l # ItemLivre
    BY <2>2, <2>3, ItemLivreTipo DEF LinhaOK
  <2> QED  BY <2>2, <2>3, <2>4 DEF LinhaOK, LinhaSegue
<1> QED  BY <1>3, <1>4, <1>5

LEMMA ConfirmarItensSegue ==
    ASSUME IInvPessoaT, NEW r \in Alteracoes0, ConfirmarItens(r)
    PROVE  IInvPessoaT'
<1> USE DEF IInvPessoaT
<1> PICK a, p, m, D : a = alteracao[r] /\ p = a.novo.dono /\ m = moradia[p] /\ D = DepoisDe(a, item)
  OBVIOUS
<1>1. /\ a \in Alteracao /\ a.passo = "ligado" /\ alteracao \in [Alteracoes0 -> Alteracao]
      /\ PedidoItemOK(a, item) /\ SozinhaOK(a, item, m) /\ item \in [Itens -> Item]
      /\ moradia = [x \in PessoasT |-> moradia[x]] /\ mexida \in [PessoasT -> {"sim", "nao"}]
  BY DEF TipoPessoaT, PedidosItemOK, ConfirmarItens
<1>2. p \in PessoasT /\ p # Nenhum  BY <1>1, NenhumFora DEF PedidoItemOK
<1>3. /\ item' = D
      /\ \A i \in a.limpar \cup (IF a.campos = TodosCampos THEN {} ELSE {a.item}) :
            item[i].dono # Nenhum
      /\ alteracao' = [alteracao EXCEPT ![r] = AlteracaoLivre]
      /\ UNCHANGED <<vivas, eleitor, votacao, votoMexido>>
  BY DEF ConfirmarItens, Presentes, Depois, DepoisDe
<1>4. IF a.novo.tipo \in TiposEndereco
        THEN /\ moradia' = [moradia EXCEPT ![p] = MoradiaDepois(r)]
             /\ mexida' = [mexida EXCEPT ![p] = IF a.fresca = "sim" THEN "nao" ELSE "sim"]
        ELSE UNCHANGED <<moradia, mexida>>
  BY DEF ConfirmarItens, DoEndereco
<1>5. D \in [Itens -> Item]  BY <1>1, DepoisDeTipo
<1>6. ASSUME NEW i \in Itens, D[i] # item[i]
      PROVE  /\ D[i].dono = p
             /\ item[i].dono = p \/ (i = a.item /\ item[i] = ItemLivre)
             /\ LinhaSegue(item[i], D[i]) \/ (i = a.item /\ a.campos = TodosCampos)
             /\ a.novo.tipo \notin TiposEndereco =>
                   item[i].tipo \notin TiposEndereco /\ D[i].tipo \notin TiposEndereco
  BY <1>1, <1>3, <1>6, ConfirmarLinha
<1>7. \A x : x # p /\ x # Nenhum => MesmasDe(x, item, D)
  BY <1>6, ItemLivreTipo DEF MesmasDe
<1>8. \A x \in PessoasT : x # p => moradia'[x] = moradia[x] /\ mexida'[x] = mexida[x]
  BY <1>1, <1>4
<1>9. PedidosItemOK' /\ alteracao' \in [Alteracoes0 -> Alteracao]
  <2>1. \A o \in Alteracoes0 : alteracao'[o] = IF o = r THEN AlteracaoLivre ELSE alteracao[o]
    BY <1>1, <1>3
  <2>2. \A o \in Alteracoes0 : Mantem(alteracao'[o], alteracao[o])  BY <2>1 DEF Mantem
  <2>3. alteracao' = [o \in Alteracoes0 |-> alteracao'[o]]  BY <1>1, <1>3, AlteracaoLivreTipo
  <2>4. ASSUME NEW o \in Alteracoes0, alteracao'[o].passo # "livre"
        PROVE  /\ \A i \in {alteracao[o].item} \cup alteracao[o].limpar : LinhaSegue(item[i], item'[i])
               /\ alteracao'[o].fresca = "sim" =>
                    /\ MesmasDe(alteracao[o].novo.dono, item, item')
                    /\ item'[alteracao[o].item] = item[alteracao[o].item]
                    /\ moradia'[alteracao[o].novo.dono] = moradia[alteracao[o].novo.dono]
    <3> PICK b : b = alteracao[o]  OBVIOUS
    <3>1. o # r /\ alteracao'[o] = b /\ b.passo # "livre"
      BY <2>1, <2>4, AlteracaoLivreTipo
    <3>2. b \in Alteracao /\ PedidoItemOK(b, item) /\ Convivem(a, b) /\ Convivem(b, a)
      BY <3>1 DEF TipoPessoaT, PedidosItemOK
    <3>3. /\ b.novo.dono \in PessoasT /\ b.novo.dono # Nenhum /\ b.item \in Itens
          /\ b.limpar \subseteq Itens
      BY <3>1, <3>2, NenhumFora DEF PedidoItemOK, Alteracao
    <3>4. a.campos = TodosCampos => a.item \notin {b.item} \cup b.limpar
      <4>1. a.campos = TodosCampos => item[a.item] = ItemLivre /\ b.item # a.item
        BY <1>1, <3>1, <3>2 DEF PedidoItemOK, Convivem
      <4>2. \A i \in b.limpar : item[i] # ItemLivre
        BY <3>1, <3>2 DEF PedidoItemOK, LinhaOK
      <4> QED  BY <4>1, <4>2
    <3>5. \A i \in {b.item} \cup b.limpar : LinhaSegue(item[i], D[i])
      BY <1>6, <3>3, <3>4 DEF LinhaSegue
    <3>6. ASSUME b.fresca = "sim"
          PROVE  /\ MesmasDe(b.novo.dono, item, D) /\ D[b.item] = item[b.item]
                 /\ moradia'[b.novo.dono] = moradia[b.novo.dono]
      <4>1. b.novo.dono # p  BY <1>1, <3>1, <3>2, <3>6 DEF Convivem
      <4>2. D[b.item] = item[b.item]
        <5> SUFFICES ASSUME D[b.item] # item[b.item] PROVE FALSE
          OBVIOUS
        <5>1. \/ item[b.item].dono = p
              \/ b.item = a.item /\ item[b.item] = ItemLivre
          BY <1>6, <3>3
        <5>2. b.campos = TodosCampos => item[b.item] = ItemLivre /\ a.item # b.item
          BY <1>1, <3>1, <3>2 DEF PedidoItemOK, Convivem
        <5>3. b.campos # TodosCampos =>
                item[b.item] # ItemLivre /\ item[b.item].dono \in {b.novo.dono, Nenhum}
          BY <3>1, <3>2 DEF PedidoItemOK, LinhaOK
        <5> QED  BY <1>2, <4>1, <5>1, <5>2, <5>3, ItemLivreTipo
      <4> QED  BY <1>7, <1>8, <3>3, <4>1, <4>2
    <3> QED  BY <1>3, <3>1, <3>5, <3>6
  <2> QED  BY <1>3, <1>5, <2>2, <2>3, <2>4, RestoSegue
<1>10. MoradiaOK'
  <2> SUFFICES ASSUME NEW x \in PessoasT, mexida'[x] = "nao"
               PROVE  MoradiaUma(moradia'[x], BairroDe(D, x))
    BY <1>3 DEF MoradiaOK
  <2>1. CASE x # p
    <3>1. MesmasDe(x, item, D) /\ moradia'[x] = moradia[x] /\ mexida[x] = "nao"
      BY <1>7, <1>8, <2>1, NenhumFora
    <3> QED  BY <3>1, MesmasBairro DEF MoradiaOK
  <2>2. CASE x = p /\ a.novo.tipo \notin TiposEndereco
    <3>1. \A i \in Itens : i \in Residenciais(item, p) \/ i \in Residenciais(D, p) => D[i] = item[i]
      BY <1>6, <2>2 DEF Residenciais, DoDono, TiposEndereco
    <3>2. BairroDe(D, p) = BairroDe(item, p)  BY <3>1, BairroIgual
    <3>3. moradia' = moradia /\ mexida' = mexida  BY <1>4, <2>2
    <3> QED  BY <2>2, <3>2, <3>3 DEF MoradiaOK
  <2>3. CASE x = p /\ a.novo.tipo \in TiposEndereco
    <3>1. a.fresca = "sim" /\ moradia'[p] = MoradiaDepois(r)
      BY <1>1, <1>2, <1>4, <2>3
    <3> PICK b, f : b = BairroDe(D, p) /\ f = MoradiaDepois(r)  OBVIOUS
    <3>2. LigacaoCerta(a, m, b) /\ a.tocados = TocadosPor(a, m)
      BY <1>1, <2>3, <3>1 DEF SozinhaOK, LinkDecidido
    <3>3. b \in BairrosT \cup {Nenhum}  BY <1>5, BairroTipo
    <3>4. f = [e \in Elos |->
                 IF e = a.elo /\ a.op \in {"trocar", "novo"} THEN a.destino
                 ELSE IF e \in TocadosPor(a, m) THEN Nenhum ELSE m[e]]
      BY <3>2 DEF MoradiaDepois
    <3>5. MoradiaUma(f, b)  BY <3>2, <3>3, <3>4, LigacaoFaz
    <3> QED  BY <2>3, <3>1, <3>5
  <2> QED  BY <2>1, <2>2, <2>3
<1>11. TipoPessoaT'
  <2>1. moradia' = [x \in PessoasT |-> moradia'[x]]  BY <1>1, <1>4
  <2>2. mexida' \in [PessoasT -> {"sim", "nao"}]  BY <1>1, <1>4
  <2> QED  BY <1>3, <1>5, <1>9, <2>1, <2>2 DEF TipoPessoaT
<1>12. VotacaoConfere'  BY <1>3 DEF VotacaoConfere
<1> QED  BY <1>9, <1>10, <1>11, <1>12

LEMMA ExcluirContatoSegue ==
    ASSUME IInvPessoaT, NEW i \in Itens, ExcluirContato(i)
    PROVE  IInvPessoaT'
<1> USE DEF IInvPessoaT
<1> PICK p, n : p = item[i].dono /\ n = [ItemLivre EXCEPT !.tipo = "excluido"]  OBVIOUS
<1>1. /\ item[i].tipo = "telefone" /\ p \in vivas /\ item' = [item EXCEPT ![i] = n]
      /\ alteracao' = Envelhecer(alteracao, p)
      /\ UNCHANGED <<vivas, eleitor, moradia, votacao, mexida, votoMexido>>
  BY DEF ExcluirContato
<1>2. n \in Item /\ n.dono = Nenhum /\ n.tipo = "excluido" /\ n # ItemLivre
  BY ItemLivreTipo DEF Item
<1>3. p \in PessoasT /\ p # Nenhum /\ item \in [Itens -> Item]  BY <1>1, NenhumFora DEF TipoPessoaT
<1>4. item' \in [Itens -> Item]  BY <1>1, <1>2, <1>3
<1>5. /\ \A j \in Itens : LinhaSegue(item[j], item'[j])
      /\ \A j \in Itens : j # i => item'[j] = item[j]
  BY <1>1, <1>2, <1>3, ItemLivreTipo DEF LinhaSegue, TiposEndereco
<1>6. \A x : x # p /\ x # Nenhum => MesmasDe(x, item, item')
  BY <1>1, <1>2, <1>3, <1>5 DEF MesmasDe
<1>7. /\ alteracao' \in [Alteracoes0 -> Alteracao]
      /\ \A o \in Alteracoes0 :
            /\ Mantem(alteracao'[o], alteracao[o])
            /\ alteracao'[o].passo = alteracao[o].passo /\ alteracao'[o].item = alteracao[o].item
            /\ alteracao'[o].novo = alteracao[o].novo /\ alteracao'[o].campos = alteracao[o].campos
            /\ alteracao'[o].passo # "livre" /\ alteracao'[o].novo.dono = p => alteracao'[o].fresca = "nao"
  BY <1>1, EnvelhecerMantem
<1>8. PedidosItemOK'
  <2>1. ASSUME NEW o \in Alteracoes0, alteracao'[o].passo # "livre"
        PROVE  /\ \A j \in {alteracao[o].item} \cup alteracao[o].limpar : LinhaSegue(item[j], item'[j])
               /\ alteracao'[o].fresca = "sim" =>
                    /\ MesmasDe(alteracao[o].novo.dono, item, item')
                    /\ item'[alteracao[o].item] = item[alteracao[o].item]
                    /\ moradia'[alteracao[o].novo.dono] = moradia[alteracao[o].novo.dono]
    <3> PICK b : b = alteracao[o]  OBVIOUS
    <3>1. b \in Alteracao /\ PedidoItemOK(b, item) /\ b.passo # "livre"
      BY <1>7, <2>1 DEF TipoPessoaT, PedidosItemOK
    <3>2. b.item \in Itens /\ b.limpar \subseteq Itens /\ b.novo.dono \in PessoasT
      BY <3>1 DEF PedidoItemOK, Alteracao
    <3>3. ASSUME alteracao'[o].fresca = "sim"
          PROVE  MesmasDe(b.novo.dono, item, item') /\ item'[b.item] = item[b.item]
      <4>1. b.novo.dono # p  BY <1>7, <2>1, <3>3
      <4>2. b.item # i
        BY <1>1, <1>3, <3>1, <4>1, ItemLivreTipo DEF PedidoItemOK, LinhaOK
      <4> QED  BY <1>5, <1>6, <3>2, <4>1, <4>2, NenhumFora
    <3> QED  BY <1>1, <1>5, <3>2, <3>3
  <2>2. alteracao' = [o \in Alteracoes0 |-> alteracao'[o]]  BY <1>7
  <2>3. CASE Alteracoes0 = {}  BY <2>3 DEF PedidosItemOK
  <2>4. CASE Alteracoes0 # {}
    <3>1. PICK r \in Alteracoes0 : TRUE  BY <2>4
    <3> QED  BY <1>4, <1>7, <2>1, <2>2, <3>1, RestoSegue
  <2> QED  BY <2>3, <2>4
<1>9. MoradiaOK'
  <2>1. ASSUME NEW x \in PessoasT PROVE BairroDe(item', x) = BairroDe(item, x)
    <3>1. \A j \in Itens : j \in Residenciais(item, x) \/ j \in Residenciais(item', x) => item'[j] = item[j]
      BY <1>1, <1>2, <1>3, <1>5 DEF Residenciais, DoDono
    <3> QED  BY <3>1, BairroIgual
  <2> QED  BY <1>1, <2>1 DEF MoradiaOK
<1>10. TipoPessoaT'  BY <1>1, <1>4, <1>7 DEF TipoPessoaT
<1>11. VotacaoConfere'  BY <1>1 DEF VotacaoConfere
<1> QED  BY <1>8, <1>9, <1>10, <1>11

\* A link made or removed by hand.
LEMMA ManuaisSegue ==
    ASSUME IInvPessoaT, NEW p \in PessoasT, Desligar(p) \/ \E b \in BairrosT : Ligar(p, b)
    PROVE  IInvPessoaT'
<1> USE DEF IInvPessoaT
<1>1. /\ alteracao' = Envelhecer(alteracao, p) /\ UNCHANGED <<vivas, item, eleitor>>
      /\ \/ /\ \E n : moradia' = [moradia EXCEPT ![p] = n]
            /\ mexida' = [mexida EXCEPT ![p] = "sim"] /\ UNCHANGED <<votacao, votoMexido>>
         \/ /\ \E n : votacao' = [votacao EXCEPT ![p] = n]
            /\ votoMexido' = [votoMexido EXCEPT ![p] = "sim"] /\ UNCHANGED <<moradia, mexida>>
  <2>1. CASE Desligar(p)
    <3>1. /\ alteracao' = Envelhecer(alteracao, p) /\ UNCHANGED <<vivas, item, eleitor>>
          /\ \/ /\ \E e \in EmUso(p) : moradia' = [moradia EXCEPT ![p] = [@ EXCEPT ![e] = Nenhum]]
                /\ mexida' = [mexida EXCEPT ![p] = "sim"] /\ UNCHANGED <<votacao, votoMexido>>
             \/ /\ \E b \in votacao[p] : votacao' = [votacao EXCEPT ![p] = @ \ {b}]
                /\ votoMexido' = [votoMexido EXCEPT ![p] = "sim"] /\ UNCHANGED <<moradia, mexida>>
      BY <2>1 DEF Desligar
    <3> QED  BY <3>1
  <2>2. CASE \E b \in BairrosT : Ligar(p, b)
    <3>1. PICK b \in BairrosT : Ligar(p, b)  BY <2>2
    <3>2. /\ alteracao' = Envelhecer(alteracao, p) /\ UNCHANGED <<vivas, item, eleitor>>
          /\ \/ /\ moradia' = [moradia EXCEPT ![p] = [@ EXCEPT ![EloNovo(p)] = b]]
                /\ mexida' = [mexida EXCEPT ![p] = "sim"] /\ UNCHANGED <<votacao, votoMexido>>
             \/ /\ votacao' = [votacao EXCEPT ![p] = @ \cup {b}]
                /\ votoMexido' = [votoMexido EXCEPT ![p] = "sim"] /\ UNCHANGED <<moradia, mexida>>
      BY <3>1 DEF Ligar
    <3> QED  BY <3>2
  <2> QED  BY <2>1, <2>2
<1>2. /\ moradia = [x \in PessoasT |-> moradia[x]] /\ votacao = [x \in PessoasT |-> votacao[x]]
      /\ mexida \in [PessoasT -> {"sim", "nao"}] /\ votoMexido \in [PessoasT -> {"sim", "nao"}]
      /\ item \in [Itens -> Item]
  BY DEF TipoPessoaT
<1>3. /\ alteracao' \in [Alteracoes0 -> Alteracao]
      /\ \A o \in Alteracoes0 :
            /\ Mantem(alteracao'[o], alteracao[o])
            /\ alteracao'[o].passo = alteracao[o].passo /\ alteracao'[o].item = alteracao[o].item
            /\ alteracao'[o].novo = alteracao[o].novo /\ alteracao'[o].campos = alteracao[o].campos
            /\ alteracao'[o].passo # "livre" /\ alteracao'[o].novo.dono = p => alteracao'[o].fresca = "nao"
  BY <1>1, EnvelhecerMantem
<1>4. /\ moradia' = [x \in PessoasT |-> moradia'[x]] /\ votacao' = [x \in PessoasT |-> votacao'[x]]
      /\ mexida' \in [PessoasT -> {"sim", "nao"}] /\ votoMexido' \in [PessoasT -> {"sim", "nao"}]
      /\ \A x \in PessoasT : x # p => moradia'[x] = moradia[x] /\ votacao'[x] = votacao[x]
      /\ \A x \in PessoasT : mexida'[x] = "nao" => mexida[x] = "nao" /\ moradia'[x] = moradia[x]
      /\ \A x \in PessoasT : votoMexido'[x] = "nao" => votoMexido[x] = "nao" /\ votacao'[x] = votacao[x]
  BY <1>1, <1>2
<1>5. PedidosItemOK'
  <2>1. ASSUME NEW o \in Alteracoes0, alteracao'[o].passo # "livre"
        PROVE  /\ \A j \in {alteracao[o].item} \cup alteracao[o].limpar : LinhaSegue(item[j], item'[j])
               /\ alteracao'[o].fresca = "sim" =>
                    /\ MesmasDe(alteracao[o].novo.dono, item, item')
                    /\ item'[alteracao[o].item] = item[alteracao[o].item]
                    /\ moradia'[alteracao[o].novo.dono] = moradia[alteracao[o].novo.dono]
    <3>1. alteracao[o].novo.dono \in PessoasT
      BY <1>3, <2>1 DEF PedidosItemOK, PedidoItemOK
    <3>2. alteracao'[o].fresca = "sim" => alteracao[o].novo.dono # p  BY <1>3, <2>1
    <3> QED  BY <1>1, <1>4, <3>1, <3>2 DEF LinhaSegue, MesmasDe
  <2>2. alteracao' = [o \in Alteracoes0 |-> alteracao'[o]]  BY <1>3
  <2>3. item' \in [Itens -> Item]  BY <1>1, <1>2
  <2>4. CASE Alteracoes0 = {}  BY <2>4 DEF PedidosItemOK
  <2>5. CASE Alteracoes0 # {}
    <3>1. PICK r \in Alteracoes0 : TRUE  BY <2>5
    <3> QED  BY <1>3, <2>1, <2>2, <2>3, <3>1, RestoSegue
  <2> QED  BY <2>4, <2>5
<1>6. MoradiaOK'  BY <1>1, <1>4 DEF MoradiaOK
<1>7. TipoPessoaT'  BY <1>1, <1>3, <1>4 DEF TipoPessoaT
<1>8. VotacaoConfere'  BY <1>1, <1>4 DEF VotacaoConfere
<1> QED  BY <1>5, <1>6, <1>7, <1>8

(***************************************************************************)
(* The merge.                                                              *)
(***************************************************************************)
LEMMA MesclarLinhas ==
    ASSUME item \in [Itens -> Item], NEW p \in PessoasT, NEW origem \in PessoasT, p # origem,
           NEW D, D = ItensMovidos(p, origem)
    PROVE  /\ D \in [Itens -> Item]
           /\ \A i \in Itens :
                 IF item[i].dono = origem
                   THEN /\ D[i].dono = p /\ D[i].tipo = item[i].tipo
                   ELSE D[i] = item[i]
           /\ BairroDe(D, origem) = Nenhum
           /\ \A x : x # p /\ x # origem => MesmasDe(x, item, D)
<1>1. ASSUME NEW i \in Itens
      PROVE  /\ D[i] \in Item
             /\ IF item[i].dono = origem
                  THEN /\ D[i].dono = p /\ D[i].tipo = item[i].tipo
                  ELSE D[i] = item[i]
  BY DEF ItensMovidos, Item
<1>2. D \in [Itens -> Item]  BY <1>1 DEF ItensMovidos
<1>3. Residenciais(D, origem) = {}  BY <1>1 DEF Residenciais, DoDono
<1>4. BairroDe(D, origem) = Nenhum  BY <1>3 DEF BairroDe
<1>5. \A x : x # p /\ x # origem => MesmasDe(x, item, D)  BY <1>1 DEF MesmasDe
<1> QED  BY <1>1, <1>2, <1>4, <1>5

LEMMA SemResidenciaSemLink ==
    ASSUME NEW itens \in [Itens -> Item], NEW p, BairroDe(itens, p) = Nenhum
    PROVE  \A e \in Elos : Sincronizada(itens, p)[e] = Nenhum
<1> PICK d : d = Decisao(p, BairroDe(itens, p))  OBVIOUS
<1>1. d = [op |-> "nenhum", elo |-> Nenhum, destino |-> Nenhum]  BY DEF Decisao
<1>2. Sincronizada(itens, p) = [e \in Elos |-> IF e = d.elo THEN d.destino ELSE Nenhum]
  BY DEF Sincronizada
<1> QED  BY <1>1, <1>2

LEMMA MesclarMoradia ==
    ASSUME IInvPessoaT, NEW p \in PessoasT, NEW origem \in PessoasT, Mesclar(p, origem)
    PROVE  MoradiaOK'
<1> USE DEF IInvPessoaT
<1> PICK movem \in {TRUE, FALSE} :
      movem <=> {i \in Itens : item[i].dono = origem /\ item[i].tipo \in TiposEndereco} # {}
  OBVIOUS
<1> PICK D : D = ItensMovidos(p, origem)
  OBVIOUS
<1> PICK mp, mo :
      /\ mp = IF movem THEN Sincronizada(D, p) ELSE moradia[p]
      /\ mo = IF movem THEN Sincronizada(D, origem) ELSE moradia[origem]
  OBVIOUS
<1>1. /\ p # origem /\ item' = D /\ (movem => CabeElo(p))
      /\ moradia' = [moradia EXCEPT ![p] = Copiados(mo, mp), ![origem] = mo]
      /\ mexida' = [mexida EXCEPT
             ![p] = IF movem THEN "nao" ELSE IF mexida[origem] = "sim" THEN "sim" ELSE @,
             ![origem] = IF movem THEN "nao" ELSE @]
  BY DEF Mesclar
<1>2. /\ item \in [Itens -> Item] /\ moradia = [x \in PessoasT |-> moradia[x]]
      /\ mexida \in [PessoasT -> {"sim", "nao"}]
  BY DEF TipoPessoaT
<1>3. /\ D \in [Itens -> Item]
      /\ \A i \in Itens :
            IF item[i].dono = origem
              THEN /\ D[i].dono = p /\ D[i].tipo = item[i].tipo
              ELSE D[i] = item[i]
      /\ BairroDe(D, origem) = Nenhum
      /\ \A x : x # p /\ x # origem => MesmasDe(x, item, D)
  BY <1>1, <1>2, MesclarLinhas
<1>4. /\ moradia'[p] = Copiados(mo, mp) /\ moradia'[origem] = mo
      /\ \A x \in PessoasT : x # p /\ x # origem => moradia'[x] = moradia[x] /\ mexida'[x] = mexida[x]
      /\ mexida'[p] = "nao" => movem \/ (mexida[p] = "nao" /\ mexida[origem] = "nao")
      /\ mexida'[origem] = "nao" => movem \/ mexida[origem] = "nao"
  BY <1>1, <1>2
<1>5. ~movem => /\ BairroDe(item, origem) = Nenhum
                /\ BairroDe(D, p) = BairroDe(item, p)
  <2> SUFFICES ASSUME ~movem PROVE BairroDe(item, origem) = Nenhum /\ BairroDe(D, p) = BairroDe(item, p)
    OBVIOUS
  <2>1. \A i \in Itens : item[i].dono = origem => item[i].tipo \notin TiposEndereco  OBVIOUS
  <2>2. Residenciais(item, origem) = {}  BY <2>1 DEF Residenciais, DoDono, TiposEndereco
  <2>3. \A i \in Itens : i \in Residenciais(item, p) \/ i \in Residenciais(D, p) => D[i] = item[i]
    BY <1>1, <1>3, <2>1 DEF Residenciais, DoDono, TiposEndereco
  <2>4. BairroDe(D, p) = BairroDe(item, p)  BY <2>3, BairroIgual
  <2> QED  BY <2>2, <2>4 DEF BairroDe
\* The source keeps no link, when its links are those of its addresses.
<1>6. movem \/ mexida[origem] = "nao" => MoradiaUma(mo, Nenhum) /\ \A e \in Elos : mo[e] = Nenhum
  <2>1. CASE movem
    <3>1. \A e \in Elos : mo[e] = Nenhum  BY <1>3, <2>1, SemResidenciaSemLink
    <3>2. mo = [e \in Elos |-> mo[e]]  BY <2>1 DEF Sincronizada
    <3> QED  BY <3>1, <3>2 DEF MoradiaUma, UsoDe
  <2>2. CASE ~movem /\ mexida[origem] = "nao"
    <3>1. MoradiaUma(mo, Nenhum)  BY <1>5, <2>2 DEF MoradiaOK
    <3>2. \A e \in Elos : mo[e] = Nenhum  BY <3>1 DEF MoradiaUma, UsoDe
    <3> QED  BY <3>1, <3>2
  <2> QED  BY <2>1, <2>2
<1>7. mexida'[p] = "nao" => MoradiaUma(mp, BairroDe(D, p)) /\ Copiados(mo, mp) = mp
  <2> SUFFICES ASSUME mexida'[p] = "nao"
               PROVE  MoradiaUma(mp, BairroDe(D, p)) /\ Copiados(mo, mp) = mp
    OBVIOUS
  <2>1. MoradiaUma(mp, BairroDe(D, p))
    <3>1. CASE movem  BY <1>1, <1>3, <3>1, SincronizadaUma
    <3>2. CASE ~movem
      <4>1. MoradiaUma(mp, BairroDe(item, p))  BY <1>4, <3>2 DEF MoradiaOK
      <4> QED  BY <1>5, <3>2, <4>1
    <3> QED  BY <3>1, <3>2
  <2>2. mp \in [Elos -> BairrosT \cup {Nenhum}]  BY <2>1 DEF MoradiaUma
  <2>3. \A e \in Elos : mo[e] = Nenhum  BY <1>4, <1>6
  <2> QED  BY <2>1, <2>2, <2>3, CopiadosNada
<1> SUFFICES ASSUME NEW x \in PessoasT, mexida'[x] = "nao"
             PROVE  MoradiaUma(moradia'[x], BairroDe(D, x))
  BY <1>1 DEF MoradiaOK
<1>8. CASE x = p  BY <1>4, <1>7, <1>8
<1>9. CASE x = origem  BY <1>3, <1>4, <1>6, <1>9
<1>10. CASE x # p /\ x # origem
  <2>1. moradia'[x] = moradia[x] /\ mexida[x] = "nao"  BY <1>4, <1>10
  <2>2. BairroDe(D, x) = BairroDe(item, x)  BY <1>3, <1>10, MesmasBairro
  <2> QED  BY <2>1, <2>2 DEF MoradiaOK
<1> QED  BY <1>8, <1>9, <1>10

LEMMA MesclarVotacao ==
    ASSUME IInvPessoaT, NEW p \in PessoasT, NEW origem \in PessoasT, Mesclar(p, origem)
    PROVE  VotacaoConfere'
<1> USE DEF IInvPessoaT
<1> PICK vp, vo, ep, eo : /\ vp = votacao[p] /\ vo = votacao[origem]
                          /\ ep = eleitor[p] /\ eo = eleitor[origem]
  OBVIOUS
<1>1. /\ p # origem
      /\ eleitor' = [eleitor EXCEPT ![p] = EleitorMesclado(p, origem),
                                    ![origem] = IF eleitor[p] = "semEleitor" THEN "semEleitor" ELSE @]
      /\ votacao' = [votacao EXCEPT ![p] =
             IF RodaGatilho(p, origem) THEN VotacaoDe(eleitor[origem]) ELSE @ \cup votacao[origem]]
      /\ votoMexido' = [votoMexido EXCEPT
             ![p] = IF RodaGatilho(p, origem) THEN "nao"
                    ELSE IF votoMexido[origem] = "sim" \/ eleitor[p] \notin {"semEleitor", "semLocal"}
                      THEN "sim" ELSE @,
             ![origem] = "sim"]
  BY DEF Mesclar
<1>2. /\ eleitor = [x \in PessoasT |-> eleitor[x]] /\ votacao = [x \in PessoasT |-> votacao[x]]
      /\ votoMexido \in [PessoasT -> {"sim", "nao"}]
  BY DEF TipoPessoaT
<1>3. /\ votoMexido'[origem] = "sim"
      /\ \A x \in PessoasT : x # p /\ x # origem =>
            eleitor'[x] = eleitor[x] /\ votacao'[x] = votacao[x] /\ votoMexido'[x] = votoMexido[x]
  BY <1>1, <1>2
<1>4. /\ eleitor'[p] = EleitorMesclado(p, origem)
      /\ votacao'[p] = IF RodaGatilho(p, origem) THEN VotacaoDe(eo) ELSE vp \cup vo
  BY <1>1, <1>2
<1>5. votoMexido'[p] = "nao" =>
        \/ RodaGatilho(p, origem)
        \/ /\ ~RodaGatilho(p, origem) /\ votoMexido[origem] = "nao" /\ votoMexido[p] = "nao"
           /\ ep \in {"semEleitor", "semLocal"}
  BY <1>1, <1>2
<1>6. votoMexido'[p] = "nao" => votacao'[p] = VotacaoDe(eleitor'[p])
  <2>1. CASE RodaGatilho(p, origem)
    <3>1. EleitorMesclado(p, origem) = eo  BY <2>1 DEF RodaGatilho, EleitorMesclado
    <3> QED  BY <1>4, <2>1, <3>1
  <2>2. CASE /\ ~RodaGatilho(p, origem) /\ votoMexido[origem] = "nao" /\ votoMexido[p] = "nao"
             /\ ep \in {"semEleitor", "semLocal"}
    <3>1. vp = VotacaoDe(ep) /\ vo = VotacaoDe(eo)  BY <2>2 DEF VotacaoConfere
    <3>2. vp = {} /\ (eo \in {"semEleitor", "semLocal"} => vo = {})
      BY <2>2, <3>1, BairroNaoEhMarca DEF VotacaoDe
    <3>3. CASE eo = "semEleitor"
      <4>1. EleitorMesclado(p, origem) = ep  BY <3>3 DEF EleitorMesclado
      <4> QED  BY <1>4, <2>2, <3>1, <3>2, <3>3, <4>1
    <3>4. CASE eo # "semEleitor"
      <4>1. EleitorMesclado(p, origem) = eo  BY <2>2, <3>4 DEF EleitorMesclado
      <4> QED  BY <1>4, <2>2, <3>1, <3>2, <4>1
    <3> QED  BY <3>3, <3>4
  <2> QED  BY <1>5, <2>1, <2>2
<1> SUFFICES ASSUME NEW x \in PessoasT, votoMexido'[x] = "nao"
             PROVE  votacao'[x] = VotacaoDe(eleitor'[x])
  BY DEF VotacaoConfere, VotacaoDe
<1>7. CASE x = p  BY <1>6, <1>7
<1>8. CASE x # p
  <2>1. x # origem  BY <1>3
  <2> QED  BY <1>3, <1>8, <2>1 DEF VotacaoConfere
<1> QED  BY <1>7, <1>8

LEMMA MesclarSegue ==
    ASSUME IInvPessoaT, NEW p \in PessoasT, NEW origem \in PessoasT, Mesclar(p, origem)
    PROVE  IInvPessoaT'
<1> USE DEF IInvPessoaT
<1> PICK D : D = ItensMovidos(p, origem)  OBVIOUS
<1>1. /\ p # origem /\ item' = D /\ UNCHANGED alteracao /\ vivas' \subseteq vivas
      /\ OutrasDe(p) \cup OutrasDe(origem) = {}
      /\ \E n, o : moradia' = [moradia EXCEPT ![p] = n, ![origem] = o]
      /\ \E n \in {"sim", "nao"}, o \in {"sim", "nao"} : mexida' = [mexida EXCEPT ![p] = n, ![origem] = o]
      /\ \E n \in {"sim", "nao"}, o \in {"sim", "nao"} :
            votoMexido' = [votoMexido EXCEPT ![p] = n, ![origem] = o]
      /\ \E n, o : eleitor' = [eleitor EXCEPT ![p] = n, ![origem] = o]
      /\ \E n : votacao' = [votacao EXCEPT ![p] = n]
  BY DEF Mesclar, TipoPessoaT
<1>2. /\ item \in [Itens -> Item] /\ alteracao \in [Alteracoes0 -> Alteracao] /\ vivas \subseteq PessoasT
      /\ moradia = [x \in PessoasT |-> moradia[x]] /\ votacao = [x \in PessoasT |-> votacao[x]]
      /\ eleitor = [x \in PessoasT |-> eleitor[x]]
      /\ mexida \in [PessoasT -> {"sim", "nao"}] /\ votoMexido \in [PessoasT -> {"sim", "nao"}]
  BY DEF TipoPessoaT
<1>3. /\ D \in [Itens -> Item]
      /\ \A i \in Itens :
            IF item[i].dono = origem
              THEN /\ D[i].dono = p /\ D[i].tipo = item[i].tipo
              ELSE D[i] = item[i]
      /\ \A x : x # p /\ x # origem => MesmasDe(x, item, D)
  BY <1>1, <1>2, MesclarLinhas
<1>4. \A x \in PessoasT : x # p /\ x # origem => moradia'[x] = moradia[x]  BY <1>1, <1>2
<1>5. PedidosItemOK'
  <2>1. ASSUME NEW o \in Alteracoes0, alteracao'[o].passo # "livre"
        PROVE  /\ \A j \in {alteracao[o].item} \cup alteracao[o].limpar : LinhaSegue(item[j], item'[j])
               /\ alteracao'[o].fresca = "sim" =>
                    /\ MesmasDe(alteracao[o].novo.dono, item, item')
                    /\ item'[alteracao[o].item] = item[alteracao[o].item]
                    /\ moradia'[alteracao[o].novo.dono] = moradia[alteracao[o].novo.dono]
    <3> PICK b : b = alteracao[o]  OBVIOUS
    <3>1. /\ b \in Alteracao /\ PedidoItemOK(b, item) /\ b.passo # "livre"
          /\ b.novo.dono # p /\ b.novo.dono # origem
      BY <1>1, <2>1 DEF TipoPessoaT, PedidosItemOK, OutrasDe, Comum
    <3>2. /\ b.item \in Itens /\ b.limpar \subseteq Itens /\ b.novo.dono \in PessoasT
          /\ origem # Nenhum
      BY <3>1, NenhumFora DEF PedidoItemOK, Alteracao
    <3>3. \A j \in {b.item} \cup b.limpar : item[j].dono # origem
      BY <3>1, <3>2, ItemLivreTipo DEF PedidoItemOK, LinhaOK
    <3>4. \A j \in {b.item} \cup b.limpar : item'[j] = item[j]  BY <1>1, <1>3, <3>2, <3>3
    <3> QED  BY <1>1, <1>3, <1>4, <3>1, <3>2, <3>4 DEF LinhaSegue
  <2>2. \A o \in Alteracoes0 : Mantem(alteracao'[o], alteracao[o])  BY <1>1 DEF Mantem
  <2>3. alteracao' = [o \in Alteracoes0 |-> alteracao'[o]]  BY <1>1, <1>2
  <2>4. CASE Alteracoes0 = {}  BY <2>4 DEF PedidosItemOK
  <2>5. CASE Alteracoes0 # {}
    <3>1. PICK r \in Alteracoes0 : TRUE  BY <2>5
    <3> QED  BY <1>1, <1>3, <2>1, <2>2, <2>3, <3>1, RestoSegue
  <2> QED  BY <2>4, <2>5
<1>6. TipoPessoaT'
  <2>1. moradia' = [x \in PessoasT |-> moradia'[x]]  BY <1>1, <1>2
  <2>2. votacao' = [x \in PessoasT |-> votacao'[x]]  BY <1>1, <1>2
  <2>3. eleitor' = [x \in PessoasT |-> eleitor'[x]]  BY <1>1, <1>2
  <2>4. mexida' \in [PessoasT -> {"sim", "nao"}] /\ votoMexido' \in [PessoasT -> {"sim", "nao"}]
    BY <1>1, <1>2
  <2> QED  BY <1>1, <1>2, <1>3, <2>1, <2>2, <2>3, <2>4 DEF TipoPessoaT
<1> QED  BY <1>5, <1>6, MesclarMoradia, MesclarVotacao

(***************************************************************************)
(* The place of voting, and the whole.                                     *)
(***************************************************************************)
LEMMA VotarSegue ==
    ASSUME IInvPessoaT, NEW p \in PessoasT, NEW local, Votar(p, local),
           UNCHANGED <<vivas, item, moradia, alteracao, mexida>>
    PROVE  IInvPessoaT'
<1> USE DEF IInvPessoaT
<1>1. /\ eleitor' = [eleitor EXCEPT ![p] = local]
      /\ votacao' = [votacao EXCEPT ![p] = VotacaoDe(local)]
      /\ votoMexido' = [votoMexido EXCEPT ![p] = "nao"]
  BY DEF Votar
<1>2. TipoPessoaT'  BY <1>1 DEF TipoPessoaT
<1>3. MoradiaOK' /\ PedidosItemOK'  BY DEF MoradiaOK, PedidosItemOK
<1>4. VotacaoConfere'
  <2>1. ASSUME NEW x \in PessoasT, votoMexido'[x] = "nao" PROVE votacao'[x] = VotacaoDe(eleitor'[x])
    <3>1. CASE x = p  BY <1>1, <3>1 DEF TipoPessoaT
    <3>2. CASE x # p
      <4>1. eleitor'[x] = eleitor[x] /\ votacao'[x] = votacao[x] /\ votoMexido[x] = "nao"
        BY <1>1, <2>1, <3>2 DEF TipoPessoaT
      <4> QED  BY <4>1 DEF VotacaoConfere
    <3> QED  BY <3>1, <3>2
  <2> QED  BY <2>1 DEF VotacaoConfere, VotacaoDe
<1> QED  BY <1>2, <1>3, <1>4

LEMMA AlterarSegue ==
    ASSUME IInvPessoaT, NEW tipos, tipos \subseteq TiposEndereco \cup {"telefone"}, Alterar(tipos)
    PROVE  IInvPessoaT'
<1>1. PICK r \in Alteracoes0 : \/ Adicionar(r, tipos) \/ Mudar(r) \/ GravarItens(r)
                               \/ GravarMoradia(r) \/ ConfirmarItens(r) \/ Falhar(r)
  BY DEF Alterar
<1> QED  BY <1>1, AdicionarSegue, MudarSegue, GravarItensSegue, GravarMoradiaSegue,
            ConfirmarItensSegue, FalharSegue

LEMMA InicioPessoaT == InitPessoaT => IInvPessoaT
<1> SUFFICES ASSUME InitPessoaT PROVE IInvPessoaT
  OBVIOUS
<1> USE DEF InitPessoaT
<1>1. item \in [Itens -> Item] /\ alteracao \in [Alteracoes0 -> Alteracao]
  BY ItemLivreTipo, AlteracaoLivreTipo
<1>2. TipoPessoaT  BY <1>1 DEF TipoPessoaT
<1>3. PedidosItemOK
  <2>1. \A r \in Alteracoes0 : alteracao[r].passo = "livre"  BY AlteracaoLivreTipo
  <2> QED  BY <2>1 DEF PedidosItemOK, PedidoItemOK, SozinhaOK, Convivem
<1>4. MoradiaOK
  <2> SUFFICES ASSUME NEW p \in PessoasT PROVE MoradiaUma(moradia[p], BairroDe(item, p))
    BY DEF MoradiaOK
  <2>1. Residenciais(item, p) = {}
    BY NenhumFora, ItemLivreTipo DEF Residenciais, DoDono
  <2>2. BairroDe(item, p) = Nenhum  BY <2>1 DEF BairroDe
  <2>3. moradia[p] = [e \in Elos |-> Nenhum]  OBVIOUS
  <2> QED  BY <2>2, <2>3 DEF MoradiaUma, UsoDe
<1>5. VotacaoConfere  BY BairroNaoEhMarca DEF VotacaoConfere, VotacaoDe
<1> QED  BY <1>2, <1>3, <1>4, <1>5 DEF IInvPessoaT

LEMMA PassoPessoaT == IInvPessoaT /\ [NextPessoaT]_varsPessoaT => IInvPessoaT'
<1> SUFFICES ASSUME IInvPessoaT, [NextPessoaT]_varsPessoaT PROVE IInvPessoaT'
  OBVIOUS
<1>1. CASE UNCHANGED varsPessoaT
  <2>1. UNCHANGED <<vivas, item, eleitor, moradia, votacao, alteracao, mexida, votoMexido>>
    BY <1>1 DEF varsPessoaT
  <2>2. PedidosItemOK' /\ alteracao' \in [Alteracoes0 -> Alteracao]
    BY <2>1 DEF IInvPessoaT, PedidosItemOK, TipoPessoaT
  <2> QED  BY <2>1, <2>2, SoPedidos
<1>2. ASSUME NEW tipos \in {TiposEndereco, {"telefone"}}, Alterar(tipos) PROVE IInvPessoaT'
  BY <1>2, AlterarSegue
<1>3. ASSUME Mesclas PROVE IInvPessoaT'  BY <1>3, MesclarSegue DEF Mesclas
<1>4. ASSUME Manuais PROVE IInvPessoaT'  BY <1>4, ManuaisSegue DEF Manuais
<1>5. ASSUME NEW i \in Itens, ExcluirContato(i) PROVE IInvPessoaT'  BY <1>5, ExcluirContatoSegue
<1>6. ASSUME NEW p \in PessoasT, NEW l, DefinirEleitor(p, l) \/ DefinirEleitorNoAtendimento(p, l)
      PROVE  IInvPessoaT'
  <2>1. UNCHANGED <<vivas, item, moradia, alteracao, mexida>>
    BY <1>6 DEF DefinirEleitor, DefinirEleitorNoAtendimento
  <2>2. CASE Votar(p, l)  BY <2>1, <2>2, VotarSegue
  <2>3. CASE UNCHANGED <<eleitor, votacao, votoMexido>>
    <3>1. PedidosItemOK' /\ alteracao' \in [Alteracoes0 -> Alteracao]
      BY <2>1 DEF IInvPessoaT, PedidosItemOK, TipoPessoaT
    <3> QED  BY <2>1, <2>3, <3>1, SoPedidos
  <2> QED  BY <1>6, <2>2, <2>3 DEF DefinirEleitor, DefinirEleitorNoAtendimento
<1> QED  BY <1>1, <1>2, <1>3, <1>4, <1>5, <1>6 DEF NextPessoaT, NextEnderecos, NextContatos, NextVotos

LEMMA SemprePessoaT == SpecPessoaT => []IInvPessoaT
  BY InicioPessoaT, PassoPessoaT, PTL DEF SpecPessoaT

\* Whatever the requests, the hands and the merges: after a change nobody
\* overlapped, a person lives and votes where the addresses and the voter say.
THEOREM LocaisSempreConferem == SpecPessoaT => []LocaisConferem
<1>1. IInvPessoaT => LocaisConferem
  <2> SUFFICES ASSUME IInvPessoaT PROVE MoradiaConfere
    BY DEF LocaisConferem, IInvPessoaT
  <2> SUFFICES ASSUME NEW p \in PessoasT, mexida[p] = "nao"
               PROVE  /\ {moradia[p][e] : e \in EmUso(p)} = {BairroDe(item, p)} \ {Nenhum}
                      /\ Cardinality(EmUso(p)) <= 1
    BY DEF MoradiaConfere
  <2> PICK m, b : m = moradia[p] /\ b = BairroDe(item, p)  OBVIOUS
  <2>1. MoradiaUma(m, b)  BY DEF IInvPessoaT, MoradiaOK
  <2>2. EmUso(p) = UsoDe(m)  BY DEF EmUso, UsoDe
  <2> QED  BY <2>1, <2>2, UmaConfere
<1> QED  BY <1>1, SemprePessoaT, PTL

LEMMA PrincipalFica ==
    ASSUME IInvPessoaT, NEW r \in Alteracoes0, ConfirmarItens(r), NEW a, a = alteracao[r],
           a.fresca = "sim", "principal" \in a.campos, a.novo.principal = "sim"
    PROVE  Principais(item', a.novo.dono, a.novo.tipo) = {a.item}
<1> PICK p, t, D : p = a.novo.dono /\ t = a.novo.tipo /\ D = DepoisDe(a, item)  OBVIOUS
<1>1. /\ a \in Alteracao /\ a.passo = "ligado" /\ item \in [Itens -> Item] /\ item' = D
      /\ PedidoItemOK(a, item) /\ SozinhaOK(a, item, moradia[p])
  BY DEF IInvPessoaT, TipoPessoaT, PedidosItemOK, ConfirmarItens, Depois, DepoisDe
<1>2. /\ a.item \in Itens /\ a.limpar = Principais(item, p, t) \ {a.item}
      /\ a.campos # TodosCampos => a.campos = {"principal"} /\ item[a.item].tipo = t
  BY <1>1 DEF PedidoItemOK, SozinhaOK, Pede
<1>3. /\ D \in [Itens -> Item]
      /\ \A i \in Itens :
            IF i = a.item THEN D[i] = Escrita(item[i], a.novo, a.campos)
            ELSE IF i \in a.limpar THEN D[i] = [item[i] EXCEPT !.principal = "nao"]
            ELSE D[i] = item[i]
  BY <1>1, DepoisDeTipo
<1>4. D[a.item].dono = p /\ D[a.item].tipo = t /\ D[a.item].principal = "sim"
  <2> PICK l, n : l = item[a.item] /\ n = D[a.item]  OBVIOUS
  <2>1. l \in Item /\ a.novo \in Item /\ n = Escrita(l, a.novo, a.campos)
    BY <1>1, <1>2, <1>3 DEF Alteracao
  <2>2. /\ n.dono = IF "dono" \in a.campos THEN p ELSE l.dono
        /\ n.tipo = IF "tipo" \in a.campos THEN t ELSE l.tipo
        /\ n.principal = "sim"
    BY <2>1, EscritaTipo
  <2>3. CASE a.campos = TodosCampos  BY <2>2, <2>3, CamposDistintos
  <2>4. CASE a.campos # TodosCampos
    <3>1. LinhaOK(a, l) /\ l.tipo = t /\ a.campos = {"principal"}
      BY <1>1, <1>2, <2>4 DEF PedidoItemOK
    <3>2. l.dono # Nenhum  BY <2>4 DEF ConfirmarItens, Presentes
    <3> QED  BY <2>2, <3>1, <3>2 DEF LinhaOK
  <2> QED  BY <2>3, <2>4
<1>5. ASSUME NEW i \in Itens, i # a.item, D[i].dono = p, D[i].tipo = t, D[i].principal = "sim"
      PROVE  FALSE
  <2>1. CASE i \in a.limpar
    <3>1. D[i].principal = "nao"  BY <1>1, <1>3, <1>5, <2>1 DEF Item
    <3> QED  BY <1>5, <3>1
  <2>2. CASE i \notin a.limpar
    <3>1. i \in Principais(item, p, t)  BY <1>3, <1>5, <2>2 DEF Principais, DoDono
    <3> QED  BY <1>2, <1>5, <2>2, <3>1
  <2> QED  BY <2>1, <2>2
<1>6. Principais(D, p, t) = {a.item}  BY <1>2, <1>4, <1>5 DEF Principais, DoDono
<1> QED  BY <1>1, <1>6

\* A request for a principal that nobody's overlapped leaves one principal.
THEOREM PrincipalSempreUnico == SpecPessoaT => PrincipalUnico
<1>1. IInvPessoaT =>
        [\A r \in Alteracoes0 :
          LET a == alteracao[r]
          IN (ConfirmarItens(r) /\ a.fresca = "sim" /\ "principal" \in a.campos
                /\ a.novo.principal = "sim")
             => Principais(item', a.novo.dono, a.novo.tipo) = {a.item}]_varsPessoaT
  BY PrincipalFica
<1> QED  BY <1>1, SemprePessoaT, PTL DEF PrincipalUnico
=============================================================================
